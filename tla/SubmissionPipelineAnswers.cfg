\* One failed call or crash: is every deployment still announced?
SPECIFICATION Spec
CONSTANTS
  Submissions = {s1}
  NoSubmission = none
  Confirms = {c1}
  Builders = {b1}
  Deployers = {d1}
  NoMember = nobody
  MaxTroubles = 1
  Sigterms = FALSE
  MaxMoves = 0
INVARIANT
  EachDeploymentAnswered
CHECK_DEADLOCK FALSE
