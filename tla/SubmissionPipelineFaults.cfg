\* One upload, one replica of each service, one failed call, crash or SIGTERM anywhere.
SPECIFICATION FairSpec
CONSTANTS
  Submissions = {s1}
  NoSubmission = none
  Confirms = {c1}
  Builders = {b1}
  Deployers = {d1}
  NoMember = nobody
  MaxTroubles = 1
  Sigterms = TRUE
  MaxMoves = 0
INVARIANTS
  TypeOK
  
  BuildEarned

  
CHECK_DEADLOCK FALSE
