\* Two replicas of each service; once, the partition moves in mid batch or an
\* upload is confirmed by two requests at the same time.
SPECIFICATION Spec
CONSTANTS
  Submissions = {s1}
  NoSubmission = none
  Confirms = {c1, c2}
  Builders = {b1, b2}
  Deployers = {d1, d2}
  NoMember = nobody
  MaxTroubles = 0
  Sigterms = FALSE
  MaxMoves = 1
SYMMETRY Symmetry
INVARIANTS
  NoOrphanSandbox
  AnnouncedSandboxKept
  NothingVanishes
CHECK_DEADLOCK FALSE
