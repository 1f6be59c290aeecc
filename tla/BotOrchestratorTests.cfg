\* Two tests of a submission, by its records, a POST /run or one that names its pod for
\* another submission; one failed call, crash or shutdown.
SPECIFICATION FairSpec
CONSTANTS
  Submissions = {s1, manual}
  Deployed = {s1}
  NoSubmission = none
  HttpSlots = {h1}
  MaxTests = 2
  MaxTroubles = 1
  Faulty = TRUE
INVARIANTS
  TypeOK
  MutualExclusion
  DeletesOwnJob
  SuccessIsEarned
  NoOrphanJob
  NoSilentSkip
PROPERTIES
  PodOutlivesJob
  TestsEnd
  Redelivered
CHECK_DEADLOCK FALSE
