\* The documented teardown: no call fails, one SIGTERM, no crash.
SPECIFICATION FairSpec
CONSTANTS
  Submissions = {s1, s2}
  Deployed = {s1, s2}
  NoSubmission = none
  HttpSlots = {}
  MaxTests = 2
  MaxTroubles = 1
  Faulty = FALSE
PROPERTIES
  SandboxAlwaysDeleted
CHECK_DEADLOCK FALSE
