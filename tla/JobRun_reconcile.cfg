\* Crashes, with Reconcile called when the process starts, under fair scheduling.
SPECIFICATION FairReconcilingSpec
CONSTANTS
  p1 = p1
  j1 = j1
  j2 = j2
  NoJob = NoJob
  Projects = {p1}
  Jobs = {j1, j2}
  ProjectOf <- OneProjectTwoJobs
  NumStages = 2
  Depends <- Chain
  MaxCrashes = 1
INVARIANTS
  NoJobStuckRunning
  FailedLeavesNothingRunning
PROPERTIES
  TerminalIsFinal
  ClaimIsReleased
  CancellationIsHonoured
