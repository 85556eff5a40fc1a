SPECIFICATION Spec
CONSTANTS
  p1 = p1
  j1 = j1
  j2 = j2
  NoJob = NoJob
  Projects = {p1}
  Jobs = {j1, j2}
  ProjectOf <- OneProjectTwoJobs
  NumStages = 2
  Depends <- Chain
  MaxCrashes = 1
INVARIANTS
  NoJobStuckRunning
