\* Two requests for one project over a three-stage pipeline.
SPECIFICATION Spec
CONSTANTS
  p1 = p1
  j1 = j1
  j2 = j2
  NoJob = NoJob
  Projects = {p1}
  Jobs = {j1, j2}
  ProjectOf <- OneProjectTwoJobs
  NumStages = 3
  Depends <- Fork
  MaxCrashes = 1
INVARIANTS
  TypeOK
  ClaimIsExclusive
  DependenciesSucceeded
  OutcomeIsRecorded
  CompletedMeansDelivered
SYMMETRY JobSymmetry
