\* Three runs of three keys, a crash at any step, and a removal; two runs that
\* publish and two previews; two projects and a medium; a model of three files
\* and two downloads; five plans of four stages and one change.
CONSTANTS
  NoRun = NoRun
  Runs = {1, 2, 3, 4}
  Keys = {1, 2, 3}
  Retentions = {0, 1, 2}
  MaxCrashes = 2
  StageOrder <- TwoStages
  FileNames <- Names
  MaxPublished = 2
  Viewers = {"v1", "v2"}
  MaxDeaths = 1
  Ids = {"p1", "p2"}
  Media = {"m1"}
  Languages = {"en"}
  Editors = {"e1", "e2"}
  MaxRestarts = 1
  RepoFiles <- SortedFiles
  FileSize <- Sizes
  Endpoints = {"a", "b"}
  Fetches = {"d1", "d2"}
  MaxKills = 1
  Pipeline <- TextStages
  Depends <- TextDepends
  OptionalDepends <- TextOptionalDepends
  Optional = {"polish"}
  Inputs = {"translation"}
  Hashed <- TextHashed
  ReadsLines = {"subtitle"}
  WritesLines = {"translation", "polish"}
  Selections <- FewSelections
  MaxPlans = 5
  MaxChanges = 1
SPECIFICATION FilesSpec
INVARIANTS
  FilesTypeOK NothingHalfWritten CompletedIsUsable StoreIsSound
  HandsOutWholes RowsMatchTheDisk DownloadsAreWhole PlansAreSound
CHECK_DEADLOCK FALSE
