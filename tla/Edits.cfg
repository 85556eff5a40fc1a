\* A ring of three and channels of two; two runs and three requests on three
\* words; four words; two entries and two projects; three requests for two
\* settings; two rows, two tabs and two calls; two installs.
CONSTANTS
  Subscribers = {s1, s2}
  Capacity = 3
  SubscriberBuffer = 2
  MaxEvents = 5
  Requests = {1, 2, 3}
  Scripts <- TwoLines
  MaxRuns = 2
  MaxRacing = 2
  Spoken <- FiveKinds
  Gaps = {0, 2}
  MaxWords = 4
  MinDuration = 3
  MaxDuration = 7
  MaxCPS = 2
  MaxChars = 7
  Pause = 2
  MinGap = 1
  TranslatedLengths = {2, 20}
  Owners = {"p", "q"}
  TargetLanguage <- TwoLanguages
  Script <- SharedScript
  Occurring <- FewTerms
  Translations = {"x", "y"}
  Priorities = {1, 2}
  MaxBlockEntries = 2
  MaxEntries = 2
  MaxRemovals = 1
  MaxPasses = 1
  FileDocument <- FromFile
  EnvDocument <- FromEnv
  Flags <- FromFlags
  SettingsRequests = {"s1", "s2", "s3"}
  MaxRacers = 2
  MaxReboots = 1
  ProviderIds = {"p1", "p2"}
  Tabs = {"t1", "t2"}
  ApiKeys = {"k1"}
  ChatCalls = {"c1", "c2"}
  MaxEdits = 3
  MaxInstalls = 2
  Clickers = {"c1", "c2"}
  Callers = {"w1"}
SPECIFICATION EditsSpec
INVARIANTS
  EditsTypeOK WindowIsContiguous LinesKeepTheirText LinesAreSound MadeWithItsTerms
  SettingsAreTrue ProvidersAreRight InstallsAreTrue
PROPERTY FollowsTheLog
CHECK_DEADLOCK FALSE
