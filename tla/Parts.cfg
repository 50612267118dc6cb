SPECIFICATION Spec
CONSTANTS
  Items = {1, 2, 3, 4, 5}
  Records <- ItemRecords
  Poisoned <- PoisonedSets
  Configured = 2
  Mode = "thread"
  AllowProcess = FALSE
  Cpus = 4
  MaxFiles = 3
  MaxRecords = 4
  Embedders = {1, 2, 3}
  Configs <- Configurations
  Texts = {"b"}
  Secrets = {"b"}
  BatchSize = 1
  Migrators = {1, 2}
  MaxFaults = 2
  Vocabulary <- QuestionItems
  MaxItems = 5
  ShortWords = 1
  Worlds <- AnswerWorlds
  Lines <- MakeLines
  MaxLines = 4
  Macros = {"A", "B"}
  Files = {"f"}
  Always = "always"
  ConfigPairs <- MakeConfigs
  MarkdownLines <- DocLines
  HtmlLines <- TagLines
  Openings <- DocOpenings
  MaxAdded = 4
  Categories = {"api", "widgets"}
  PathList <- TreePaths
  Trees <- ScanTrees
  GitWorlds <- ScanGits
  Include <- ScanIncludes
  Exclude <- ScanExcludes
  DocAreas = {"app", "link"}
  ConfigAreas <- BuildAreas
  BuildCandidates <- BuildFiles
  Defconfigs = {"main", "lib"}
  Outside <- NoTarget
  MaxChanges = 1
  MaxTrouble = 1
  Callers = {1, 2, 3}
  Calls <- CallerCalls
  RecentLimit = 2
  BuildProfiles = {"b1", "b2"}
  Guards = {"f"}
  SourceFilters = {"all"}
  MaxVersion = 2
  MaxRuns = 3
  Objects = {1, 2, 3}
  Traits <- ObjectTraits
  RankedIntents = {"call_trace", "api_lookup"}
  Enabled <- RetrieverSets
  Requested = {"watch"}
  Rerankers = {"lightweight"}
  TopK = 2
INVARIANTS
  PhaseAddsUp
  NothingBegunAfterCancel
  CacheTellsTruth
  VersionTellsTables
  AnswersKeepContract
  StatesTellTheBuild
  DocumentsAreCited
  InventoryIsTrue
  MetricsTellRuns
  RankingFollowsRetrievers
PROPERTIES
  MigrationCompletes
  OwnTermsKeepIntent
  SavedProfilesAreShown
CHECK_DEADLOCK FALSE
