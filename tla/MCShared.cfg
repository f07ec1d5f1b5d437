CONSTANTS
  MinQueryWords = 3
  QueryWords = 3
  MaxQueries = 2
  MinAbstract = 1
  MaxSources = 2
  ArxivQueries = 1
  HasKey = FALSE
  TitleLength = 4
  FulltextMaxDocs = 1
  Tasks <- MCTasks
  Links = {"l1", "l2", "private"}
  Public = {"l1", "l2"}
  Answers <- MCAnswers
  MaxBytes = 4
  CacheSize = 1
  CacheTTL = 0
  MaxTime = 1
  Checks <- MCChecks
  Warmup = {"warmup"}
  Sentences <- MCSentences
  MaxEntries = 2
  NoVector = NoVector
  Submissions <- MCSubmissions
  Uploads = {"c1"}
  Databases = {"openalex", "arxiv"}
  Replies <- MCReplies
  Raised = Raised
  Content <- MCContent
  Fetching = TRUE
SPECIFICATION Spec
INVARIANTS SourcesAreMerged SaysWhatIsMissing FullTextIsCurrent RowsAreOwn WaitsOnlyForALoad
CHECK_DEADLOCK FALSE
