CONSTANTS
  Uploads <- MCUploads
  Similarity <- MCSimilarity
  Relevance <- MCRelevance
  Language <- MCLanguage
  Drift <- MCDrift
  MaxPages = 3
  MaxChars = 30
  MinBlockWords = 3
  MinPages = 3
  HeaderLimit = 4
  KeyLimit = 3
  NumberWords <- MCNumberWords
  NGram = 2
  MinVerbatim = 3
  MinSentence = 3
  MaxSentences = 3
  Floor = 50
  Base = 70
  Ceiling = 75
  Pivot = 2
  Gate = 20
  MaxOverlap = 60
  Window = 1
  ShortEnough = 6
  PhraseWords = 4
  PhraseShare = 55
  FunctionWords = {"the", "of"}
  KeyLength = 6
  Inner <- MCParts
  Endings = {}
  Beginnings <- MCParts
  None = None
SPECIFICATION Spec
INVARIANTS CopiesFound PartsAddUp UncitedCopyIsActedOn ResolvedForCause
CHECK_DEADLOCK FALSE
