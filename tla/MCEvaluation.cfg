CONSTANTS
  Grid = {0, 40, 50, 60, 66, 70, 78, 85, 95, 100}
  Commands <- MCCommands
  MaxCommands = 3
  Hub <- MCHub
  Graded = {"stsb"}
  Bundled <- MCBundled
  Cosine <- MCCosine
  Rules <- MCRules
  Threshold = 66
  Confident = 78
  MaxFpr = 1500
  Absent = Absent
  Torn = Torn
SPECIFICATION BenchSpec
INVARIANTS CorpusIsClean CurvesAgree VerdictsAreEarned
CHECK_DEADLOCK FALSE
