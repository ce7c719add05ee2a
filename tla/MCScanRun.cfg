SPECIFICATION Spec
CONSTANTS
  m1 = m1
  m2 = m2
  m3 = m3
  Null = Null
  Models = {m1, m2, m3}
  RuleOrder <- OrderOfRules
  MaxKeyBlock = 2
  LowerCase <- Lowered
  ExcludedDirectories = {"node_modules"}
  Lockfiles = {"yarn.lock"}
  GeneratedNames = {"a.min.js"}
  NotPortable = {"con"}
  LanguageOf <- LanguageTable
  Interpreters <- Shebangs
  Limits <- SmallLimits
  TargetLines = 4
  MaxLines = 4
  MaxContextLines = 2
  MaxSplitDepth = 2
  Nodes <- TreeNodes
  MaxNodes = 16
  Contents <- SomeFiles
  MinConfidence = 6
  Scans <- SomeScans
  Outputs <- ToolOutputs
  MaxCalls = 3
  Concurrency = 2
  MaxShown = 2
  Replies <- RepliesTo
  Verdicts <- SomeVerdicts
  Endings <- SomeEndings
  ActivityLimit = 2
  MaxDecided = 1
INVARIANTS TypeOK IngestSafe CodeCovered SecretsHidden BudgetKept SeriousStays NothingLost CrossChecked ShownIsResult ReportAddsUp
PROPERTY EveryScanEnds
CHECK_DEADLOCK FALSE
