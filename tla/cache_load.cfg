CONSTANTS
  Sentence <- MCSentence
  Import = {"Require X", "Require Y"}
  Statement <- MCStatement
  Solving = {"tac"}
  Qed = "Qed"
  Admitted = "Admitted"
  Needs <- MCNeeds
  Source <- ImportsFirst
  NoTarget = NoTarget
  Idle = Idle
  NoBase = NoBase
  Mishap = {"timeout"}
  MaxTries = 2
  MaxDisk = 2
SPECIFICATION Spec
INVARIANTS
  TypeOK
  BaseIsGenuine
  BaseIsFresh
  OpensAtTarget
  OpenedPrefixRuns
PROPERTIES
  WarmCacheIsKept
