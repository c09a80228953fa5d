CONSTANTS
  Sentence <- MCSentence
  Import = {"Require X", "Require Y"}
  Statement <- MCStatement
  Solving = {"tac"}
  Qed = "Qed"
  Admitted = "Admitted"
  Needs <- MCNeeds
  Source <- ImportsFirst
  NoTarget = NoTarget
  Idle = Idle
  NoBase = NoBase
  Mishap = {}
  MaxTries = 40
  MaxDisk = 0
SPECIFICATION Spec
PROPERTIES
  EveryTheoremReachable
