CONSTANTS
  Goal <- MCGoal
  Root = "thm"
  Aside = "D"
  Digest <- MCDigest
  Concl <- DistinctConcl
  Tactic <- MCTactic
  Effect <- WideEffect
  Rash = {"fix"}
  NoDigest = ""
  Agent = {a1, a2}
  NoBranch = NoBranch
  NoFile = NoFile
  NoGoal = NoGoal
  Text <- PlainText
  Portfolio <- MCPortfolio
  Mishap = {}
  MaxGoalId = 3
  MaxScript = 13
  MaxBlocks = 2
SPECIFICATION Spec
SYMMETRY AgentSymmetry
CHECK_DEADLOCK FALSE
PROPERTIES
  MergeClosesItsGoal
  ReplaysDoNotConflict
  ImplementsProofLog
