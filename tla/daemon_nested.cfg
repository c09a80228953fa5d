CONSTANTS
  Goal <- MCGoal
  Root = "thm"
  Aside = "D"
  Digest <- MCDigest
  Concl <- DistinctConcl
  Tactic <- MCTactic
  Effect <- MCEffect
  Rash = {}
  NoDigest = ""
  Agent = {a1, a2}
  NoBranch = NoBranch
  NoFile = NoFile
  NoGoal = NoGoal
  Text <- BlockText
  Portfolio <- MCPortfolio
  Mishap = {}
  MaxGoalId = 3
  MaxScript = 9
  MaxBlocks = 2
SPECIFICATION Spec
SYMMETRY AgentSymmetry
CHECK_DEADLOCK FALSE
PROPERTY MergedSubgoalIsClosed
