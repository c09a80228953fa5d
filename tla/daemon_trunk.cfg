CONSTANTS
  Goal <- MCGoal
  Root = "thm"
  Aside = "D"
  Digest <- MCDigest
  Concl <- TwinConcl
  Tactic <- MCTactic
  Effect <- MCEffect
  Rash = {}
  NoDigest = ""
  Agent = {a1, a2}
  NoBranch = NoBranch
  NoFile = NoFile
  NoGoal = NoGoal
  Text <- BlockText
  Portfolio <- LraOnly
  Mishap = {"timeout", "anomaly"}
  MaxGoalId = 2
  MaxScript = 7
  MaxBlocks = 2
SPECIFICATION Spec
SYMMETRY AgentSymmetry
CHECK_DEADLOCK FALSE
INVARIANTS
  TypeOK
  TrunkReplays
  CandidateIsTheProof
  OwnershipExclusive
  BranchReplays
PROPERTIES
  TrunkOnlyGrows
