CONSTANTS
  Goal <- MCGoal
  Root = "thm"
  Aside = "lem"
  Digest <- MCDigest
  Concl <- MCConcl
  Tactic <- MCTactic
  Effect <- MCEffect
  Rash = {"fix"}
  NoDigest = ""
  File = {"main", "mathcomp", "done"}
  Base <- MCBase
  Mathcomp = {"mathcomp"}
  Installed = {"stdlib", "zify", "lra"}
  Preset = "done"
  Text <- MCText
  Menu <- MCMenu
  Portfolio <- MCPortfolio
  BridgePortfolio <- MCBridgePortfolio
  Mishap = {"prefix", "load"}
  NoSession = NoSession
  NoFile = NoFile
  MaxScript = 4
  MaxBlocks = 1
SPECIFICATION Spec
CHECK_DEADLOCK FALSE
INVARIANTS
  TypeOK
  SessionReplays
  CandidateIsTheProof
  CandidateCloses
PROPERTIES
  CompletionLasts
  NoSilentVictory
