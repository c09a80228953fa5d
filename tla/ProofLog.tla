------------------------------ MODULE ProofLog ------------------------------
(***************************************************************************)
(* What the shared-proof daemon promises, whoever works on it and however  *)
(* many private branches there are: one proof script that only grows, that *)
(* the prover accepts from the theorem's statement at every moment, and    *)
(* that is written out once, complete, when it closes the proof.           *)
(***************************************************************************)
EXTENDS Prover

CONSTANT NoFile  \* nothing has been written

VARIABLES
  log,   \* the sentences of the script
  done,  \* the script closes the proof
  file   \* what was written

logVars == <<log, done, file>>

LogInit == log = <<>> /\ done = FALSE /\ file = NoFile

Extend ==
  LET r == ExecText(Opening, log')
  IN  /\ ~done
      /\ IsPrefix(log, log') /\ log' # log
      /\ r.done
      /\ done' = ~ProofOpen(r.st)
      /\ file' = IF done' THEN log' ELSE file

LogSpec == LogInit /\ [][Extend]_logVars
=============================================================================
