------------------------- MODULE SessionProperties --------------------------
(* What the single-agent session must get right. *)
EXTENDS Session

TypeOK ==
  /\ session \in Session \union {NoSession}
  /\ mc_tactics \in BOOLEAN
  /\ candidate \in Candidate \union {NoFile}

HasSession == session # NoSession

\* Whatever mix of steps, speculation, rollbacks, whole-proof checks and
\* reopening produced them, the committed sentences replay from the snapshot
\* behind the session's own file and libraries.
SessionReplays == HasSession => IsReplay(BaseOf(session), session.committed)

\* write_candidate can say what s has loaded: the standard library, and either
\* both libraries of the bridge or none, as the flag tells.
FlagTells(s) ==
  /\ "stdlib" \in s.loaded
  /\ "zify" \in s.loaded <=> "lra" \in s.loaded
  /\ mc_tactics <=> "zify" \in s.loaded

\* While the session says COMPLETE, candidate.v is its proof: this file, these
\* sentences, nothing left open behind them, and before them the libraries the
\* session proved it with, unless the flag does not tell which.
CandidateIsTheProof ==
  HasSession /\ session.complete =>
    /\ ~ProofOpen(State(session))
    /\ candidate # NoFile
    /\ candidate.file = session.file
    /\ candidate.body = Texts(session.committed)
    /\ FlagTells(session) => candidate.requires = session.loaded

\* candidate.v outlives rollbacks and other files: at any moment, when it requires
\* what its session had loaded, it runs through behind its own file's prefix and
\* leaves no proof open.
CandidateCloses ==
  candidate # NoFile /\ candidate.requires = candidate.loaded =>
    LET r == ExecText(Base[candidate.file][candidate.requires], candidate.body)
    IN  r.done /\ ~ProofOpen(r.st)

\* candidate.v is standalone (write_candidate's comment): it requires what its
\* session had loaded, no less and nothing else.  The code does less (README.md,
\* "Known disagreements").
CandidateStandalone ==
  HasSession /\ session.complete => candidate.requires = session.loaded

----
Restarted == HasSession' /\ session'.committed = <<>> /\ ~session'.complete

RolledBack ==
  /\ HasSession /\ HasSession'
  /\ IsStrictPrefix(session'.committed, session.committed)
  /\ ~session'.complete

\* A finished proof is only given up on purpose: from a complete session the
\* next state is the same session, a shorter script of it, or another session.
CompletionLasts ==
  [][HasSession /\ session.complete =>
       UNCHANGED <<session, candidate>> \/ RolledBack \/ Restarted]_vars

\* No silent victory (try_auto_qed's comment): a call that leaves no goal does
\* not leave the proof unfinished, unless Qed ran out of time, or was refused
\* because of a block the agent has not closed or by the kernel.
NoSilentVictory ==
  [][HasSession' /\ GoalsAreGone(session') =>
       \/ UNCHANGED session \/ RolledBack \/ Restarted
       \/ State(session').ctx # <<>> \/ State(session').phase = "flawed"
       \/ "qed" \in Mishap]_vars
=============================================================================
