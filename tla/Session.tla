------------------------------ MODULE Session -------------------------------
(***************************************************************************)
(* The single-agent server (src/session_server/rocq_agent_session.ml): one *)
(* session on one file, its committed sentences, and candidate.v.  A tool  *)
(* call is one action.  state, search, build, verify, and calls the server *)
(* refuses, change nothing once a session exists.                          *)
(*                                                                         *)
(* A definition introduced by a remark in parentheses is a plausible       *)
(* mistake in the one that follows it; Spec uses none of them.             *)
(***************************************************************************)
EXTENDS Prover

CONSTANTS
  File,       \* the files (and theorems in them) the agent opens
  Base,       \* Base[f][libs]: the snapshot behind f's prefix and these libraries
  Mathcomp,   \* the files that mention mathcomp
  Installed,  \* the tactic libraries this machine has
  Preset,     \* the file ROCQ_TASK_FILE names, or NoFile
  Text,       \* what the agent sends to step and check
  Menu,       \* the candidate lists it sends to try
  Portfolio,  \* auto_close's finishers, in order
  BridgePortfolio,  \* the ones that come first when the mathcomp bridge is loaded
  Mishap,     \* what may run out of time besides a sentence of a text
  NoSession, NoFile,
  MaxScript,  \* bound: committed sentences
  MaxBlocks   \* bound: blocks open at once

Library == {"stdlib", "zify", "lra"}

Session == [file : File, loaded : SUBSET Library, committed : Seq(Step), complete : BOOLEAN]
Candidate == [file : File, requires : SUBSET Library, body : Seq(Sentence), loaded : SUBSET Library]

ASSUME SessionConstants ==
  /\ Base \in [File -> [SUBSET Library -> Snapshot]]
  /\ Mathcomp \subseteq File
  /\ Installed \subseteq Library
  /\ Preset \in File \union {NoFile} /\ NoFile \notin File
  /\ Text \subseteq Seq(Sentence)
  /\ Menu \subseteq Seq(Seq(Sentence)) /\ \A cands \in Menu : Len(cands) <= 8
  /\ Portfolio \in Seq(Seq(Sentence)) /\ BridgePortfolio \in Seq(Seq(Sentence))
  /\ Mishap \subseteq {"prefix", "load", "qed"}
  /\ MaxScript \in Nat /\ MaxBlocks \in Nat

ASSUME SentinelsAreNone == NoSession \notin Session /\ NoFile \notin Candidate

VARIABLES
  session,     \* the session, or NoSession
  mc_tactics,  \* the bridge flag: portfolio and write_candidate go by it
  candidate    \* what candidate.v holds, and what its session had loaded

vars == <<session, mc_tactics, candidate>>

\* The snapshot s began with, and the one it is at.
BaseOf(s) == Base[s.file][s.loaded]
State(s) == StateAfter(BaseOf(s), s.committed)

Init == session = NoSession /\ mc_tactics = FALSE /\ candidate = NoFile

WithinBounds ==
  session # NoSession => /\ Len(session.committed) <= MaxScript
                         /\ Len(State(session).ctx) <= MaxBlocks

----
(***************************************************************************)
(* make_session: the prefix, then the tactic libraries, each of them       *)
(* loaded only if it can be.                                               *)
(***************************************************************************)
MayLoad(lib) == lib \in Installed
MayFail(lib) == lib \notin Installed \/ "load" \in Mishap

\* The sets of libraries a new session on f may end up with.  zify and lra are
\* only tried for mathcomp files, and lra only behind zify.
Loads(f) ==
  {libs \in SUBSET Library :
     /\ \A lib \in libs : MayLoad(lib)
     /\ "zify" \in libs => f \in Mathcomp
     /\ "lra" \in libs => "zify" \in libs
     /\ "stdlib" \notin libs => MayFail("stdlib")
     /\ f \in Mathcomp /\ "zify" \notin libs => MayFail("zify")
     /\ "zify" \in libs /\ "lra" \notin libs => MayFail("lra")}

Fresh(f, libs) == [file |-> f, loaded |-> libs, committed |-> <<>>, complete |-> FALSE]

\* get_session: the session a call works on, the preset's when there is none yet.
GetSession ==
  CASE session # NoSession -> {[s |-> session, bridge |-> mc_tactics]}
    [] session = NoSession /\ Preset = NoFile -> {}
    [] session = NoSession /\ Preset # NoFile ->
         {[s |-> Fresh(Preset, libs), bridge |-> "zify" \in libs] : libs \in Loads(Preset)}

----
(***************************************************************************)
(* Completion.                                                             *)
(***************************************************************************)
\* (The bridge is not required.)
RequiresWithoutBridge(bridge) == {"stdlib"}

\* What write_candidate puts before the proof.
Requires(bridge) == {"stdlib"} \union (IF bridge THEN {"zify", "lra"} ELSE {})

Declare(s) ==
  /\ session' = [s EXCEPT !.complete = TRUE]
  /\ candidate' = [file |-> s.file, requires |-> Requires(mc_tactics'), body |-> Texts(s.committed),
                   loaded |-> s.loaded]

GoalsAreGone(s) == ProofOpen(State(s)) /\ NGoals(State(s)) = 0

\* (Before the server issued Qed by itself.)
TryAutoQedOnAgentsQedOnly(s) ==
  /\ \/ ~ProofOpen(State(s)) /\ s.committed # <<>> /\ Declare(s)
     \/ /\ ProofOpen(State(s)) \/ s.committed = <<>>
        /\ session' = s /\ UNCHANGED candidate
  /\ WithinBounds'

\* (Complete as soon as no goal is left, its Qed not committed.)
TryAutoQedForgettingQed(s) ==
  /\ \/ /\ GoalsAreGone(s) \/ (~ProofOpen(State(s)) /\ s.committed # <<>>)
        /\ Declare(s)
     \/ /\ ProofOpen(State(s)) \/ s.committed = <<>>
        /\ ~GoalsAreGone(s)
        /\ session' = s /\ UNCHANGED candidate
  /\ WithinBounds'

\* try_auto_qed on a session that is not complete: the proof is closed by the
\* agent's own text, or no goal is left and Qed closes it, or neither: Qed is
\* refused by a block left open or by the kernel, or it runs out of time.
TryAutoQed(s) ==
  LET qed == ExecText(State(s), <<Say("Qed")>>)
  IN  /\ \/ ~ProofOpen(State(s)) /\ s.committed # <<>> /\ Declare(s)
         \/ /\ GoalsAreGone(s) /\ qed.done
            /\ Declare([s EXCEPT !.committed = @ \o qed.kept])
         \/ /\ ProofOpen(State(s)) \/ s.committed = <<>>
            /\ GoalsAreGone(s) => ~qed.done \/ "qed" \in Mishap
            /\ session' = s /\ UNCHANGED candidate
      /\ WithinBounds'

\* Commit what was kept of a text that ran from the current state.
Commit(s, text) ==
  TryAutoQed([s EXCEPT !.committed = @ \o ExecText(State(s), text).kept])

----
(***************************************************************************)
(* The tools.                                                              *)
(***************************************************************************)
\* Any call on a server without session loads the preset.
FirstCall ==
  /\ session = NoSession
  /\ \E g \in GetSession : session' = g.s /\ mc_tactics' = g.bridge
  /\ UNCHANGED candidate

\* (No look at complete.)
StepToolAfterCompletion(text) ==
  \E g \in GetSession : mc_tactics' = g.bridge /\ Commit(g.s, text)

StepTool(text) ==
  \E g \in GetSession :
    /\ mc_tactics' = g.bridge
    /\ ~g.s.complete
    /\ Commit(g.s, text)

\* The last n sentences go.  candidate.v stays as it is.
RollbackTool(n) ==
  \E g \in GetSession :
    /\ mc_tactics' = g.bridge
    /\ session' = [g.s EXCEPT !.committed = SubSeq(@, 1, Len(@) - n), !.complete = FALSE]
    /\ UNCHANGED candidate

\* The first candidate that is not empty and runs through is committed; those in
\* slow run out of time.
TryTool(cands, slow) ==
  \E g \in GetSession :
    LET full == {i \in DOMAIN cands \ slow :
                   cands[i] # <<>> /\ ExecText(State(g.s), cands[i]).done}
    IN  /\ mc_tactics' = g.bridge
        /\ ~g.s.complete
        /\ full # {}
        /\ Commit(g.s, cands[Min(full)])

AutoCloseTool(slow) ==
  \E g \in GetSession :
    LET finishers == IF g.bridge THEN BridgePortfolio \o Portfolio ELSE Portfolio
        wins == {i \in DOMAIN finishers \ slow : Finishes(State(g.s), finishers[i])}
    IN  /\ mc_tactics' = g.bridge
        /\ ~g.s.complete
        /\ ProofOpen(State(g.s))
        /\ wins # {}
        /\ Commit(g.s, finishers[Min(wins)])

\* (What was committed before is kept, though the proof runs from the base.)
CheckToolKeepingWork(text) ==
  \E g \in GetSession :
    /\ mc_tactics' = g.bridge
    /\ ~g.s.complete
    /\ TryAutoQed([g.s EXCEPT !.committed = @ \o ExecText(BaseOf(g.s), text).kept])

\* (No look at complete.)
CheckToolAfterCompletion(text) ==
  \E g \in GetSession :
    /\ mc_tactics' = g.bridge
    /\ Commit([g.s EXCEPT !.committed = <<>>, !.complete = FALSE], text)

\* A whole proof from the base: what was committed before is discarded first.
CheckTool(text) ==
  \E g \in GetSession :
    /\ mc_tactics' = g.bridge
    /\ ~g.s.complete
    /\ Commit([g.s EXCEPT !.committed = <<>>], text)

\* A file whose target is found.  The flag is reset before the prefix is run,
\* and the old session stays when that fails.
OpenTool(f) ==
  /\ \/ \E libs \in Loads(f) : session' = Fresh(f, libs) /\ mc_tactics' = ("zify" \in libs)
     \/ "prefix" \in Mishap /\ mc_tactics' = FALSE /\ UNCHANGED session
  /\ UNCHANGED candidate

Next ==
  \/ FirstCall
  \/ \E text \in Text : StepTool(text)
  \/ \E n \in 1..MaxScript : RollbackTool(n)
  \/ \E cands \in Menu : \E slow \in SUBSET DOMAIN cands : TryTool(cands, slow)
  \/ \E slow \in SUBSET (1..Len(BridgePortfolio \o Portfolio)) : AutoCloseTool(slow)
  \/ \E text \in Text : CheckTool(text)
  \/ \E f \in File : OpenTool(f)

Spec == Init /\ [][Next]_vars
=============================================================================
