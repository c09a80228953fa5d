---------------------------- MODULE PrefixCache -----------------------------
(***************************************************************************)
(* How a session gets the snapshot it starts from: open's way to a theorem *)
(* and make_session (src/session_server/rocq_agent_session.ml) over        *)
(* exec_text with its prefix cache (src/session_server/rocq_driver.ml).    *)
(* Sentences are executed one at a time, and .vo files may be rebuilt      *)
(* between any two of them.                                                *)
(*                                                                         *)
(* A definition introduced by a remark in parentheses is a plausible       *)
(* mistake in the one that follows it; Spec uses none of them.             *)
(***************************************************************************)
EXTENDS Integers, Sequences, SequencesExt, FiniteSetsExt

CONSTANTS
  Sentence, Import, Statement, Solving, Qed, Admitted,
  Needs,     \* Needs[s]: the sentences s cannot be executed without
  Source,    \* the files, as the sequences of their sentences
  NoTarget,  \* open was given no theorem
  Idle,      \* no call is being served
  NoBase,    \* no session yet
  Mishap,    \* {"timeout"}: a sentence may run out of time
  MaxTries,  \* open admits at most that many broken proofs (40 in the code)
  MaxDisk    \* bound: rebuilds of the .vo files

ASSUME PrefixCacheConstants ==
  /\ Import \subseteq Sentence /\ Statement \subseteq Sentence /\ Solving \subseteq Sentence
  /\ Qed \in Sentence /\ Admitted \in Sentence /\ Qed # Admitted
  /\ Statement \cap {Qed, Admitted} = {}
  /\ Needs \in [Sentence -> SUBSET Sentence]
  /\ Source \subseteq Seq(Sentence)
  /\ NoTarget \notin Statement
  /\ MaxTries \in Nat /\ MaxDisk \in Nat

(***************************************************************************)
(* A snapshot is what was executed to get there, and, for an import, which *)
(* version of the .vo files was read.                                      *)
(***************************************************************************)
Snapshot == Seq([text : Sentence, version : Nat])
Pristine == <<>>
Step == [text : Sentence, post : Snapshot]

TextsOf(steps) == [i \in DOMAIN steps |-> steps[i].text]

\* A statement was executed and its proof not ended since.
ProofOpen(st) ==
  \E i \in DOMAIN st : /\ st[i].text \in Statement
                       /\ \A j \in i + 1..Len(st) : st[j].text \notin {Qed, Admitted}

\* What the prover accepts: a sentence after the ones it needs, statements outside
\* proofs only, and Qed once the last tactic solved the goal.
Accepts(st, s) ==
  /\ Needs[s] \subseteq {st[i].text : i \in DOMAIN st}
  /\ s \in Statement => ~ProofOpen(st)
  /\ s \in Solving \union {Qed, Admitted} => ProofOpen(st)
  /\ s = Qed => st[Len(st)].text \in Solving

VARIABLES
  disk,         \* the version of the .vo files on disk
  cache,        \* prefix_cache: sentences with their snapshots
  fingerprint,  \* cache_fingerprint: the .vo version the cache was last checked against
  call,         \* the open or first call being served, or Idle
  base          \* what the session starts from, or NoBase

vars == <<disk, cache, fingerprint, call, base>>

(***************************************************************************)
(* A call, and in it the execution of one text: src from the snapshot      *)
(* "from", of which acc has been executed so far.  It began with the .vo   *)
(* version "since", and has only met cached sentences while warm.  pieces  *)
(* are the steps of open's earlier executions; "making" tells              *)
(* make_session's execution from open's own.                               *)
(***************************************************************************)
Call ==
  [file : Source, target : Statement \union {NoTarget}, making : BOOLEAN, tries : Nat,
   pieces : Seq(Step), src : Seq(Sentence), from : Snapshot, since : Nat, warm : BOOLEAN, acc : Seq(Step)]

Base == [prefix : Seq(Sentence), st : Snapshot, since : Nat, target : Statement \union {NoTarget}]

ASSUME AbsentValues == Idle \notin Call /\ NoBase \notin Base

Init ==
  /\ disk = 0
  /\ cache = <<>>
  /\ fingerprint = 0
  /\ call = Idle
  /\ base = NoBase

----
(***************************************************************************)
(* Beginning and ending the execution of a text.                           *)
(***************************************************************************)
\* (The fingerprint is taken but not compared.)
CheckFreshnessOfEmptyCache(c) ==
  cache' = c /\ fingerprint' = IF c = <<>> THEN disk ELSE fingerprint

\* check_cache_freshness, on the cache c left by the text before.
CheckCacheFreshness(c) ==
  /\ cache' = IF disk # fingerprint THEN <<>> ELSE c
  /\ fingerprint' = disk

\* exec_text begins: c with the text src, from the snapshot st.
Begin(c, src, st) ==
  call' = [c EXCEPT !.src = src, !.from = st, !.since = disk, !.warm = TRUE, !.acc = <<>>]

\* (Every execution replaces the cache.)
SavedAlways == call.acc

\* save: an execution that the cache already goes beyond leaves it alone.
Saved == IF IsPrefix(TextsOf(call.acc), TextsOf(cache)) THEN cache ELSE call.acc

At == IF call.acc = <<>> THEN call.from ELSE call.acc[Len(call.acc)].post
Position == Len(call.acc) + 1
AtEnd == Position > Len(call.src)

\* The next sentence is the cache's next one, as all before it were.
Hit == call.warm /\ Position <= Len(cache) /\ cache[Position].text = call.src[Position]

----
(***************************************************************************)
(* Sentence by sentence.                                                   *)
(***************************************************************************)
Executed(s) == [text |-> s, version |-> IF s \in Import THEN disk ELSE 0]

AdoptCached ==
  /\ call # Idle /\ ~AtEnd /\ Hit
  /\ call' = [call EXCEPT !.acc = Append(@, cache[Position])]
  /\ UNCHANGED <<disk, cache, fingerprint, base>>

\* (A miss does not end the hits.)
InterpretStayingWarm ==
  LET s == call.src[Position]
  IN  /\ call # Idle /\ ~AtEnd /\ ~Hit
      /\ Accepts(At, s)
      /\ call' = [call EXCEPT !.acc = Append(@, [text |-> s, post |-> Append(At, Executed(s))])]
      /\ UNCHANGED <<disk, cache, fingerprint, base>>

Interpret ==
  LET s == call.src[Position]
  IN  /\ call # Idle /\ ~AtEnd /\ ~Hit
      /\ Accepts(At, s)
      /\ call' = [call EXCEPT !.warm = FALSE,
                              !.acc = Append(@, [text |-> s, post |-> Append(At, Executed(s))])]
      /\ UNCHANGED <<disk, cache, fingerprint, base>>

Rejected == ~AtEnd /\ ~Hit /\ ~Accepts(At, call.src[Position])
TimedOut == ~AtEnd /\ ~Hit /\ "timeout" \in Mishap
Stopped == AtEnd \/ Rejected \/ TimedOut

----
(***************************************************************************)
(* open: admit a broken proof, and go on behind it.                        *)
(***************************************************************************)
Steps == call.pieces \o call.acc

IsTarget(x) == x.text = call.target /\ ProofOpen(x.post)
Found == {i \in DOMAIN Steps : IsTarget(Steps[i])}

\* The last statement this text executed, and the snapshot it was executed from.
Statements == {i \in DOMAIN call.acc : call.acc[i].text \in Statement /\ ProofOpen(call.acc[i].post)}
Broken == Max(Statements)
BeforeBroken == IF Broken = 1 THEN call.from ELSE call.acc[Broken - 1].post

\* "stmt Admitted.", executed from there without the cache.
AdmittedSteps ==
  LET stmt   == call.acc[Broken].text
      stated == Append(BeforeBroken, Executed(stmt))
  IN  <<[text |-> stmt, post |-> stated],
        [text |-> Admitted, post |-> Append(stated, Executed(Admitted))]>>

\* What is left of the text behind the next closing command.
Rest ==
  LET closers == {i \in Position + 1..Len(call.src) : call.src[i] \in {Qed, Admitted}}
  IN  IF closers = {} THEN <<>> ELSE SubSeq(call.src, Min(closers) + 1, Len(call.src))

MayAdmit ==
  /\ Rejected
  /\ call.target # NoTarget /\ call.tries < MaxTries /\ Found = {}
  /\ Statements # {}
  /\ Accepts(BeforeBroken, call.acc[Broken].text) /\ Accepts(AdmittedSteps[1].post, Admitted)
  /\ Rest # <<>>

\* The text goes on behind the broken proof, whatever was kept of it.
Continue(tries, kept) ==
  /\ call # Idle /\ ~call.making
  /\ MayAdmit
  /\ Begin([call EXCEPT !.tries = tries, !.pieces = @ \o kept \o AdmittedSteps],
           Rest, AdmittedSteps[2].post)
  /\ CheckCacheFreshness(Saved)
  /\ UNCHANGED <<disk, base>>

\* (The statement is kept twice, from the failed text and with its Admitted.)
AdmitKeepingStatement == Continue(call.tries + 1, SubSeq(call.acc, 1, Broken))

\* (The tries are counted down.)
AdmitCountingDown == Continue(call.tries - 1, SubSeq(call.acc, 1, Broken - 1))

AdmitAndContinue == Continue(call.tries + 1, SubSeq(call.acc, 1, Broken - 1))

\* open's executions are over, and it has (or has not) a statement to prove.
OpenEnds == Stopped /\ (~MayAdmit \/ "timeout" \in Mishap)

\* (Up to, not including, the statement.)
PrefixBeforeTarget == SubSeq(TextsOf(Steps), 1, Min(Found) - 1)

\* mk_prefix: everything up to the first step that states the theorem.
PrefixOfTarget == SubSeq(TextsOf(Steps), 1, Min(Found))

Make(prefix) ==
  /\ Begin([call EXCEPT !.making = TRUE, !.pieces = <<>>], prefix, Pristine)
  /\ CheckCacheFreshness(Saved)

OpenFinds ==
  /\ call # Idle /\ ~call.making
  /\ OpenEnds
  /\ \/ call.target # NoTarget /\ Found # {} /\ Make(PrefixOfTarget)
     \/ call.target = NoTarget /\ AtEnd /\ ProofOpen(At) /\ Make(TextsOf(Steps))
  /\ UNCHANGED <<disk, base>>

OpenFails ==
  /\ call # Idle /\ ~call.making
  /\ OpenEnds
  /\ IF call.target # NoTarget THEN Found = {} ELSE ~AtEnd \/ ~ProofOpen(At)
  /\ cache' = Saved
  /\ call' = Idle
  /\ UNCHANGED <<disk, fingerprint, base>>

(***************************************************************************)
(* make_session: the session begins where its prefix ends.                 *)
(***************************************************************************)
MakeSession ==
  /\ call # Idle /\ call.making
  /\ Stopped
  /\ base' = IF AtEnd THEN [prefix |-> call.src, st |-> At, since |-> call.since,
                            target |-> call.target]
             ELSE base
  /\ cache' = Saved
  /\ call' = Idle
  /\ UNCHANGED <<disk, fingerprint>>

----
(***************************************************************************)
(* Calls and rebuilds.                                                     *)
(***************************************************************************)
Serve(target, making, src) ==
  /\ call = Idle
  /\ Begin([file |-> src, target |-> target, making |-> making, tries |-> 0, pieces |-> <<>>, src |-> <<>>,
            from |-> Pristine, since |-> 0, warm |-> TRUE, acc |-> <<>>], src, Pristine)
  /\ CheckCacheFreshness(cache)
  /\ UNCHANGED <<disk, base>>

OpenTool(src, target) == Serve(target, FALSE, src)

\* get_session, when the first call is not open: the preset file is the prefix.
GetSession(src) == base = NoBase /\ Serve(NoTarget, TRUE, src)

\* dune, coqc or another server writes new .vo files.
Rebuild ==
  /\ disk < MaxDisk
  /\ disk' = disk + 1
  /\ UNCHANGED <<cache, fingerprint, call, base>>

Next ==
  \/ \E src \in Source : \E target \in Statement \union {NoTarget} : OpenTool(src, target)
  \/ \E src \in Source : GetSession(src)
  \/ AdoptCached
  \/ Interpret
  \/ AdmitAndContinue
  \/ OpenFinds
  \/ OpenFails
  \/ MakeSession
  \/ Rebuild

Spec == Init /\ [][Next]_vars
=============================================================================
