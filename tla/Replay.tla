------------------------------- MODULE Replay -------------------------------
(***************************************************************************)
(* From a file to a task, its failed attempts, and their replay            *)
(* (replay_counterfactual.py): the text an attempt had committed is mined  *)
(* from its server's log and loaded into a fresh server, which runs a set  *)
(* of finishers on it; a candidate it writes goes through the gate.  The   *)
(* replay may be killed at any moment and started again.                   *)
(*                                                                         *)
(* The session server is reduced to its committed sentences, what state    *)
(* shows of them, and whether a set of finishers closes the proof          *)
(* (Session.tla is its detailed model).  The replayed attempts are of one  *)
(* task.                                                                   *)
(*                                                                         *)
(* A definition introduced by a remark in parentheses is a plausible       *)
(* mistake in the one that follows it; Spec uses none of them.             *)
(***************************************************************************)
EXTENDS Gate, Tasks, FiniteSets

CONSTANTS
    Files,      \* the files tasks are cut from
    Above,      \* the text above the statement
    Attempts,   \* the failed attempts of the run, in the order of its results
    Piece,      \* the sentences agents commit: their text, and what of it is code
    SetNames,   \* CANDIDATE_SETS, in order
    Closer,     \* per set: the finisher that closes a proof
    Outputs,    \* what the audit may print
    Limit,      \* --limit, 0 for none
    MaxCalls,   \* bound: tool calls of all attempts
    MaxKills    \* bound: kills of the replay

Attempt == {Attempts[i] : i \in DOMAIN Attempts}
SetName == {SetNames[i] : i \in DOMAIN SetNames}

\* The results of a run have no two rows of one attempt (EvalRun.tla).
ASSUME ReplayAssumption ==
    /\ Limit \in Nat /\ MaxCalls \in Nat /\ MaxKills \in Nat
    /\ Attempts \in Seq(Attempt)
    /\ \A i, j \in DOMAIN Attempts : Attempts[i] = Attempts[j] => i = j
    /\ SetNames \in Seq(SetName) /\ SetNames # <<>> /\ DOMAIN Closer = SetName

VARIABLES
    file,       \* the file of the task, <<>> when it has been cut
    theorem,    \* the theorem the replay takes for the one of the task
    log,        \* per attempt: the tool calls its servers logged
    committed,  \* per attempt: the committed sentences
    had,        \* history: per attempt, all it had committed at one time
    pc,         \* "cut", "attempts", "down", "next", "session", "judge", "row", "done"
    done,       \* the attempts that had a row when the replay was started
    turn,       \* position in Attempts
    sets,       \* position in SetNames
    mined,      \* the text the attempt under way is replayed from
    rescued,    \* the sets that rescued it so far
    rows,       \* counterfactual.jsonl
    written,    \* per directory: candidate.v, or NoDoc
    closed,     \* history: which texts sessions completed, with which set
    kills

task     == <<file, theorem>>
attempts == <<log, committed, had>>
main     == <<done, turn>>
vars     == <<task, attempts, pc, main, sets, mined, rescued, rows, written, closed, kills>>

Current == Attempts[turn]
Set     == SetNames[sets]

NoText == <<>>
NoDoc  == <<>>
Hidden == <<[text |-> <<>>, code |-> {}]>>  \* a result that does not show what is committed

\* A text in symbols.
Render(doc) ==
  LET Upto[i \in 0..Len(doc)] == IF i = 0 THEN <<>> ELSE Upto[i - 1] \o doc[i].text \o <<Blank>>
  IN Upto[Len(doc)]

Init ==
    /\ file \in Files /\ theorem = "none"
    /\ log = [a \in Attempt |-> <<>>] /\ committed = [a \in Attempt |-> <<>>]
    /\ had = [a \in Attempt |-> {}]
    /\ pc = "cut" /\ done = {} /\ turn = 1 /\ sets = 1
    /\ mined = NoText /\ rescued = {} /\ rows = <<>>
    /\ written = [d \in Attempt \X SetName |-> NoDoc]
    /\ closed = {} /\ kills = 0

\* theorem_name_of: the first Theorem or Lemma of the prefix, or "goal".
theorem_name_of(prefix) ==
  LET S == Statements(prefix, {"Theorem", "Lemma"})
  IN IF S = {} THEN "goal" ELSE prefix[SetMin(S)].name

\* The file becomes a task.
\* The replay has only the prefix to take the theorem from.
Cut ==
    /\ pc = "cut" /\ statement_prefix(file) # NoCut
    /\ \E rec \in Records(file) :
         theorem' = theorem_name_of(Prefix(file, build_task(file, rec).cut))
    /\ file' = <<>> /\ pc' = "attempts"
    /\ UNCHANGED <<attempts, main, sets, mined, rescued, rows, written, closed, kills>>

-----------------------------------------------------------------------------
(* The attempts: the session of the current one, and its log.              *)

Calls ==
  LET Upto[i \in 0..Len(Attempts)] == IF i = 0 THEN 0 ELSE Upto[i - 1] + Len(log[Attempts[i]])
  IN Upto[Len(Attempts)]

Calling == pc = "attempts" /\ turn <= Len(Attempts) /\ Calls < MaxCalls

\* A tool call leaves c committed and is logged with what its result shows of it;
\* a line that was cut when the server was killed is skipped by every reader.
ToolCall(c, shown) ==
    /\ committed' = [committed EXCEPT ![Current] = c]
    /\ had' = [had EXCEPT ![Current] = @ \cup {c}]
    /\ log' = [log EXCEPT ![Current] = Append(@, shown)]
    /\ UNCHANGED <<task, pc, main, sets, mined, rescued, rows, written, closed, kills>>

Step     == Calling /\ \E p \in Piece : ToolCall(Append(committed[Current], p), Hidden)
Rollback == /\ Calling /\ committed[Current] # <<>>
            /\ \E n \in 0..Len(committed[Current]) - 1 :
                 ToolCall(SubSeq(committed[Current], 1, n), Hidden)
State    == Calling /\ ToolCall(committed[Current], committed[Current])

\* The harness was killed before the attempt had its record and takes it up again:
\* a new session, whose server appends to the log that is there.
Again ==
    /\ Calling /\ committed[Current] # <<>>
    /\ committed' = [committed EXCEPT ![Current] = <<>>]
    /\ UNCHANGED <<task, log, had, pc, main, sets, mined, rescued, rows, written, closed, kills>>

\* The attempt ends without a proof.
Fails ==
    /\ pc = "attempts" /\ turn <= Len(Attempts)
    /\ turn' = turn + 1
    /\ UNCHANGED <<task, attempts, pc, done, sets, mined, rescued, rows, written, closed, kills>>

-----------------------------------------------------------------------------
(* The replay.                                                             *)

RowsOf(a) == {i \in DOMAIN rows : rows[i].attempt = a}

\* (The result file of earlier starts is not read.)
DoneNever == {}

Done == {a \in Attempt : RowsOf(a) # {}}

Start ==
    /\ \/ pc = "attempts" /\ turn > Len(Attempts)
       \/ pc = "down"
       \/ pc = "done"
    /\ pc' = "next" /\ turn' = 1 /\ done' = Done
    /\ UNCHANGED <<task, attempts, sets, mined, rescued, rows, written, closed, kills>>

Skip ==
    /\ pc = "next" /\ turn <= Len(Attempts) /\ Current \in done
    /\ turn' = turn + 1
    /\ UNCHANGED <<task, attempts, pc, done, sets, mined, rescued, rows, written, closed, kills>>

\* mine_committed_text: the last result that shows something committed.
mine_committed_text(l) ==
  LET I == {i \in DOMAIN l : l[i] \notin {Hidden, NoText}}
  IN IF I = {} THEN NoText ELSE l[SetMax(I)]

Load ==
    /\ pc = "next" /\ turn <= Len(Attempts) /\ Current \notin done
    /\ mined' = mine_committed_text(log[Current])
    /\ rescued' = {} /\ sets' = 1 /\ pc' = "session"
    /\ UNCHANGED <<task, attempts, main, rows, written, closed, kills>>

\* (All sets work in the directory of the attempt.)
SharedDir(a, s) == <<a, SetNames[1]>>

Dir(a, s) == <<a, s>>

\* A set is through: the next one, or the row.
Through ==
    /\ sets' = sets + 1
    /\ pc' = IF sets < Len(SetNames) THEN "session" ELSE "row"

\* What a server with set s may complete the proof of a text with: the text, or the
\* part of it there is time for, completes it (the Qed it lacked in the attempt may go
\* through now), or a finisher does behind that.
Completions(text, s) ==
  {SubSeq(text, 1, n) : n \in 1..Len(text)}
    \cup {Append(SubSeq(text, 1, n), Closer[s]) : n \in 0..Len(text)}

\* A fresh server executes the text and auto_close; if that completes the proof it
\* writes the candidate.  The server has 120 s; its directory may hold the candidate of
\* an earlier start.
RunSession ==
    /\ pc = "session"
    /\ \E closes, timeout \in BOOLEAN :
         /\ IF closes
              THEN /\ \E doc \in Completions(mined, Set) :
                        written' = [written EXCEPT ![Dir(Current, Set)] = doc]
                   /\ closed' = closed \cup {[attempt |-> Current, set |-> Set, text |-> mined]}
              ELSE UNCHANGED <<written, closed>>
         /\ IF timeout \/ written'[Dir(Current, Set)] = NoDoc
              THEN Through
              ELSE pc' = "judge" /\ UNCHANGED sets
    /\ UNCHANGED <<task, attempts, main, mined, rescued, rows, kills>>

Candidate == Render(Above \o written[Dir(Current, Set)])

\* The gate judges the candidate.
Judge ==
    /\ pc = "judge"
    /\ \E code, code2 \in {0, 1} : \E out2 \in Outputs :
         rescued' = IF check(Candidate, Render(Above), theorem, code, code2, out2) = "solved"
                      THEN rescued \cup {Set} ELSE rescued
    /\ Through
    /\ UNCHANGED <<task, attempts, main, mined, rows, written, closed, kills>>

\* The row is appended; main returns when it has written Limit of them.
WriteRow ==
    /\ pc = "row"
    /\ rows' = Append(rows, [attempt |-> Current, mined |-> mined, rescued |-> rescued])
    /\ pc' = IF Limit > 0 /\ Cardinality({i \in DOMAIN rows' : rows'[i].attempt \notin done}) >= Limit
               THEN "done" ELSE "next"
    /\ turn' = turn + 1
    /\ mined' = NoText /\ rescued' = {} /\ sets' = 1
    /\ UNCHANGED <<task, attempts, done, written, closed, kills>>

Return ==
    /\ pc = "next" /\ turn > Len(Attempts)
    /\ pc' = "done"
    /\ UNCHANGED <<task, attempts, main, sets, mined, rescued, rows, written, closed, kills>>

\* Killed, or a session or the gate could not be run.
Kill ==
    /\ pc \in {"next", "session", "judge", "row"} /\ kills < MaxKills
    /\ pc' = "down" /\ kills' = kills + 1
    /\ mined' = NoText /\ rescued' = {} /\ sets' = 1
    /\ UNCHANGED <<task, attempts, main, rows, written, closed>>

Next ==
    \/ Cut \/ Step \/ Rollback \/ State \/ Again \/ Fails
    \/ Start \/ Skip \/ Load \/ RunSession \/ Judge \/ WriteRow \/ Return \/ Kill

Spec == Init /\ [][Next]_vars
=============================================================================
