------------------------- MODULE TeamRunProperties -------------------------
(***************************************************************************)
(* What an attempt of the team runner promises.                            *)
(***************************************************************************)
EXTENDS TeamRun

\* The state has its type.
TypeOK ==
    /\ now \in Nat /\ due \in Nat /\ raised \in BOOLEAN
    /\ pc \in {"startup", "teardown"} \cup Rpc \cup Phase \cup Over
    /\ alive \in SUBSET Agent
    /\ daemon \in {"starting", "loading", "up", "dead"}
    /\ serving \in Agent \cup {Harness, Nobody}
    /\ pending \in SUBSET (Agent \cup {Harness})
    /\ answer \in [complete : BOOLEAN, free : Nat]
    /\ open \in Nat /\ owners \in SUBSET Agent /\ candidate \in BOOLEAN
    /\ record \in {"none", "solved", "rejected", "no_candidate", "harness_error"}

\* The agents of one phase never meet those of another, and when the attempt is
\* judged or given up neither an agent nor the daemon is left: whichever of its
\* waits failed, nothing goes on spending or writing behind the record's back.
NothingOutlivesItsPhase ==
    /\ alive \subseteq CASE pc = "coord"   -> {Coord}
                         [] pc = "workers" -> Worker
                         [] pc = "fin"     -> {Fin}
                         [] OTHER          -> {}
    /\ pc \in Over => daemon = "dead"

\* A record that says there was no proof, or that there was one, says so of the
\* candidate file as it is then and stays.
VerdictIsFinal ==
    /\ record = "no_candidate" => ~candidate
    /\ record \in {"solved", "rejected"} => candidate

\* No agent runs past the wall budget of the attempt, however long the daemon took
\* to start and to answer between the phases: team attempts are compared with solo
\* attempts of the same budget.  The coordinator of a daemon that took longer than
\* the whole budget has its five seconds.
WithinBudget ==
    \A a \in alive : now <= Total \/ (a = Coord /\ now <= StartLimit + RpcLimit + LeastWall)

\* The attempt comes to a record, whatever daemon and agents do.
AttemptEnds == <>(pc \in {"recorded", "errored"})
=============================================================================
