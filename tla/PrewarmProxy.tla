---------------------------- MODULE PrewarmProxy ----------------------------
(***************************************************************************)
(* The proxy in front of a slow MCP server (mcp_prewarm_proxy.py).  Its    *)
(* main thread reads the client's lines, answers the handshake and the     *)
(* listings from a cache and hands everything else to the child, once the  *)
(* child is ready or a minute has passed.  A second thread completes the   *)
(* child's own handshake and passes its lines on to the client.            *)
(*                                                                         *)
(* A message is its kind and the number of its request.  The pipes are     *)
(* taken to be as long as needed.                                          *)
(*                                                                         *)
(* A definition introduced by a remark in parentheses is a plausible       *)
(* mistake in the one that follows it; Spec uses none of them.             *)
(***************************************************************************)
EXTENDS Naturals, Sequences

CONSTANTS
    MaxLines,  \* bound: lines the client sends
    Mishap     \* "slow": the child may need more than a minute; "death": it may die

ASSUME PrewarmAssumption == MaxLines \in Nat /\ Mishap \subseteq {"slow", "death"}

VARIABLES
    stdin,     \* lines of the client that were not read yet
    gone,      \* the client has closed its end
    sent,      \* history: all requests of the client, in order
    calls,     \* history: the numbers of those that are calls
    main,      \* the main thread: "read", "wait" for the child, "exited"
    held,      \* the line it waits with
    ready,     \* the event child_ready
    pump,      \* the second thread: "read", "greeted", "over"
    toChild, fromChild,  \* the child's pipes
    child,     \* "new", "greeted", "ready", "dead"
    ran,       \* history: the calls the child has taken, in order
    replies,   \* the answers written to the client, in order
    late       \* history: a wait ran out

client == <<stdin, gone, sent, calls>>
thread == <<main, held>>
pipes  == <<toChild, fromChild>>
vars   == <<client, thread, ready, pump, pipes, child, ran, replies, late>>

Cached == {"initialize", "list"}
Line   == [kind : Cached \cup {"initialized", "call"}, id : 1..MaxLines]
Own    == {"hello", "ready"}   \* the proxy's own handshake: initialize, and initialized

NoLine == [kind |-> "none", id |-> 0]

Answer(id, refused) == [id |-> id, refused |-> refused]

\* The child is spawned and sent the proxy's own initialize.
Init ==
    /\ stdin = <<>> /\ gone = FALSE /\ sent = <<>> /\ calls = <<>>
    /\ main = "read" /\ held = NoLine /\ ready = FALSE /\ pump = "read"
    /\ toChild = <<[kind |-> "hello", id |-> 0]>> /\ fromChild = <<>>
    /\ child = "new" /\ ran = <<>>
    /\ replies = <<>> /\ late = FALSE

-----------------------------------------------------------------------------
(* The client: initialize first, everything else after its answer.         *)

Greeted == \E i \in DOMAIN replies : replies[i].id = 1

Send ==
    /\ ~gone /\ Len(sent) < MaxLines
    /\ \E m \in Line :
         /\ m.id = Len(sent) + 1
         /\ (m.kind = "initialize") = (sent = <<>>)
         /\ sent # <<>> => Greeted
         /\ stdin' = Append(stdin, m) /\ sent' = Append(sent, m)
         /\ calls' = IF m.kind = "call" THEN Append(calls, m.id) ELSE calls
    /\ UNCHANGED <<gone, thread, ready, pump, pipes, child, ran, replies, late>>

Close ==
    /\ ~gone /\ gone' = TRUE
    /\ UNCHANGED <<stdin, sent, calls, thread, ready, pump, pipes, child, ran, replies, late>>

-----------------------------------------------------------------------------
(* The main thread.                                                        *)

TakeLine(kinds) ==
    /\ main = "read" /\ stdin # <<>> /\ Head(stdin).kind \in kinds
    /\ stdin' = Tail(stdin)

\* (What the cache answers is passed on as well.)
AnswerAndForward ==
    /\ TakeLine(Cached)
    /\ replies' = Append(replies, Answer(Head(stdin).id, FALSE))
    /\ toChild' = Append(toChild, [Head(stdin) EXCEPT !.kind = "call"])
    /\ UNCHANGED <<gone, sent, calls, thread, ready, pump, fromChild, child, ran, late>>

\* initialize and the listings are answered from the cache.
AnswerFromCache ==
    /\ TakeLine(Cached)
    /\ replies' = Append(replies, Answer(Head(stdin).id, FALSE))
    /\ UNCHANGED <<gone, sent, calls, thread, ready, pump, pipes, child, ran, late>>

\* The proxy initializes the child itself.
Swallow ==
    /\ TakeLine({"initialized"})
    /\ UNCHANGED <<gone, sent, calls, thread, ready, pump, pipes, child, ran, replies, late>>

Hold ==
    /\ TakeLine({"call"})
    /\ main' = "wait" /\ held' = Head(stdin)
    /\ UNCHANGED <<gone, sent, calls, ready, pump, pipes, child, ran, replies, late>>

\* to_child: the pipe of a dead child is broken, which ends the proxy.
Pass(m) ==
    IF child = "dead" THEN main' = "exited" /\ UNCHANGED toChild
                      ELSE main' = "read" /\ toChild' = Append(toChild, m)

\* The child is ready, or the minute is over and the line is sent all the same.
Forward ==
    /\ main = "wait"
    /\ ready \/ "slow" \in Mishap
    /\ Pass(held) /\ held' = NoLine
    /\ late' = (late \/ ~ready)
    /\ UNCHANGED <<client, ready, pump, fromChild, child, ran, replies>>

\* End of the client's lines: the child is killed, whatever it still owes.
Exit ==
    /\ main = "read" /\ stdin = <<>> /\ gone
    /\ main' = "exited" /\ child' = "dead"
    /\ UNCHANGED <<client, held, ready, pump, pipes, ran, replies, late>>

Main == AnswerFromCache \/ Swallow \/ Hold \/ Forward \/ Exit

-----------------------------------------------------------------------------
(* The thread that reads from the child.  It ends with the proxy.          *)

FromChild(kinds) ==
    /\ main # "exited" /\ pump = "read" /\ fromChild # <<>>
    /\ Head(fromChild).kind \in kinds
    /\ fromChild' = Tail(fromChild)

\* (The child is not told.)
GreetInSilence ==
    /\ FromChild({"hello"})
    /\ pump' = "greeted"
    /\ UNCHANGED <<client, thread, ready, toChild, child, ran, replies, late>>

\* The child has answered the proxy's initialize: it is told that it is
\* initialized, which ends the thread if the child is gone by now ...
Greet ==
    /\ FromChild({"hello"})
    /\ IF child = "dead" THEN pump' = "over" /\ UNCHANGED toChild
       ELSE pump' = "greeted" /\ toChild' = Append(toChild, [kind |-> "ready", id |-> 0])
    /\ UNCHANGED <<client, thread, ready, child, ran, replies, late>>

\* ... and then the event is set.
SetReady ==
    /\ main # "exited" /\ pump = "greeted"
    /\ pump' = "read" /\ ready' = TRUE
    /\ UNCHANGED <<client, thread, pipes, child, ran, replies, late>>

\* (Only answers of the child that are no errors are passed on.)
RelayResults ==
    /\ FromChild({"answer"})
    /\ LET m == Head(fromChild) IN
       replies' = IF m.refused THEN replies ELSE Append(replies, Answer(m.id, FALSE))
    /\ UNCHANGED <<client, thread, ready, pump, toChild, child, ran, late>>

\* Everything else flows through.
Relay ==
    /\ FromChild({"answer"})
    /\ LET m == Head(fromChild) IN replies' = Append(replies, Answer(m.id, m.refused))
    /\ UNCHANGED <<client, thread, ready, pump, toChild, child, ran, late>>

Pump == Greet \/ SetReady \/ Relay

-----------------------------------------------------------------------------
(* The child: an MCP server that refuses what comes before its handshake.  *)

Child ==
    /\ child # "dead" /\ toChild # <<>>
    /\ toChild' = Tail(toChild)
    /\ LET m == Head(toChild) IN
       CASE m.kind = "hello" -> /\ child' = "greeted" /\ UNCHANGED ran
                                /\ fromChild' = Append(fromChild, m)
         [] m.kind = "ready" -> child' = "ready" /\ UNCHANGED <<fromChild, ran>>
         [] OTHER            -> /\ fromChild' = Append(fromChild,
                                     [kind |-> "answer", id |-> m.id, refused |-> child # "ready"])
                                /\ ran' = Append(ran, m.id) /\ UNCHANGED child
    /\ UNCHANGED <<client, thread, ready, pump, replies, late>>

ChildDies ==
    /\ "death" \in Mishap /\ child # "dead" /\ child' = "dead"
    /\ UNCHANGED <<client, thread, ready, pump, pipes, ran, replies, late>>

Next == Send \/ Close \/ Main \/ Pump \/ Child \/ ChildDies

Spec == Init /\ [][Next]_vars

\* The threads run and the child works off its input; the client owes nothing.
FairSpec == Spec /\ WF_vars(Main) /\ WF_vars(Pump) /\ WF_vars(Child)
=============================================================================
