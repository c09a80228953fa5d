----------------------------- MODULE ToolServer -----------------------------
(***************************************************************************)
(* What an MCP client sees of a tool server (the role mcp_prewarm_proxy.py *)
(* plays for the server it hides): every request is answered at most once, *)
(* and calls are executed one after the other in the order they were sent. *)
(***************************************************************************)
EXTENDS Naturals, Sequences

CONSTANT Id  \* the numbers of the requests

VARIABLES
    calls,    \* the calls the client has sent, in order
    ran,      \* those that have been executed, in order
    asked,    \* the requests the client has sent
    answered  \* those it was given an answer to, in the order of the answers

Init == calls = <<>> /\ ran = <<>> /\ asked = {} /\ answered = <<>>

Ask(id, isCall) ==
    /\ id \notin asked
    /\ asked' = asked \cup {id}
    /\ calls' = IF isCall THEN Append(calls, id) ELSE calls
    /\ UNCHANGED <<ran, answered>>

Execute ==
    /\ Len(ran) < Len(calls)
    /\ ran' = Append(ran, calls[Len(ran) + 1])
    /\ UNCHANGED <<calls, asked, answered>>

\* A call is answered when it has been executed.
Answer(id) ==
    /\ id \in asked /\ \A i \in DOMAIN answered : answered[i] # id
    /\ \A i \in DOMAIN calls \ DOMAIN ran : calls[i] # id
    /\ answered' = Append(answered, id)
    /\ UNCHANGED <<calls, ran, asked>>

Next == \/ Execute
        \/ \E id \in Id : Ask(id, TRUE) \/ Ask(id, FALSE) \/ Answer(id)

Spec == Init /\ [][Next]_<<calls, ran, asked, answered>>
=============================================================================
