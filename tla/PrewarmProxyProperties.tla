---------------------- MODULE PrewarmProxyProperties ----------------------
(***************************************************************************)
(* The proxy's promise (mcp_prewarm_proxy.py:13): "Transparent: same       *)
(* tools, same behavior, only the startup race removed."                   *)
(***************************************************************************)
EXTENDS PrewarmProxy

Requests == {m \in {sent[i] : i \in DOMAIN sent} : m.kind # "initialized"}

\* No call of the client reaches the child before the child's handshake is
\* complete, and so none is refused for that reason, except when a minute was not
\* enough: "queued until the child is ready" ends there.
HandshakeFirst == (\E i \in DOMAIN replies : replies[i].refused) => late

Ids(s) == [i \in DOMAIN s |-> s[i].id]

Server == INSTANCE ToolServer WITH
    Id       <- 1..MaxLines,
    asked    <- {m.id : m \in Requests},
    answered <- Ids(replies)

\* Client and child cannot tell the proxy from a server: whoever answers, and
\* whenever the child dies, no request is answered twice or unasked, no call before
\* the child has run it, and the child runs the calls in the order they were sent,
\* without a gap.
ImplementsServer == Server!Spec

\* A request of a client that stays is answered, unless the child has died.
EveryRequestAnswered ==
    \A n \in 1..MaxLines :
      (\E m \in Requests : m.id = n) ~> (gone \/ child = "dead" \/ \E i \in DOMAIN replies : replies[i].id = n)
=============================================================================
