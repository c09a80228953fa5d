------------------------- MODULE PrewarmProxyProofs -------------------------
(***************************************************************************)
(* Theorems about the proxy, for any number of lines and with a child that *)
(* is slow, dies, or both: no call overtakes the handshake unless a wait   *)
(* ran out, and proxy and child together are a tool server.                *)
(***************************************************************************)
EXTENDS PrewarmProxyProperties, TLAPS

Down == [kind : Own \cup Cached \cup {"initialized", "call"}, id : Nat]
Back == [kind : {"hello"}, id : Nat] \cup [kind : {"answer"}, id : Nat, refused : BOOLEAN]

Reply == [id : Nat, refused : BOOLEAN]

Typed ==
    /\ stdin \in Seq(Line)
    /\ main = "wait" => held \in Line
    /\ toChild \in Seq(Down) /\ fromChild \in Seq(Back)
    /\ child \in {"new", "greeted", "ready", "dead"}
    /\ replies \in Seq(Reply)

\* The child has been told that it is initialized, or will be told before position i
\* of its pipe.
Told(i) ==
    \/ child \in {"ready", "dead"}
    \/ \E j \in DOMAIN toChild : j < i /\ toChild[j].kind = "ready"

\* The child's own handshake comes first in its pipe and only once.
HelloOnce ==
    \A i \in DOMAIN toChild : toChild[i].kind = "hello" => i = 1 /\ child \in {"new", "dead"}

\* Whoever may forward a call knows that the child is told before it.
ReadyMeansTold == ready \/ pump = "greeted" => Told(Len(toChild) + 1)

NoneEarly ==
    ~late =>
      /\ \A i \in DOMAIN toChild : toChild[i].kind \notin Own => Told(i)
      /\ \A i \in DOMAIN fromChild : fromChild[i].kind = "answer" => ~fromChild[i].refused
      /\ \A i \in DOMAIN replies : ~replies[i].refused

IInv == Typed /\ HelloOnce /\ ReadyMeansTold /\ NoneEarly

(* Where the lines of the client are.                                      *)

\* How many lines the main thread has taken, and the calls it has passed on.
Taken == Len(sent) - Len(stdin)
Passed(n) == n <= Taken /\ (main = "wait" => n # Taken)

IsCall(n) == n \in DOMAIN sent /\ sent[n].kind = "call"

\* The number of a line is its place, and the lines are taken in order.
Numbered ==
    /\ sent \in Seq(Line) /\ \A i \in DOMAIN sent : sent[i].id = i
    /\ Len(stdin) <= Len(sent) /\ \A i \in DOMAIN stdin : stdin[i] = sent[Taken + i]
    /\ main = "wait" => Taken > 0 /\ held = sent[Taken] /\ held.kind = "call"

\* calls lists the calls, and the child has run the first of them.
CallsListed ==
    /\ calls \in Seq(Nat) /\ ran \in Seq(Nat)
    /\ \A k \in DOMAIN calls : IsCall(calls[k])
    /\ \A k, l \in DOMAIN calls : k < l => calls[k] < calls[l]
    /\ \A n \in DOMAIN sent : IsCall(n) => \E k \in DOMAIN calls : calls[k] = n
    /\ Len(ran) <= Len(calls) /\ \A k \in DOMAIN ran : ran[k] = calls[k]

\* What waits in the child's pipe are calls that were passed on, in their order, and
\* all of them come after those that were run.
InOrder ==
    /\ \A j \in DOMAIN toChild : toChild[j].kind \notin Own =>
         IsCall(toChild[j].id) /\ Passed(toChild[j].id)
    /\ \A i, j \in DOMAIN toChild :
         i < j /\ toChild[i].kind \notin Own /\ toChild[j].kind \notin Own =>
           toChild[i].id < toChild[j].id
    /\ \A k \in DOMAIN ran : Passed(ran[k])
    /\ \A k \in DOMAIN ran, j \in DOMAIN toChild :
         toChild[j].kind \notin Own => ran[k] < toChild[j].id

\* As long as the child lives, no call that was passed on is lost.
NoneLost ==
    child # "dead" =>
      \A k \in Len(ran) + 1..Len(calls) :
        Passed(calls[k]) =>
          \E j \in DOMAIN toChild : toChild[j].kind \notin Own /\ toChild[j].id = calls[k]

\* An answer is that of a line that was taken, if it is a call of one that was run,
\* and the only one.
AnsweredOnce ==
    /\ \A i \in DOMAIN replies :
         LET n == replies[i].id IN
         /\ n \in 1..Taken /\ sent[n].kind # "initialized"
         /\ sent[n].kind = "call" => \E k \in DOMAIN ran : ran[k] = n
    /\ \A j \in DOMAIN fromChild : fromChild[j].kind = "answer" =>
         /\ \E k \in DOMAIN ran : ran[k] = fromChild[j].id
         /\ \A i \in DOMAIN replies : replies[i].id # fromChild[j].id
         /\ \A i \in DOMAIN fromChild : i < j /\ fromChild[i].kind = "answer" =>
              fromChild[i].id # fromChild[j].id

LInv == IInv /\ Numbered /\ CallsListed /\ InOrder /\ NoneLost /\ AnsweredOnce

-----------------------------------------------------------------------------
LEMMA AppendFacts ==
  ASSUME NEW S, NEW s \in Seq(S), NEW e \in S
  PROVE  /\ Append(s, e) \in Seq(S)
         /\ DOMAIN s = 1..Len(s) /\ Len(s) \in Nat
         /\ DOMAIN Append(s, e) = 1..Len(s) + 1 /\ Len(Append(s, e)) = Len(s) + 1
         /\ \A i \in 1..Len(s) : Append(s, e)[i] = s[i]
         /\ Append(s, e)[Len(s) + 1] = e
  OBVIOUS

LEMMA TailFacts ==
  ASSUME NEW S, NEW s \in Seq(S), s # <<>>
  PROVE  /\ Tail(s) \in Seq(S)
         /\ DOMAIN s = 1..Len(s) /\ Len(s) \in Nat \ {0}
         /\ DOMAIN Tail(s) = 1..Len(s) - 1 /\ Len(Tail(s)) = Len(s) - 1
         /\ \A i \in 1..Len(s) - 1 : Tail(s)[i] = s[i + 1]
         /\ Head(s) = s[1] /\ Head(s) \in S
  OBVIOUS

\* A step that leaves the child and its pipe alone.
LEMMA ChildAlone ==
  ASSUME IInv, Typed', UNCHANGED <<child, toChild>>,
         ready' \/ pump' = "greeted" => ready \/ pump = "greeted",
         late => late',
         ~late' => /\ \A i \in DOMAIN fromChild' : fromChild'[i].kind = "answer" => ~fromChild'[i].refused
                   /\ \A i \in DOMAIN replies' : ~replies'[i].refused
  PROVE  IInv'
  BY DEF IInv, HelloOnce, ReadyMeansTold, NoneEarly, Told

\* A message is appended to the child's pipe that is not its handshake.
LEMMA PipeGrows ==
  ASSUME IInv, NEW m \in Down, toChild' = Append(toChild, m), UNCHANGED child, m.kind # "hello"
  PROVE  /\ HelloOnce'
         /\ \A i \in DOMAIN toChild \cup {Len(toChild) + 1} : Told(i) => Told(i)'
         /\ Told(Len(toChild) + 1) \/ m.kind = "ready" => ReadyMeansTold'
<1>1. toChild \in Seq(Down)
  BY DEF IInv, Typed
<1>2. /\ DOMAIN toChild = 1..Len(toChild) /\ Len(toChild) \in Nat
      /\ DOMAIN toChild' = 1..Len(toChild) + 1 /\ Len(toChild') = Len(toChild) + 1
      /\ \A i \in 1..Len(toChild) : toChild'[i] = toChild[i]
      /\ toChild'[Len(toChild) + 1] = m
  BY <1>1, AppendFacts
<1>3. HelloOnce'
  BY <1>2 DEF IInv, HelloOnce
<1>4. \A i \in DOMAIN toChild \cup {Len(toChild) + 1} : Told(i) => Told(i)'
  BY <1>2 DEF Told
<1>5. Told(Len(toChild) + 1) \/ m.kind = "ready" => ReadyMeansTold'
  BY <1>2 DEF ReadyMeansTold, Told
<1>. QED
  BY <1>3, <1>4, <1>5

\* The child takes the next message.
LEMMA ChildNext ==
  ASSUME IInv, Child
  PROVE  IInv'
<1>. DEFINE m == Head(toChild)
<1>1. toChild \in Seq(Down) /\ fromChild \in Seq(Back)
  BY DEF IInv, Typed
<1>2. /\ toChild' = Tail(toChild) /\ child # "dead"
      /\ UNCHANGED <<client, thread, ready, pump, replies, late>>
  BY DEF Child
<1>3. /\ toChild' \in Seq(Down)
      /\ DOMAIN toChild = 1..Len(toChild) /\ Len(toChild) \in Nat \ {0}
      /\ DOMAIN toChild' = 1..Len(toChild) - 1 /\ Len(toChild') = Len(toChild) - 1
      /\ \A i \in 1..Len(toChild) - 1 : toChild'[i] = toChild[i + 1]
      /\ m = toChild[1] /\ m \in Down
  BY <1>1, TailFacts DEF Child
<1>4. \A i \in DOMAIN toChild' : toChild'[i].kind # "hello"
  BY <1>3 DEF IInv, HelloOnce
<1>. HIDE DEF m
\* What was told before the message is told after it, unless it was the message.
<1>5. ASSUME NEW i \in 1..Len(toChild), m.kind # "ready", child' = child \/ m.kind = "hello",
             Told(i + 1)
      PROVE  Told(i)'
  <2>1. CASE child = "ready"
    BY <1>3, <1>5, <2>1 DEF IInv, HelloOnce, Told
  <2>2. CASE \E j \in DOMAIN toChild : j < i + 1 /\ toChild[j].kind = "ready"
    <3>1. PICK j \in DOMAIN toChild : j < i + 1 /\ toChild[j].kind = "ready"
      BY <2>2
    <3>2. j - 1 \in DOMAIN toChild' /\ j - 1 < i /\ toChild'[j - 1].kind = "ready"
      BY <1>3, <1>5, <3>1
    <3>. QED
      BY <3>2 DEF Told
  <2>. QED
    BY <1>2, <1>5, <2>1, <2>2 DEF Told
<1>6. CASE m.kind = "hello"
  <2>1. child' = "greeted" /\ fromChild' = Append(fromChild, m) /\ ran' = ran
    BY <1>6 DEF Child, m
  <2>2. m \in Back
    BY <1>3, <1>6 DEF Down, Back
  <2>3. /\ fromChild' \in Seq(Back)
        /\ \A i \in DOMAIN fromChild' : i \in DOMAIN fromChild \/ fromChild'[i] = m
        /\ \A i \in DOMAIN fromChild : fromChild'[i] = fromChild[i]
    BY <1>1, <2>1, <2>2, AppendFacts
  <2>4. Typed'
    BY <1>2, <1>3, <2>1, <2>3 DEF IInv, Typed, client, thread
  <2>5. ReadyMeansTold'
    BY <1>2, <1>3, <1>5, <1>6, <2>1 DEF IInv, ReadyMeansTold
  <2>6. NoneEarly'
    BY <1>2, <1>3, <1>5, <1>6, <2>1, <2>3 DEF IInv, NoneEarly
  <2>. QED
    BY <1>4, <2>4, <2>5, <2>6 DEF IInv, HelloOnce
<1>7. CASE m.kind = "ready"
  <2>1. child' = "ready" /\ UNCHANGED <<fromChild, ran>>
    BY <1>7 DEF Child, m
  <2>2. Typed'
    BY <1>2, <1>3, <2>1 DEF IInv, Typed, client, thread
  <2>. QED
    BY <1>2, <1>4, <2>1, <2>2 DEF IInv, HelloOnce, ReadyMeansTold, NoneEarly, Told
<1>8. CASE m.kind \notin {"hello", "ready"}
  <2>. DEFINE a == [kind |-> "answer", id |-> m.id, refused |-> child # "ready"]
  <2>1. child' = child /\ fromChild' = Append(fromChild, a)
    BY <1>8 DEF Child, m
  <2>2. a \in Back
    BY <1>3 DEF Down, Back
  <2>3. ~late => ~a.refused
    <3>1. 1 \in DOMAIN toChild /\ toChild[1].kind \notin Own
      BY <1>3, <1>8 DEF Own
    <3>2. ~late => Told(1)
      BY <3>1 DEF IInv, NoneEarly
    <3>3. Told(1) => child = "ready"
      BY <1>2, <1>3 DEF Told
    <3>. QED
      BY <3>2, <3>3
  <2>. HIDE DEF a
  <2>4. /\ fromChild' \in Seq(Back)
        /\ \A i \in DOMAIN fromChild' : i \in DOMAIN fromChild \/ fromChild'[i] = a
        /\ \A i \in DOMAIN fromChild : fromChild'[i] = fromChild[i]
    BY <1>1, <2>1, <2>2, AppendFacts
  <2>5. Typed'
    BY <1>2, <1>3, <2>1, <2>4 DEF IInv, Typed, client, thread
  <2>6. ReadyMeansTold'
    BY <1>2, <1>3, <1>5, <1>8, <2>1 DEF IInv, ReadyMeansTold
  <2>7. NoneEarly'
    BY <1>2, <1>3, <1>5, <1>8, <2>1, <2>3, <2>4 DEF IInv, NoneEarly
  <2>. QED
    BY <1>4, <2>5, <2>6, <2>7 DEF IInv, HelloOnce
<1>. QED
  BY <1>6, <1>7, <1>8

\* Every step keeps the invariant.
LEMMA IInvNext ==
  ASSUME IInv, [Next]_vars
  PROVE  IInv'
<1>1. stdin \in Seq(Line) /\ toChild \in Seq(Down) /\ fromChild \in Seq(Back)
  BY DEF IInv, Typed
<1>2. CASE Send
  <2>1. stdin' \in Seq(Line)
    BY <1>1, <1>2, AppendFacts DEF Send
  <2>2. Typed'
    BY <1>2, <2>1 DEF Send, IInv, Typed, thread, pipes
  <2>. QED
    BY <1>2, <2>2, ChildAlone DEF Send, pipes, IInv, NoneEarly
<1>3. CASE Close
  BY <1>3, ChildAlone DEF Close, thread, pipes, IInv, Typed, NoneEarly
<1>4. CASE AnswerFromCache \/ Swallow
  <2>1. stdin' \in Seq(Line)
    BY <1>1, <1>4, TailFacts DEF AnswerFromCache, Swallow, TakeLine
  <2>2. /\ replies' \in Seq(Reply)
        /\ \A i \in DOMAIN replies' :
             \/ i \in DOMAIN replies /\ replies'[i] = replies[i]
             \/ ~replies'[i].refused
    <3>. DEFINE a == Answer(Head(stdin).id, FALSE)
    <3>1. a \in Reply /\ ~a.refused
      <4>1. stdin # <<>>
        BY <1>4 DEF AnswerFromCache, Swallow, TakeLine
      <4>2. Head(stdin) \in Line
        BY <1>1, <4>1, TailFacts
      <4>3. Head(stdin).id \in Nat
        BY <4>2, PrewarmAssumption DEF Line
      <4>. QED
        BY <4>3 DEF Answer, Reply
    <3>2. replies' = Append(replies, a) \/ UNCHANGED replies
      BY <1>4 DEF AnswerFromCache, Swallow
    <3>. HIDE DEF a
    <3>3. replies \in Seq(Reply)
      BY DEF IInv, Typed
    <3>4. CASE replies' = Append(replies, a)
      BY <3>1, <3>3, <3>4, AppendFacts
    <3>. QED
      BY <3>2, <3>3, <3>4
  <2>3. Typed'
    BY <1>4, <2>1, <2>2 DEF AnswerFromCache, Swallow, IInv, Typed, thread, pipes
  <2>4. UNCHANGED <<thread, ready, pump, pipes, child, late>>
    BY <1>4 DEF AnswerFromCache, Swallow
  <2>. QED
    BY <2>2, <2>3, <2>4, ChildAlone DEF pipes, IInv, NoneEarly
<1>5. CASE Hold
  <2>1. stdin' \in Seq(Line) /\ held' \in Line
    BY <1>1, <1>5, TailFacts DEF Hold, TakeLine
  <2>2. Typed'
    BY <1>5, <2>1 DEF Hold, IInv, Typed, pipes
  <2>. QED
    BY <1>5, <2>2, ChildAlone DEF Hold, pipes, IInv, NoneEarly
<1>6. CASE Forward
  <2>1. /\ main' # "wait" /\ late' = (late \/ ~ready)
        /\ UNCHANGED <<client, ready, pump, fromChild, child, ran, replies>>
        /\ UNCHANGED toChild \/ toChild' = Append(toChild, held)
    BY <1>6 DEF Forward, Pass
  <2>2. held \in Down /\ held.kind \notin Own
    BY <1>6 DEF Forward, IInv, Typed, Line, Down, Own, Cached
  <2>3. CASE UNCHANGED toChild
    BY <2>1, <2>3, ChildAlone DEF IInv, Typed, NoneEarly, client
  <2>4. CASE toChild' = Append(toChild, held)
    <3>1. /\ toChild' \in Seq(Down)
          /\ \A i \in DOMAIN toChild' : i \in DOMAIN toChild \/ i = Len(toChild) + 1
          /\ \A i \in DOMAIN toChild : toChild'[i] = toChild[i]
      BY <1>1, <2>2, <2>4, AppendFacts
    <3>2. Typed'
      BY <2>1, <3>1 DEF IInv, Typed, client
    <3>3. HelloOnce' /\ \A i \in DOMAIN toChild \cup {Len(toChild) + 1} : Told(i) => Told(i)'
      BY <2>1, <2>2, <2>4, PipeGrows DEF Own
    <3>4. ready => Told(Len(toChild) + 1)
      BY DEF IInv, ReadyMeansTold
    <3>5. NoneEarly'
      BY <2>1, <3>1, <3>3, <3>4 DEF IInv, NoneEarly
    <3>6. ReadyMeansTold'
      <4>1. ready \/ pump = "greeted" => Told(Len(toChild) + 1)
        BY DEF IInv, ReadyMeansTold
      <4>2. Told(Len(toChild) + 1) => ReadyMeansTold'
        BY <2>1, <2>2, <2>4, PipeGrows DEF Own
      <4>. QED
        BY <2>1, <4>1, <4>2 DEF ReadyMeansTold
    <3>. QED
      BY <3>2, <3>3, <3>5, <3>6 DEF IInv
  <2>. QED
    BY <2>1, <2>3, <2>4
<1>7. CASE Exit \/ ChildDies
  <2>1. child' = "dead" /\ (main' = "exited" \/ UNCHANGED main)
    BY <1>7 DEF Exit, ChildDies, thread
  <2>2. UNCHANGED <<client, held, ready, pump, pipes, ran, replies, late>>
    BY <1>7 DEF Exit, ChildDies, thread
  <2>3. Typed'
    BY <2>1, <2>2 DEF IInv, Typed, client, pipes, thread
  <2>. QED
    BY <2>1, <2>2, <2>3 DEF IInv, HelloOnce, ReadyMeansTold, NoneEarly, Told, pipes
<1>8. CASE Greet
  <2>. DEFINE m == [kind |-> "ready", id |-> 0]
  <2>1. fromChild' = Tail(fromChild) /\ fromChild # <<>>
        /\ UNCHANGED <<client, thread, ready, child, ran, replies, late>>
    BY <1>8 DEF Greet, FromChild
  <2>2. /\ fromChild' \in Seq(Back)
        /\ \A i \in DOMAIN fromChild' : i + 1 \in DOMAIN fromChild /\ fromChild'[i] = fromChild[i + 1]
    BY <1>1, <2>1, TailFacts
  <2>3. CASE child = "dead"
    <3>1. pump' = "over" /\ UNCHANGED toChild
      BY <1>8, <2>3 DEF Greet
    <3>2. Typed'
      BY <2>1, <2>2, <3>1 DEF IInv, Typed, client, thread
    <3>. QED
      BY <2>1, <2>2, <3>1, <3>2, ChildAlone DEF IInv, NoneEarly
  <2>4. CASE child # "dead"
    <3>1. toChild' = Append(toChild, m) /\ m \in Down /\ m.kind = "ready"
      BY <1>8, <2>4 DEF Greet, Down, Own
    <3>. HIDE DEF m
    <3>2. /\ toChild' \in Seq(Down)
          /\ \A i \in DOMAIN toChild' : i \in DOMAIN toChild \/ toChild'[i] = m
          /\ \A i \in DOMAIN toChild : toChild'[i] = toChild[i]
      BY <1>1, <3>1, AppendFacts
    <3>3. Typed'
      BY <2>1, <2>2, <3>2 DEF IInv, Typed, client, thread
    <3>4. HelloOnce' /\ ReadyMeansTold'
          /\ \A i \in DOMAIN toChild \cup {Len(toChild) + 1} : Told(i) => Told(i)'
      BY <2>1, <3>1, PipeGrows
    <3>5. NoneEarly'
      BY <2>1, <2>2, <3>1, <3>2, <3>4 DEF IInv, NoneEarly, Own
    <3>. QED
      BY <3>3, <3>4, <3>5 DEF IInv
  <2>. QED
    BY <2>3, <2>4
<1>9. CASE SetReady
  BY <1>9, ChildAlone DEF SetReady, IInv, Typed, NoneEarly, client, thread, pipes
<1>10. CASE Relay
  <2>1. fromChild' = Tail(fromChild) /\ fromChild # <<>> /\ Head(fromChild).kind = "answer"
        /\ UNCHANGED <<client, thread, ready, pump, toChild, child, ran, late>>
    BY <1>10 DEF Relay, FromChild
  <2>2. /\ fromChild' \in Seq(Back)
        /\ \A i \in DOMAIN fromChild' : i + 1 \in DOMAIN fromChild /\ fromChild'[i] = fromChild[i + 1]
        /\ 1 \in DOMAIN fromChild /\ Head(fromChild) = fromChild[1]
    BY <1>1, <2>1, TailFacts
  <2>3. /\ replies' \in Seq(Reply)
        /\ \A i \in DOMAIN replies' :
             \/ i \in DOMAIN replies /\ replies'[i] = replies[i]
             \/ replies'[i].refused = Head(fromChild).refused
    <3>. DEFINE a == Answer(Head(fromChild).id, Head(fromChild).refused)
    <3>1. replies' = Append(replies, a) /\ a.refused = Head(fromChild).refused
      BY <1>10 DEF Relay, Answer
    <3>2. a \in Reply
      BY <1>1, <2>1, TailFacts DEF Answer, Reply, Back
    <3>. HIDE DEF a
    <3>. QED
      BY <3>1, <3>2, AppendFacts DEF IInv, Typed
  <2>4. Typed'
    BY <2>1, <2>2, <2>3 DEF IInv, Typed, client, thread
  <2>. QED
    BY <2>1, <2>2, <2>3, <2>4, ChildAlone DEF IInv, NoneEarly
<1>11. CASE Child
  BY <1>11, ChildNext
<1>12. CASE UNCHANGED vars
  BY <1>12, ChildAlone DEF vars, client, thread, pipes, IInv, Typed, NoneEarly
<1>. QED
  BY <1>2, <1>3, <1>4, <1>5, <1>6, <1>7, <1>8, <1>9, <1>10, <1>11, <1>12
     DEF Next, Main, Pump

-----------------------------------------------------------------------------
(* The proxy implements a server.                                          *)

\* The length of each sequence bounds its domain.
Sized ==
    /\ DOMAIN sent = 1..Len(sent) /\ Len(sent) \in Nat
    /\ DOMAIN stdin = 1..Len(stdin) /\ Len(stdin) \in Nat
    /\ DOMAIN calls = 1..Len(calls) /\ Len(calls) \in Nat
    /\ DOMAIN ran = 1..Len(ran) /\ Len(ran) \in Nat /\ Len(ran) <= Len(calls)
    /\ DOMAIN toChild = 1..Len(toChild) /\ Len(toChild) \in Nat
    /\ DOMAIN fromChild = 1..Len(fromChild) /\ Len(fromChild) \in Nat
    /\ DOMAIN replies = 1..Len(replies) /\ Len(replies) \in Nat
    /\ Taken \in Nat /\ Taken <= Len(sent)

LEMMA Sizes ==
  ASSUME LInv
  PROVE  Sized
<1>1. /\ sent \in Seq(Line) /\ stdin \in Seq(Line) /\ calls \in Seq(Nat) /\ ran \in Seq(Nat)
      /\ toChild \in Seq(Down) /\ fromChild \in Seq(Back) /\ replies \in Seq(Reply)
  BY DEF LInv, IInv, Typed, Numbered, CallsListed
<1>. QED
  BY <1>1 DEF LInv, Numbered, CallsListed, Taken, Sized

\* The client writes a line.
LEMMA SendLines ==
  ASSUME LInv, Send
  PROVE  LInv'
<1>0. IInv'
  BY IInvNext DEF LInv, Next
<1>. Sized
  BY Sizes
<1>. USE DEF Sized
<1>1. PICK m \in Line :
        /\ m.id = Len(sent) + 1 /\ Len(sent) < MaxLines
        /\ stdin' = Append(stdin, m) /\ sent' = Append(sent, m)
        /\ calls' = IF m.kind = "call" THEN Append(calls, m.id) ELSE calls
  BY DEF Send
<1>2. UNCHANGED <<gone, main, held, ready, pump, toChild, fromChild, child, ran, replies, late>>
  BY DEF Send, thread, pipes
<1>3. /\ sent \in Seq(Line) /\ stdin \in Seq(Line) /\ calls \in Seq(Nat)
      /\ ran \in Seq(Nat)
  BY DEF LInv, IInv, Typed, Numbered, CallsListed
<1>4. /\ sent' \in Seq(Line) /\ Len(sent') = Len(sent) + 1 /\ DOMAIN sent' = 1..Len(sent) + 1
      /\ \A i \in 1..Len(sent) : sent'[i] = sent[i]
      /\ sent'[Len(sent) + 1] = m
  BY <1>1, <1>3, AppendFacts
<1>5. /\ stdin' \in Seq(Line) /\ Len(stdin') = Len(stdin) + 1 /\ DOMAIN stdin' = 1..Len(stdin) + 1
      /\ \A i \in 1..Len(stdin) : stdin'[i] = stdin[i]
      /\ stdin'[Len(stdin) + 1] = m
  BY <1>1, <1>3, AppendFacts
<1>6. Taken' = Taken /\ \A n : Passed(n)' = Passed(n)
  BY <1>2, <1>4, <1>5 DEF Taken, Passed
<1>7. \A n \in 1..Len(sent) : IsCall(n)' = IsCall(n)
  BY <1>4 DEF IsCall
<1>8. Numbered'
  <2>1. \A i \in DOMAIN sent' : sent'[i].id = i
    BY <1>1, <1>4 DEF LInv, Numbered
  <2>2. \A i \in DOMAIN stdin' : stdin'[i] = sent'[Taken + i]
    <3>. TAKE i \in DOMAIN stdin'
    <3>1. CASE i = Len(stdin) + 1
      BY <1>4, <1>5, <3>1 DEF Taken
    <3>2. CASE i \in 1..Len(stdin)
      <4>1. Taken + i \in 1..Len(sent)
        BY <3>2 DEF Taken
      <4>. QED
        BY <1>4, <1>5, <3>2, <4>1 DEF LInv, Numbered
    <3>. QED
      BY <1>5, <3>1, <3>2
  <2>3. main' = "wait" => Taken > 0 /\ held' = sent'[Taken] /\ held'.kind = "call"
    BY <1>2, <1>4 DEF LInv, Numbered
  <2>. QED
    BY <1>4, <1>5, <1>6, <2>1, <2>2, <2>3 DEF LInv, Numbered
<1>9. /\ calls' \in Seq(Nat) /\ DOMAIN calls' = 1..Len(calls') /\ Len(calls') \in Nat
      /\ Len(calls') >= Len(calls)
      /\ \A k \in 1..Len(calls) : calls'[k] = calls[k]
      /\ \A k \in 1..Len(calls') :
           \/ k \in 1..Len(calls)
           \/ k = Len(calls) + 1 /\ calls'[k] = Len(sent) + 1 /\ m.kind = "call"
      /\ m.kind = "call" => Len(calls) + 1 \in DOMAIN calls' /\ calls'[Len(calls) + 1] = Len(sent) + 1
  <2>1. CASE m.kind = "call"
    <3>1. calls' = Append(calls, Len(sent) + 1) /\ Len(sent) + 1 \in Nat
      BY <1>1, <2>1
    <3>2. /\ calls' \in Seq(Nat) /\ DOMAIN calls' = 1..Len(calls) + 1 /\ Len(calls') = Len(calls) + 1
          /\ \A k \in 1..Len(calls) : calls'[k] = calls[k]
          /\ calls'[Len(calls) + 1] = Len(sent) + 1
      BY <1>3, <3>1, AppendFacts
    <3>. QED
      BY <2>1, <3>2
  <2>2. CASE m.kind # "call"
    BY <1>1, <1>3, <2>2
  <2>. QED
    BY <2>1, <2>2
<1>10. CallsListed'
  <2>1. \A k \in DOMAIN calls : calls[k] \in 1..Len(sent)
    BY DEF LInv, CallsListed, IsCall
  <2>2. \A k \in DOMAIN calls' : IsCall(calls[k])'
    <3>. SUFFICES ASSUME NEW k \in DOMAIN calls'
                  PROVE  calls'[k] \in DOMAIN sent' /\ sent'[calls'[k]].kind = "call"
      BY DEF IsCall
    <3>1. CASE k = Len(calls) + 1 /\ calls'[k] = Len(sent) + 1 /\ m.kind = "call"
      BY <1>4, <3>1
    <3>2. CASE k \in 1..Len(calls)
      <4>1. IsCall(calls[k]) /\ calls[k] \in 1..Len(sent) /\ calls'[k] = calls[k]
        BY <1>9, <2>1, <3>2 DEF LInv, CallsListed
      <4>. QED
        BY <1>4, <4>1 DEF IsCall
    <3>. QED
      BY <1>9, <3>1, <3>2
  <2>3. \A k, l \in DOMAIN calls' : k < l => calls'[k] < calls'[l]
    <3>. SUFFICES ASSUME NEW k \in DOMAIN calls', NEW l \in DOMAIN calls', k < l
                  PROVE  calls'[k] < calls'[l]
      OBVIOUS
    <3>1. k \in 1..Len(calls) /\ calls'[k] = calls[k]
      BY <1>9
    <3>2. CASE l \in 1..Len(calls)
      BY <1>9, <3>1, <3>2 DEF LInv, CallsListed
    <3>3. CASE l = Len(calls) + 1 /\ calls'[l] = Len(sent) + 1
      BY <2>1, <3>1, <3>3
    <3>. QED
      BY <1>9, <3>2, <3>3
  <2>4. \A n \in DOMAIN sent' : IsCall(n)' => \E k \in DOMAIN calls' : calls'[k] = n
    <3>. SUFFICES ASSUME NEW n \in DOMAIN sent', IsCall(n)'
                  PROVE  \E k \in DOMAIN calls' : calls'[k] = n
      OBVIOUS
    <3>1. CASE n = Len(sent) + 1
      BY <1>4, <1>9, <3>1 DEF IsCall
    <3>2. CASE n \in 1..Len(sent)
      <4>1. PICK k \in DOMAIN calls : calls[k] = n
        BY <1>7, <3>2 DEF LInv, CallsListed
      <4>. QED
        BY <1>9, <4>1
    <3>. QED
      BY <1>4, <3>1, <3>2
  <2>5. Len(ran) <= Len(calls') /\ \A k \in DOMAIN ran : ran[k] = calls'[k]
    BY <1>9 DEF LInv, CallsListed
  <2>. QED
    BY <1>2, <1>3, <1>9, <2>2, <2>3, <2>4, <2>5 DEF CallsListed
<1>11. InOrder'
  <2>1. \A j \in DOMAIN toChild : toChild[j].kind \notin Own => IsCall(toChild[j].id)'
    <3>. SUFFICES ASSUME NEW j \in DOMAIN toChild, toChild[j].kind \notin Own
                  PROVE  IsCall(toChild[j].id)'
      OBVIOUS
    <3>1. IsCall(toChild[j].id)
      BY DEF LInv, InOrder
    <3>. QED
      BY <1>2, <1>4, <3>1 DEF IsCall
  <2>. QED
    BY <1>2, <1>6, <2>1 DEF LInv, InOrder
<1>12. NoneLost'
  BY <1>2, <1>6, <1>9 DEF LInv, NoneLost, Passed
<1>13. AnsweredOnce'
  <2>1. \A n \in 1..Taken : sent'[n] = sent[n]
    BY <1>4
  <2>2. AnsweredOnce
    BY DEF LInv
  <2>. QED
    BY <1>2, <1>6, <2>1, <2>2 DEF AnsweredOnce
<1>. QED
  BY <1>0, <1>8, <1>10, <1>11, <1>12, <1>13 DEF LInv

\* The main thread takes a line.
LEMMA LineTaken ==
  ASSUME LInv, stdin # <<>>, stdin' = Tail(stdin), UNCHANGED sent
  PROVE  /\ Taken' = Taken + 1 /\ Taken + 1 \in DOMAIN sent
         /\ Head(stdin) = sent[Taken + 1] /\ Head(stdin).id = Taken + 1
         /\ Len(stdin') <= Len(sent')
         /\ \A i \in DOMAIN stdin' : stdin'[i] = sent'[Taken' + i]
<1>. Sized
  BY Sizes
<1>. USE DEF Sized
<1>1. stdin \in Seq(Line)
  BY DEF LInv, IInv, Typed
<1>2. /\ Len(stdin) # 0 /\ DOMAIN stdin' = 1..Len(stdin) - 1 /\ Len(stdin') = Len(stdin) - 1
      /\ \A i \in 1..Len(stdin) - 1 : stdin'[i] = stdin[i + 1]
      /\ Head(stdin) = stdin[1]
  BY <1>1, TailFacts
<1>3. Taken' = Taken + 1 /\ Taken + 1 \in DOMAIN sent
  BY <1>2 DEF Taken
<1>4. \A i \in 1..Len(stdin) : stdin[i] = sent[Taken + i]
  BY DEF LInv, Numbered
<1>5. \A i \in DOMAIN stdin' : stdin'[i] = sent'[Taken' + i]
  <2>. TAKE i \in DOMAIN stdin'
  <2>1. stdin'[i] = stdin[i + 1] /\ i + 1 \in 1..Len(stdin)
    BY <1>2
  <2>2. Taken + (i + 1) = Taken' + i
    BY <1>2, <1>3
  <2>. QED
    BY <1>4, <2>1, <2>2
<1>6. Head(stdin) = sent[Taken + 1]
  BY <1>2, <1>4
<1>7. Head(stdin).id = Taken + 1
  BY <1>3, <1>6 DEF LInv, Numbered
<1>. QED
  BY <1>2, <1>3, <1>5, <1>6, <1>7 DEF Taken

\* The line was no call: the proxy answers it or keeps it.
LEMMA NoCallTaken ==
  ASSUME LInv, AnswerFromCache \/ Swallow
  PROVE  LInv'
<1>0. IInv'
  BY IInvNext DEF LInv, Next, Main
<1>. Sized
  BY Sizes
<1>. USE DEF Sized
<1>1. /\ main = "read" /\ stdin # <<>> /\ stdin' = Tail(stdin) /\ Head(stdin).kind # "call"
      /\ UNCHANGED <<sent, calls, main, held, pipes, child, ran>>
  BY DEF AnswerFromCache, Swallow, TakeLine, Cached, thread
<1>2. /\ Taken' = Taken + 1 /\ Taken + 1 \in DOMAIN sent
      /\ Head(stdin) = sent[Taken + 1] /\ Head(stdin).id = Taken + 1
      /\ Len(stdin') <= Len(sent')
      /\ \A i \in DOMAIN stdin' : stdin'[i] = sent'[Taken' + i]
  BY <1>1, LineTaken
<1>3. \A n \in DOMAIN sent : Passed(n) => Passed(n)'
  BY <1>1, <1>2 DEF Passed
<1>4. \A n : IsCall(n)' = IsCall(n)
  BY <1>1 DEF IsCall
<1>5. \A n : IsCall(n) /\ Passed(n)' => Passed(n)
  BY <1>1, <1>2 DEF Passed, IsCall
<1>6. Numbered'
  BY <1>1, <1>2 DEF LInv, Numbered
<1>7. CallsListed'
  BY <1>1, <1>4 DEF LInv, CallsListed
<1>8. \A k \in DOMAIN calls : IsCall(calls[k]) /\ calls[k] \in DOMAIN sent
  BY DEF LInv, CallsListed, IsCall
<1>9. \A k \in DOMAIN ran : ran[k] = calls[k] /\ ran[k] \in DOMAIN sent /\ Passed(ran[k])
  BY <1>8 DEF LInv, CallsListed, InOrder
<1>10. InOrder'
  <2>1. \A k \in DOMAIN ran : Passed(ran[k])'
    BY <1>1, <1>3, <1>9
  <2>2. \A j \in DOMAIN toChild : toChild[j].kind \notin Own =>
          IsCall(toChild[j].id) /\ Passed(toChild[j].id)'
    BY <1>1, <1>3 DEF LInv, InOrder, IsCall, pipes
  <2>3. InOrder
    BY DEF LInv
  <2>. QED
    BY <1>1, <1>4, <2>1, <2>2, <2>3 DEF InOrder, pipes
<1>11. NoneLost'
  BY <1>1, <1>5, <1>8 DEF LInv, NoneLost, pipes
<1>12. AnsweredOnce'
  <2>1. \A j \in DOMAIN fromChild : fromChild[j].kind = "answer" => fromChild[j].id < Taken + 1
    BY <1>1, <1>9 DEF LInv, AnsweredOnce, Passed
  <2>2. AnsweredOnce
    BY DEF LInv
  <2>3. CASE Swallow
    <3>1. UNCHANGED replies
      BY <2>3 DEF Swallow
    <3>. QED
      BY <1>1, <1>2, <2>2, <3>1 DEF AnsweredOnce, pipes
  <2>4. CASE AnswerFromCache
    <3>. DEFINE a == Answer(Head(stdin).id, FALSE)
    <3>1. /\ replies' = Append(replies, a) /\ a.id = Taken + 1 /\ a \in Reply
          /\ sent[a.id].kind \notin {"call", "initialized"}
      BY <1>2, <2>4 DEF AnswerFromCache, TakeLine, Answer, Reply, Cached
    <3>. HIDE DEF a
    <3>2. replies \in Seq(Reply)
      BY DEF LInv, IInv, Typed
    <3>3. \A i \in DOMAIN replies' : \/ i \in DOMAIN replies /\ replies'[i] = replies[i]
                                     \/ replies'[i] = a
      BY <3>1, <3>2, AppendFacts
    <3>4. \A i \in DOMAIN replies' :
            LET n == replies'[i].id IN
            /\ n \in 1..Taken' /\ sent[n].kind # "initialized"
            /\ sent[n].kind = "call" => \E k \in DOMAIN ran : ran[k] = n
      BY <1>2, <2>2, <3>1, <3>3 DEF AnsweredOnce
    <3>5. \A j \in DOMAIN fromChild : fromChild[j].kind = "answer" =>
            \A i \in DOMAIN replies' : replies'[i].id # fromChild[j].id
      BY <2>1, <2>2, <3>1, <3>3 DEF AnsweredOnce
    <3>. QED
      BY <1>1, <2>2, <3>4, <3>5 DEF AnsweredOnce, pipes
  <2>. QED
    BY <2>3, <2>4
<1>. QED
  BY <1>0, <1>6, <1>7, <1>10, <1>11, <1>12 DEF LInv

\* The line was a call.
LEMMA CallTaken ==
  ASSUME LInv, Hold
  PROVE  LInv'
<1>0. IInv'
  BY IInvNext DEF LInv, Next, Main
<1>. Sized
  BY Sizes
<1>. USE DEF Sized
<1>1. /\ main = "read" /\ stdin # <<>> /\ stdin' = Tail(stdin) /\ Head(stdin).kind = "call"
      /\ main' = "wait" /\ held' = Head(stdin)
      /\ UNCHANGED <<sent, calls, toChild, fromChild, child, ran, replies>>
  BY DEF Hold, TakeLine, pipes
<1>2. /\ Taken' = Taken + 1 /\ Taken + 1 \in DOMAIN sent
      /\ Head(stdin) = sent[Taken + 1]
      /\ Len(stdin') <= Len(sent')
      /\ \A i \in DOMAIN stdin' : stdin'[i] = sent'[Taken' + i]
  BY <1>1, LineTaken
<1>3. \A n \in DOMAIN sent : Passed(n)' = Passed(n)
  BY <1>1, <1>2 DEF Passed
<1>4. \A n : IsCall(n)' = IsCall(n)
  BY <1>1 DEF IsCall
<1>5. Numbered'
  BY <1>1, <1>2 DEF LInv, Numbered
<1>6. CallsListed'
  BY <1>1, <1>4 DEF LInv, CallsListed
<1>7. \A k \in DOMAIN calls : calls[k] \in DOMAIN sent
  BY DEF LInv, CallsListed, IsCall
<1>8. \A k \in DOMAIN ran : ran[k] \in DOMAIN sent
  BY <1>7 DEF LInv, CallsListed
<1>9. InOrder'
  <2>1. \A j \in DOMAIN toChild : toChild[j].kind \notin Own => toChild[j].id \in DOMAIN sent
    BY DEF LInv, InOrder, IsCall
  <2>. QED
    BY <1>1, <1>3, <1>4, <1>8, <2>1 DEF LInv, InOrder
<1>10. NoneLost'
  BY <1>1, <1>3, <1>7 DEF LInv, NoneLost
<1>11. AnsweredOnce'
  <2>1. AnsweredOnce
    BY DEF LInv
  <2>. QED
    BY <1>1, <1>2, <2>1 DEF AnsweredOnce
<1>. QED
  BY <1>0, <1>5, <1>6, <1>9, <1>10, <1>11 DEF LInv

\* The call is passed on, or the proxy ends because it cannot be.
LEMMA CallPassed ==
  ASSUME LInv, Forward
  PROVE  LInv'
<1>0. IInv'
  BY IInvNext DEF LInv, Next, Main
<1>. Sized
  BY Sizes
<1>. USE DEF Sized
<1>1. /\ main = "wait" /\ main' # "wait"
      /\ UNCHANGED <<stdin, sent, calls, fromChild, child, ran, replies>>
      /\ IF child = "dead" THEN UNCHANGED toChild ELSE toChild' = Append(toChild, held)
  BY DEF Forward, Pass, client
<1>2. /\ Taken > 0 /\ Taken \in DOMAIN sent /\ held = sent[Taken]
      /\ held.id = Taken /\ IsCall(Taken) /\ held.kind \notin Own
  BY <1>1 DEF LInv, Numbered, IsCall, Own
<1>3. Taken' = Taken /\ \A n : Passed(n) => Passed(n)'
  BY <1>1 DEF Passed, Taken
<1>4. Passed(Taken)' /\ \A n \in DOMAIN sent : Passed(n)' => Passed(n) \/ n = Taken
  BY <1>1, <1>2, <1>3 DEF Passed
<1>5. \A n : IsCall(n)' = IsCall(n)
  BY <1>1 DEF IsCall
<1>6. Numbered'
  BY <1>1, <1>3 DEF LInv, Numbered
<1>7. CallsListed'
  BY <1>1, <1>5 DEF LInv, CallsListed
<1>8. AnsweredOnce'
  BY <1>1, <1>3 DEF LInv, AnsweredOnce
<1>9. InOrder /\ NoneLost
  BY DEF LInv
<1>10. CASE child = "dead"
  <2>1. InOrder'
    BY <1>1, <1>3, <1>5, <1>9, <1>10 DEF InOrder
  <2>. QED
    BY <1>0, <1>1, <1>6, <1>7, <1>8, <1>10, <2>1 DEF LInv, NoneLost
<1>11. CASE child # "dead"
  <2>1. toChild \in Seq(Down) /\ held \in Down
    BY <1>1 DEF LInv, IInv, Typed, Line, Down
  <2>2. /\ DOMAIN toChild' = 1..Len(toChild) + 1
        /\ \A j \in 1..Len(toChild) : toChild'[j] = toChild[j]
        /\ toChild'[Len(toChild) + 1] = held
    BY <1>1, <1>11, <2>1, AppendFacts, SMTT(30)
  <2>3. \A j \in DOMAIN toChild : toChild[j].kind \notin Own =>
          IsCall(toChild[j].id) /\ toChild[j].id \in DOMAIN sent /\ toChild[j].id < Taken
    BY <1>1, <1>2, <1>9 DEF InOrder, IsCall, Passed
  <2>4. \A k \in DOMAIN ran : ran[k] < Taken
    <3>1. \A k \in DOMAIN ran : ran[k] \in DOMAIN sent
      BY DEF LInv, CallsListed, IsCall
    <3>. QED
      BY <1>1, <1>9, <3>1 DEF InOrder, Passed
  <2>5. InOrder'
    <3>1. \A j \in DOMAIN toChild' : toChild'[j].kind \notin Own =>
            IsCall(toChild[j].id)' /\ Passed(toChild[j].id)'
      BY <1>2, <1>3, <1>4, <1>5, <1>9, <2>2 DEF InOrder
    <3>2. \A i, j \in DOMAIN toChild' :
            i < j /\ toChild'[i].kind \notin Own /\ toChild'[j].kind \notin Own =>
              toChild'[i].id < toChild'[j].id
      BY <1>2, <1>9, <2>2, <2>3, SMTT(30) DEF InOrder
    <3>3. \A k \in DOMAIN ran, j \in DOMAIN toChild' :
            toChild'[j].kind \notin Own => ran[k] < toChild'[j].id
      BY <1>2, <1>9, <2>2, <2>4, SMTT(30) DEF InOrder
    <3>. QED
      BY <1>1, <1>3, <1>9, <3>1, <3>2, <3>3 DEF InOrder
  <2>6. NoneLost'
    <3>. SUFFICES ASSUME NEW k \in Len(ran) + 1..Len(calls), Passed(calls[k])'
                  PROVE  \E j \in DOMAIN toChild' :
                           toChild'[j].kind \notin Own /\ toChild'[j].id = calls[k]
      BY <1>1 DEF NoneLost
    <3>1. CASE calls[k] = Taken
      BY <1>2, <2>2, <3>1, SMTT(30)
    <3>2. CASE Passed(calls[k])
      <4>1. PICK j \in DOMAIN toChild : toChild[j].kind \notin Own /\ toChild[j].id = calls[k]
        BY <1>9, <1>11, <3>2 DEF NoneLost
      <4>. QED
        BY <2>2, <4>1
    <3>3. calls[k] \in DOMAIN sent
      <4>1. k \in DOMAIN calls
        OBVIOUS
      <4>. QED
        BY <4>1 DEF LInv, CallsListed, IsCall
    <3>. QED
      BY <1>1, <1>4, <3>1, <3>2, <3>3
  <2>. QED
    BY <1>0, <1>6, <1>7, <1>8, <2>5, <2>6 DEF LInv
<1>. QED
  BY <1>10, <1>11

\* The end of the proxy or of the child, or the event: no line moves.
LEMMA NoLineMoves ==
  ASSUME LInv, IInv',
         UNCHANGED <<stdin, sent, calls, held, toChild, fromChild, ran, replies>>,
         (main' = "wait") = (main = "wait"),
         child' = "dead" \/ UNCHANGED child
  PROVE  LInv'
<1>1. Taken' = Taken /\ \A n : Passed(n)' = Passed(n) /\ IsCall(n)' = IsCall(n)
  BY DEF Taken, Passed, IsCall
<1>2. Numbered' /\ CallsListed'
  BY <1>1 DEF LInv, Numbered, CallsListed
<1>3. InOrder' /\ NoneLost'
  BY <1>1 DEF LInv, InOrder, NoneLost
<1>4. AnsweredOnce'
  BY <1>1 DEF LInv, AnsweredOnce
<1>. QED
  BY <1>2, <1>3, <1>4 DEF LInv

\* The child's answer to the proxy's own initialize is taken.
LEMMA GreetingTaken ==
  ASSUME LInv, Greet
  PROVE  LInv'
<1>0. IInv'
  BY IInvNext DEF LInv, Next, Pump
<1>. Sized
  BY Sizes
<1>. USE DEF Sized
<1>. DEFINE m == [kind |-> "ready", id |-> 0]
<1>1. /\ fromChild # <<>> /\ fromChild' = Tail(fromChild)
      /\ toChild' = Append(toChild, m) \/ UNCHANGED toChild
      /\ UNCHANGED <<stdin, sent, calls, main, held, child, ran, replies>>
  BY DEF Greet, FromChild, client, thread
<1>2. fromChild \in Seq(Back) /\ toChild \in Seq(Down)
  BY DEF LInv, IInv, Typed
<1>3. \A i \in DOMAIN fromChild' : i + 1 \in DOMAIN fromChild /\ fromChild'[i] = fromChild[i + 1]
                                   /\ i \in Nat
  BY <1>1, <1>2, TailFacts
<1>4. /\ \A j \in DOMAIN toChild' : toChild'[j].kind \in Own
                                    \/ (j \in DOMAIN toChild /\ toChild'[j] = toChild[j])
      /\ \A j \in DOMAIN toChild : j \in DOMAIN toChild' /\ toChild'[j] = toChild[j]
  <2>1. m \in Down /\ m.kind \in Own
    BY DEF Down, Own
  <2>. HIDE DEF m
  <2>2. CASE toChild' = Append(toChild, m)
    BY <1>2, <2>1, <2>2, AppendFacts
  <2>. QED
    BY <1>1, <2>2
<1>5. Taken' = Taken /\ \A n : Passed(n)' = Passed(n) /\ IsCall(n)' = IsCall(n)
  BY <1>1 DEF Taken, Passed, IsCall
<1>6. Numbered' /\ CallsListed'
  BY <1>1, <1>5 DEF LInv, Numbered, CallsListed
<1>7. InOrder'
  BY <1>1, <1>4, <1>5 DEF LInv, InOrder
<1>8. NoneLost'
  BY <1>1, <1>4, <1>5 DEF LInv, NoneLost
<1>9. AnsweredOnce'
  <2>1. AnsweredOnce
    BY DEF LInv
  <2>. QED
    BY <1>1, <1>3, <1>5, <2>1, SMTT(30) DEF AnsweredOnce
<1>. QED
  BY <1>0, <1>6, <1>7, <1>8, <1>9 DEF LInv

\* What an answer of the child is about: a line that was taken, and a call that was run.
LEMMA AnswerTaken ==
  ASSUME LInv, Relay
  PROVE  /\ Head(fromChild) = fromChild[1] /\ 1 \in DOMAIN fromChild
         /\ fromChild[1].kind = "answer" /\ fromChild[1].id \in 1..Taken
         /\ IsCall(fromChild[1].id) /\ \E k \in DOMAIN ran : ran[k] = fromChild[1].id
         /\ \A i \in DOMAIN fromChild' : i + 1 \in DOMAIN fromChild /\ i \in Nat \ {0}
                                         /\ fromChild'[i] = fromChild[i + 1]
<1>. Sized
  BY Sizes
<1>. USE DEF Sized
<1>1. fromChild # <<>> /\ fromChild' = Tail(fromChild) /\ Head(fromChild).kind = "answer"
  BY DEF Relay, FromChild
<1>2. fromChild \in Seq(Back)
  BY DEF LInv, IInv, Typed
<1>3. /\ \A i \in DOMAIN fromChild' : i + 1 \in DOMAIN fromChild /\ fromChild'[i] = fromChild[i + 1]
                                      /\ i \in Nat \ {0}
      /\ Head(fromChild) = fromChild[1] /\ 1 \in DOMAIN fromChild
  BY <1>1, <1>2, TailFacts
<1>4. PICK k \in DOMAIN ran : ran[k] = fromChild[1].id
  BY <1>1, <1>3 DEF LInv, AnsweredOnce
<1>5. ran[k] = calls[k] /\ k \in DOMAIN calls /\ Passed(ran[k])
  BY DEF LInv, CallsListed, InOrder
<1>6. IsCall(ran[k]) /\ ran[k] \in 1..Taken
  BY <1>5 DEF LInv, CallsListed, IsCall, Passed
<1>. QED
  BY <1>1, <1>3, <1>4, <1>6

\* The child's answer is written to the client.
LEMMA AnswerRelayed ==
  ASSUME LInv, Relay
  PROVE  LInv'
<1>0. IInv'
  BY IInvNext DEF LInv, Next, Pump
<1>. Sized
  BY Sizes
<1>. USE DEF Sized
<1>. DEFINE n == fromChild[1].id
            a == Answer(n, fromChild[1].refused)
<1>1. /\ Head(fromChild) = fromChild[1] /\ 1 \in DOMAIN fromChild
      /\ fromChild[1].kind = "answer" /\ n \in 1..Taken
      /\ IsCall(n) /\ \E k \in DOMAIN ran : ran[k] = n
      /\ \A i \in DOMAIN fromChild' : i + 1 \in DOMAIN fromChild /\ i \in Nat \ {0}
                                      /\ fromChild'[i] = fromChild[i + 1]
  BY AnswerTaken
<1>2. /\ UNCHANGED <<stdin, sent, calls, main, held, toChild, child, ran>>
      /\ replies' = Append(replies, a) /\ a.id = n
  BY <1>1 DEF Relay, client, thread, Answer
<1>3. replies \in Seq(Reply) /\ fromChild \in Seq(Back)
  BY DEF LInv, IInv, Typed
<1>4. a \in Reply
  BY <1>1, <1>3 DEF Back, Answer, Reply
<1>. HIDE DEF a
<1>5. \A i \in DOMAIN replies' : \/ i \in DOMAIN replies /\ replies'[i] = replies[i]
                                 \/ replies'[i].id = n
  BY <1>2, <1>3, <1>4, AppendFacts
<1>. HIDE DEF n
<1>6. Taken' = Taken /\ \A l : Passed(l)' = Passed(l) /\ IsCall(l)' = IsCall(l)
  BY <1>2 DEF Taken, Passed, IsCall
<1>7. Numbered' /\ CallsListed'
  BY <1>2, <1>6 DEF LInv, Numbered, CallsListed
<1>8. InOrder' /\ NoneLost'
  BY <1>2, <1>6 DEF LInv, InOrder, NoneLost
<1>9. AnsweredOnce'
  <2>1. AnsweredOnce
    BY DEF LInv
  <2>2. \A i \in DOMAIN replies' :
          LET l == replies'[i].id IN
          /\ l \in 1..Taken /\ sent[l].kind # "initialized"
          /\ sent[l].kind = "call" => \E k \in DOMAIN ran : ran[k] = l
    BY <1>1, <1>5, <2>1 DEF AnsweredOnce, IsCall
  <2>3. ASSUME NEW j \in DOMAIN fromChild', fromChild'[j].kind = "answer"
        PROVE  /\ \E k \in DOMAIN ran : ran[k] = fromChild'[j].id
               /\ \A i \in DOMAIN replies' : replies'[i].id # fromChild'[j].id
               /\ \A i \in DOMAIN fromChild' : i < j /\ fromChild'[i].kind = "answer" =>
                    fromChild'[i].id # fromChild'[j].id
    <3>1. /\ j + 1 \in DOMAIN fromChild /\ 1 < j + 1 /\ j \in Nat
          /\ fromChild'[j] = fromChild[j + 1]
      BY <1>1
    <3>2. n # fromChild[j + 1].id
      BY <1>1, <2>1, <2>3, <3>1 DEF AnsweredOnce, n
    <3>3. \A i \in DOMAIN fromChild' : i < j /\ fromChild'[i].kind = "answer" =>
            fromChild'[i].id # fromChild'[j].id
      BY <1>1, <2>1, <2>3, <3>1, SMTT(30) DEF AnsweredOnce
    <3>. QED
      BY <1>5, <2>1, <2>3, <3>1, <3>2, <3>3 DEF AnsweredOnce
  <2>. QED
    BY <1>2, <1>6, <2>2, <2>3 DEF AnsweredOnce
<1>. QED
  BY <1>0, <1>7, <1>8, <1>9 DEF LInv

\* What the child runs next is the first call that was not run.
LEMMA NextCall ==
  ASSUME LInv, child # "dead", toChild # <<>>, Head(toChild).kind \notin Own
  PROVE  Len(ran) < Len(calls) /\ Head(toChild).id = calls[Len(ran) + 1]
<1>. Sized
  BY Sizes
<1>. USE DEF Sized
<1>. DEFINE n == toChild[1].id
<1>1. toChild \in Seq(Down)
  BY DEF LInv, IInv, Typed
<1>2. 1 \in DOMAIN toChild /\ Head(toChild) = toChild[1]
  BY <1>1, TailFacts
<1>3. IsCall(n) /\ Passed(n) /\ n \in DOMAIN sent
  BY <1>2 DEF LInv, InOrder, IsCall
<1>4. \A j \in DOMAIN toChild : toChild[j].kind \notin Own => toChild[j].id \in Nat /\ n <= toChild[j].id
  BY <1>2, <1>3, SMTT(30) DEF LInv, InOrder, IsCall
<1>5. \A k \in DOMAIN ran : ran[k] # n
  BY <1>2, <1>3 DEF LInv, InOrder
<1>. HIDE DEF n
<1>6. PICK k \in DOMAIN calls : calls[k] = n
  BY <1>3 DEF LInv, CallsListed
<1>7. k \notin DOMAIN ran
  BY <1>5, <1>6 DEF LInv, CallsListed
<1>8. Len(ran) + 1 \in DOMAIN calls /\ Len(ran) + 1 <= k
  BY <1>7
<1>9. \A l \in DOMAIN calls : l < k => calls[l] < n
  BY <1>6 DEF LInv, CallsListed
<1>10. ASSUME Len(ran) + 1 # k
       PROVE  FALSE
  <2>1. calls[Len(ran) + 1] < n /\ calls[Len(ran) + 1] \in DOMAIN sent
    BY <1>8, <1>9, <1>10 DEF LInv, CallsListed, IsCall
  <2>2. Passed(calls[Len(ran) + 1])
    BY <1>3, <2>1 DEF Passed
  <2>3. Len(ran) + 1 \in Len(ran) + 1..Len(calls)
    BY <1>8
  <2>4. PICK j \in DOMAIN toChild :
          toChild[j].kind \notin Own /\ toChild[j].id = calls[Len(ran) + 1]
    BY <2>2, <2>3 DEF LInv, NoneLost
  <2>. QED
    BY <1>3, <1>4, <2>1, <2>4
<1>. QED
  BY <1>2, <1>6, <1>8, <1>10 DEF n

\* The child takes the next message.
LEMMA ChildLines ==
  ASSUME LInv, Child
  PROVE  LInv'
<1>0. IInv'
  BY IInvNext DEF LInv, Next
<1>. Sized
  BY Sizes
<1>. USE DEF Sized
<1>. DEFINE m == Head(toChild)
<1>1. /\ child # "dead" /\ toChild # <<>> /\ toChild' = Tail(toChild)
      /\ UNCHANGED <<stdin, sent, calls, main, held, replies>>
  BY DEF Child, client, thread
<1>2. toChild \in Seq(Down) /\ fromChild \in Seq(Back) /\ ran \in Seq(Nat)
  BY DEF LInv, IInv, Typed, CallsListed
<1>3. /\ DOMAIN toChild' = 1..Len(toChild) - 1 /\ 1 \in DOMAIN toChild
      /\ \A j \in 1..Len(toChild) - 1 : toChild'[j] = toChild[j + 1] /\ j + 1 \in DOMAIN toChild
      /\ m = toChild[1] /\ m \in Down
  BY <1>1, <1>2, TailFacts
<1>. HIDE DEF m
<1>4. Taken' = Taken /\ \A n : Passed(n)' = Passed(n) /\ IsCall(n)' = IsCall(n)
  BY <1>1 DEF Taken, Passed, IsCall
<1>5. Numbered'
  BY <1>1, <1>4 DEF LInv, Numbered
<1>6. InOrder /\ NoneLost /\ AnsweredOnce /\ CallsListed
  BY DEF LInv
\* What is left in the pipe is in order.
<1>7. /\ \A j \in DOMAIN toChild' : toChild'[j].kind \notin Own =>
           IsCall(toChild'[j].id) /\ Passed(toChild'[j].id)
      /\ \A i, j \in DOMAIN toChild' :
           i < j /\ toChild'[i].kind \notin Own /\ toChild'[j].kind \notin Own =>
             toChild'[i].id < toChild'[j].id
      /\ \A k \in DOMAIN ran, j \in DOMAIN toChild' :
           toChild'[j].kind \notin Own => ran[k] < toChild'[j].id
  <2>1. \A j \in DOMAIN toChild' : /\ j + 1 \in DOMAIN toChild /\ toChild'[j] = toChild[j + 1]
                                   /\ j \in Nat
    BY <1>3
  <2>2. \A j \in DOMAIN toChild' : toChild'[j].kind \notin Own =>
          IsCall(toChild'[j].id) /\ Passed(toChild'[j].id)
    BY <1>6, <2>1 DEF InOrder
  <2>3. ASSUME NEW i \in DOMAIN toChild', NEW j \in DOMAIN toChild', i < j,
               toChild'[i].kind \notin Own, toChild'[j].kind \notin Own
        PROVE  toChild'[i].id < toChild'[j].id
    <3>1. i + 1 < j + 1
      BY <2>1, <2>3
    <3>. QED
      BY <1>6, <2>1, <2>3, <3>1 DEF InOrder
  <2>4. \A k \in DOMAIN ran, j \in DOMAIN toChild' :
          toChild'[j].kind \notin Own => ran[k] < toChild'[j].id
    BY <1>6, <2>1 DEF InOrder
  <2>. QED
    BY <2>2, <2>3, <2>4
<1>8. ASSUME NEW k \in Len(ran) + 1..Len(calls), Passed(calls[k]),
             m.kind \in Own \/ m.id # calls[k]
      PROVE  \E j \in DOMAIN toChild' : toChild'[j].kind \notin Own /\ toChild'[j].id = calls[k]
  <2>1. PICK j \in DOMAIN toChild : toChild[j].kind \notin Own /\ toChild[j].id = calls[k]
    BY <1>1, <1>6, <1>8 DEF NoneLost
  <2>2. j # 1 /\ j - 1 \in 1..Len(toChild) - 1
    BY <1>3, <1>8, <2>1
  <2>3. toChild'[j - 1] = toChild[j]
    BY <1>3, <2>2
  <2>. QED
    BY <1>3, <2>1, <2>2, <2>3
<1>9. CASE m.kind \in Own
  <2>1. /\ UNCHANGED ran
        /\ (fromChild' = Append(fromChild, m) /\ m \in Back /\ m.kind = "hello") \/ UNCHANGED fromChild
    BY <1>3, <1>9 DEF Child, Own, Down, Back, m
  <2>2. /\ \A j \in DOMAIN fromChild' : fromChild'[j].kind = "answer" =>
             j \in DOMAIN fromChild /\ fromChild'[j] = fromChild[j]
    <3>1. CASE fromChild' = Append(fromChild, m) /\ m \in Back /\ m.kind = "hello"
      BY <1>2, <3>1, AppendFacts
    <3>. QED
      BY <2>1, <3>1
  <2>3. CallsListed'
    BY <1>1, <1>4, <1>6, <2>1 DEF CallsListed
  <2>4. InOrder'
    <3>1. \A j \in DOMAIN toChild' : toChild'[j].kind \notin Own =>
            IsCall(toChild[j].id)' /\ Passed(toChild[j].id)'
      BY <1>4, <1>7
    <3>. QED
      BY <1>4, <1>6, <1>7, <2>1, <3>1 DEF InOrder
  <2>5. NoneLost'
    BY <1>1, <1>4, <1>8, <1>9, <2>1 DEF NoneLost
  <2>6. AnsweredOnce'
    BY <1>1, <1>4, <1>6, <2>1, <2>2 DEF AnsweredOnce
  <2>. QED
    BY <1>0, <1>5, <2>3, <2>4, <2>5, <2>6 DEF LInv
<1>10. CASE m.kind \notin Own
  <2>. DEFINE a == [kind |-> "answer", id |-> m.id, refused |-> child # "ready"]
  <2>1. /\ fromChild' = Append(fromChild, a) /\ ran' = Append(ran, m.id)
    BY <1>10 DEF Child, Own, m
  <2>2. a \in Back /\ m.id \in Nat /\ a.id = m.id
    BY <1>3 DEF Down, Back
  <2>. HIDE DEF a
  <2>3. Len(ran) < Len(calls) /\ m.id = calls[Len(ran) + 1]
    BY <1>1, <1>10, NextCall DEF m
  <2>4. /\ ran' \in Seq(Nat) /\ DOMAIN ran' = 1..Len(ran) + 1 /\ Len(ran') = Len(ran) + 1
        /\ \A k \in 1..Len(ran) : ran'[k] = ran[k]
        /\ ran'[Len(ran) + 1] = m.id
    BY <1>2, <2>1, <2>2, AppendFacts
  <2>5. /\ DOMAIN fromChild' = 1..Len(fromChild) + 1
        /\ \A j \in 1..Len(fromChild) : fromChild'[j] = fromChild[j]
        /\ fromChild'[Len(fromChild) + 1] = a
    BY <1>2, <2>1, <2>2, AppendFacts
  <2>6. IsCall(m.id) /\ Passed(m.id)
    BY <1>3, <1>6, <1>10 DEF InOrder
  <2>7. \A k \in DOMAIN ran : ran[k] \in Nat /\ ran[k] < m.id
    BY <1>2, <1>3, <1>6, <1>10 DEF InOrder
  <2>8. CallsListed'
    <3>1. \A k \in DOMAIN ran' : ran'[k] = calls[k]
      <4>. TAKE k \in DOMAIN ran'
      <4>1. CASE k = Len(ran) + 1
        BY <2>3, <2>4, <4>1
      <4>2. CASE k \in 1..Len(ran)
        BY <1>6, <2>4, <4>2 DEF CallsListed
      <4>. QED
        BY <2>4, <4>1, <4>2
    <3>. QED
      BY <1>1, <1>4, <1>6, <2>3, <2>4, <3>1 DEF CallsListed
  <2>9. InOrder'
    <3>1. \A j \in DOMAIN toChild' : toChild'[j].kind \notin Own => m.id < toChild'[j].id
      <4>. TAKE j \in DOMAIN toChild'
      <4>1. j + 1 \in DOMAIN toChild /\ 1 < j + 1 /\ toChild'[j] = toChild[j + 1]
        BY <1>3
      <4>. QED
        BY <1>3, <1>6, <1>10, <4>1 DEF InOrder
    <3>2. \A k \in DOMAIN ran', j \in DOMAIN toChild' :
            toChild'[j].kind \notin Own => ran'[k] < toChild'[j].id
      BY <1>7, <2>4, <3>1
    <3>3. \A k \in DOMAIN ran' : Passed(ran[k])'
      BY <1>4, <1>6, <2>4, <2>6 DEF InOrder
    <3>4. \A j \in DOMAIN toChild' : toChild'[j].kind \notin Own =>
            IsCall(toChild[j].id)' /\ Passed(toChild[j].id)'
      BY <1>4, <1>7
    <3>. QED
      BY <1>7, <3>2, <3>3, <3>4 DEF InOrder
  <2>10. NoneLost'
    <3>. SUFFICES ASSUME NEW k \in Len(ran) + 2..Len(calls), Passed(calls[k])
                  PROVE  \E j \in DOMAIN toChild' :
                           toChild'[j].kind \notin Own /\ toChild'[j].id = calls[k]
      BY <1>1, <1>4, <2>4 DEF NoneLost
    <3>1. /\ k \in Len(ran) + 1..Len(calls) /\ k \in DOMAIN calls
          /\ Len(ran) + 1 \in DOMAIN calls /\ Len(ran) + 1 < k
      OBVIOUS
    <3>2. calls[Len(ran) + 1] < calls[k]
      BY <1>6, <3>1 DEF CallsListed
    <3>3. calls[k] # m.id
      BY <2>2, <2>3, <3>2
    <3>. QED
      BY <1>8, <3>1, <3>3
  <2>11. AnsweredOnce'
    <3>1. \A i \in DOMAIN replies : replies[i].id # m.id
      <4>. SUFFICES ASSUME NEW i \in DOMAIN replies, replies[i].id = m.id
                    PROVE  FALSE
        OBVIOUS
      <4>1. \E k \in DOMAIN ran : ran[k] = m.id
        BY <1>6, <2>6 DEF AnsweredOnce, IsCall
      <4>. QED
        BY <2>7, <4>1
    <3>2. \A j \in DOMAIN fromChild : fromChild[j].kind = "answer" => fromChild[j].id # m.id
      BY <1>6, <2>7 DEF AnsweredOnce
    <3>3. \A k \in DOMAIN ran : k \in DOMAIN ran' /\ ran'[k] = ran[k]
      BY <2>4
    <3>4. \A i \in DOMAIN replies' :
            LET n == replies'[i].id IN
            /\ n \in 1..Taken' /\ sent'[n].kind # "initialized"
            /\ sent'[n].kind = "call" => \E k \in DOMAIN ran' : ran'[k] = n
      <4>1. \A n : (\E k \in DOMAIN ran : ran[k] = n) => \E k \in DOMAIN ran' : ran'[k] = n
        BY <3>3
      <4>. QED
        BY <1>1, <1>4, <1>6, <4>1 DEF AnsweredOnce
    <3>5. ASSUME NEW j \in DOMAIN fromChild', fromChild'[j].kind = "answer"
          PROVE  /\ \E k \in DOMAIN ran' : ran'[k] = fromChild'[j].id
                 /\ \A i \in DOMAIN replies' : replies'[i].id # fromChild'[j].id
                 /\ \A i \in DOMAIN fromChild' : i < j /\ fromChild'[i].kind = "answer" =>
                      fromChild'[i].id # fromChild'[j].id
      <4>1. CASE j = Len(fromChild) + 1
        <5>1. fromChild'[j].id = m.id
          BY <2>2, <2>5, <4>1
        <5>2. \A i \in DOMAIN fromChild' : i < j => i \in DOMAIN fromChild /\ fromChild'[i] = fromChild[i]
          BY <2>5, <4>1
        <5>3. Len(ran) + 1 \in DOMAIN ran' /\ ran'[Len(ran) + 1] = m.id
          BY <2>4
        <5>. QED
          BY <1>1, <3>1, <3>2, <5>1, <5>2, <5>3
      <4>2. CASE j \in DOMAIN fromChild
        <5>1. fromChild'[j] = fromChild[j]
          BY <2>5, <4>2
        <5>2. \A i \in DOMAIN fromChild' : i < j => i \in DOMAIN fromChild /\ fromChild'[i] = fromChild[i]
          BY <2>5, <4>2
        <5>. QED
          BY <1>1, <1>6, <3>3, <3>5, <4>2, <5>1, <5>2 DEF AnsweredOnce
      <4>. QED
        BY <2>5, <4>1, <4>2
    <3>. QED
      BY <3>4, <3>5 DEF AnsweredOnce
  <2>. QED
    BY <1>0, <1>5, <2>8, <2>9, <2>10, <2>11 DEF LInv
<1>. QED
  BY <1>9, <1>10

LEMMA LInvInit ==
  ASSUME Init
  PROVE  LInv
<1>1. toChild \in Seq(Down) /\ Len(toChild) = 1 /\ toChild[1].kind = "hello"
  BY DEF Init, Down, Own
<1>2. Typed
  BY <1>1 DEF Init, Typed
<1>3. IInv
  BY <1>1, <1>2 DEF Init, IInv, HelloOnce, ReadyMeansTold, NoneEarly, Own
<1>4. Numbered /\ CallsListed
  BY DEF Init, Numbered, CallsListed, IsCall, Taken
<1>5. InOrder /\ NoneLost /\ AnsweredOnce
  BY <1>1 DEF Init, InOrder, NoneLost, AnsweredOnce, Own, Taken
<1>. QED
  BY <1>3, <1>4, <1>5 DEF LInv

LEMMA LInvNext ==
  ASSUME LInv, [Next]_vars
  PROVE  LInv'
<1>1. IInv'
  BY IInvNext DEF LInv
<1>2. CASE Close \/ SetReady
  <2>1. UNCHANGED <<stdin, sent, calls, main, held, toChild, fromChild, child, ran, replies>>
    BY <1>2 DEF Close, SetReady, client, thread, pipes
  <2>. QED
    BY <1>1, <2>1, NoLineMoves
<1>3. CASE Exit \/ ChildDies
  <2>1. /\ UNCHANGED <<stdin, sent, calls, held, toChild, fromChild, ran, replies>>
        /\ child' = "dead" /\ (main' = "wait") = (main = "wait")
    BY <1>3 DEF Exit, ChildDies, client, thread, pipes
  <2>. QED
    BY <1>1, <2>1, NoLineMoves
<1>4. CASE UNCHANGED vars
  BY <1>1, <1>4, NoLineMoves DEF vars, client, thread, pipes
<1>. QED
  BY <1>2, <1>3, <1>4, SendLines, NoCallTaken, CallTaken, CallPassed, GreetingTaken,
     AnswerRelayed, ChildLines DEF Next, Main, Pump

LEMMA IdsEmpty ==
  ASSUME NEW s, s = <<>>
  PROVE  Ids(s) = <<>>
<1>. DEFINE f == Ids(s)
<1>1. DOMAIN f = 1..0 /\ f \in Seq(Nat)
  BY DEF Ids
<1>. HIDE DEF f
<1>2. Len(f) = 0
  BY <1>1
<1>. QED
  BY <1>1, <1>2 DEF f

LEMMA IdsType ==
  ASSUME NEW s \in Seq(Reply)
  PROVE  Ids(s) \in Seq(Nat) /\ DOMAIN Ids(s) = DOMAIN s /\ \A i \in DOMAIN s : Ids(s)[i] = s[i].id
<1>1. DOMAIN s = 1..Len(s) /\ Len(s) \in Nat /\ \A i \in 1..Len(s) : s[i].id \in Nat
  <2>1. DOMAIN s = 1..Len(s) /\ Len(s) \in Nat /\ \A i \in 1..Len(s) : s[i] \in Reply
    OBVIOUS
  <2>. QED
    BY <2>1 DEF Reply
<1>2. Ids(s) \in [1..Len(s) -> Nat]
  BY <1>1 DEF Ids
<1>. QED
  BY <1>1, <1>2 DEF Ids

LEMMA IdsAppend ==
  ASSUME NEW s \in Seq(Reply), NEW e \in Reply
  PROVE  Ids(Append(s, e)) = Append(Ids(s), e.id)
<1>. DEFINE t == Append(s, e)
<1>1. Ids(s) \in Seq(Nat) /\ DOMAIN Ids(s) = DOMAIN s /\ \A i \in DOMAIN s : Ids(s)[i] = s[i].id
  BY IdsType
<1>2. /\ t \in Seq(Reply) /\ DOMAIN s = 1..Len(s) /\ Len(s) \in Nat
      /\ DOMAIN t = 1..Len(s) + 1
      /\ \A i \in 1..Len(s) : t[i] = s[i]
      /\ t[Len(s) + 1] = e
  BY AppendFacts
<1>. HIDE DEF t
<1>3. Ids(t) \in Seq(Nat) /\ DOMAIN Ids(t) = DOMAIN t /\ \A i \in DOMAIN t : Ids(t)[i] = t[i].id
  BY <1>2, IdsType
<1>4. Len(Ids(s)) = Len(s) /\ e.id \in Nat
  BY <1>1, <1>2 DEF Reply
<1>5. /\ DOMAIN Append(Ids(s), e.id) = 1..Len(s) + 1
      /\ \A i \in 1..Len(s) : Append(Ids(s), e.id)[i] = Ids(s)[i]
      /\ Append(Ids(s), e.id)[Len(s) + 1] = e.id
      /\ Append(Ids(s), e.id) \in Seq(Nat)
  BY <1>1, <1>4, AppendFacts
<1>6. \A i \in 1..Len(s) + 1 : Ids(t)[i] = Append(Ids(s), e.id)[i]
  BY <1>1, <1>2, <1>3, <1>5
<1>. QED
  BY <1>2, <1>3, <1>5, <1>6 DEF t

Asked == {m.id : m \in Requests}

\* A request was asked when it is among the lines.
LEMMA AskedLines ==
  ASSUME LInv
  PROVE  Asked = {n \in DOMAIN sent : sent[n].kind # "initialized"}
BY DEF LInv, Numbered, Asked, Requests

\* The client's step asks.
LEMMA SendAsks ==
  ASSUME LInv, Send
  PROVE  [Server!Next]_<<calls, ran, Asked, Ids(replies)>>
<1>. Sized
  BY Sizes
<1>. USE DEF Sized
<1>1. LInv'
  BY SendLines
<1>2. PICK m \in Line :
        /\ m.id = Len(sent) + 1 /\ Len(sent) < MaxLines
        /\ sent' = Append(sent, m)
        /\ calls' = IF m.kind = "call" THEN Append(calls, m.id) ELSE calls
  BY DEF Send
<1>3. UNCHANGED <<ran, replies>>
  BY DEF Send
<1>4. sent \in Seq(Line)
  BY DEF LInv, Numbered
<1>5. /\ DOMAIN sent' = 1..Len(sent) + 1
      /\ \A i \in 1..Len(sent) : sent'[i] = sent[i]
      /\ sent'[Len(sent) + 1] = m
  BY <1>2, <1>4, AppendFacts
<1>6. /\ Asked = {n \in DOMAIN sent : sent[n].kind # "initialized"}
      /\ Asked' = {n \in DOMAIN sent' : sent'[n].kind # "initialized"}
  <2>1. Numbered'
    BY <1>1 DEF LInv
  <2>2. Asked' = {n \in DOMAIN sent' : sent'[n].kind # "initialized"}
    BY <2>1 DEF Numbered, Asked, Requests
  <2>. QED
    BY <2>2, AskedLines
<1>7. m.id \in 1..MaxLines /\ m.id \notin Asked
  BY <1>2, <1>6, PrewarmAssumption
<1>8. CASE m.kind = "initialized"
  <2>1. Asked' = Asked
    BY <1>2, <1>5, <1>6, <1>8
  <2>. QED
    BY <1>2, <1>3, <1>8, <2>1
<1>9. CASE m.kind # "initialized"
  <2>1. Asked' = Asked \cup {m.id}
    BY <1>2, <1>5, <1>6, <1>9
  <2>2. Server!Ask(m.id, m.kind = "call")
    BY <1>2, <1>3, <1>7, <2>1 DEF Server!Ask, Asked
  <2>3. Server!Ask(m.id, TRUE) \/ Server!Ask(m.id, FALSE)
    BY <2>2
  <2>. QED
    BY <1>7, <2>3 DEF Server!Next
<1>. QED
  BY <1>8, <1>9

\* A step that writes an answer gives one to a request.
LEMMA WriteAnswers ==
  ASSUME LInv, NEW a \in Reply, replies' = Append(replies, a),
         UNCHANGED <<sent, calls, ran>>,
         a.id \in 1..MaxLines, a.id \in Asked,
         \A i \in DOMAIN replies : replies[i].id # a.id,
         IsCall(a.id) => \E k \in DOMAIN ran : ran[k] = a.id
  PROVE  Server!Next
<1>. Sized
  BY Sizes
<1>. USE DEF Sized
<1>1. replies \in Seq(Reply)
  BY DEF LInv, IInv, Typed
<1>2. Ids(replies)' = Append(Ids(replies), a.id)
  BY <1>1, IdsAppend DEF Ids
<1>3. \A i \in DOMAIN Ids(replies) : Ids(replies)[i] # a.id
  BY DEF Ids
<1>4. Asked' = Asked
  BY DEF Asked, Requests
<1>5. \A k \in DOMAIN calls \ DOMAIN ran : calls[k] # a.id
  <2>. SUFFICES ASSUME NEW k \in DOMAIN calls \ DOMAIN ran, calls[k] = a.id
                PROVE  FALSE
    OBVIOUS
  <2>1. IsCall(a.id)
    BY DEF LInv, CallsListed
  <2>2. PICK l \in DOMAIN ran : ran[l] = a.id
    BY <2>1
  <2>3. l \in DOMAIN calls /\ l < k /\ calls[l] = a.id
    BY <2>2 DEF LInv, CallsListed
  <2>4. calls[l] < calls[k] /\ calls[k] \in Nat
    BY <2>3, SMTT(30) DEF LInv, CallsListed, IsCall
  <2>. QED
    BY <2>3, <2>4
<1>6. Server!Answer(a.id)
  BY <1>2, <1>3, <1>4, <1>5 DEF Server!Answer, Asked
<1>. QED
  BY <1>6 DEF Server!Next

\* Every step of the proxy, of its client and of the child is one of a server's, or
\* none that the client sees.
LEMMA StepsOfAServer ==
  ASSUME LInv, [Next]_vars
  PROVE  [Server!Next]_<<calls, ran, Asked, Ids(replies)>>
<1>. Sized
  BY Sizes
<1>. USE DEF Sized
<1>1. ASSUME UNCHANGED <<sent, calls, ran, replies>>
      PROVE  UNCHANGED <<calls, ran, Asked, Ids(replies)>>
  BY <1>1 DEF Asked, Requests
<1>2. CASE Close \/ Swallow \/ Hold \/ Forward \/ Exit \/ Greet \/ SetReady \/ ChildDies
            \/ UNCHANGED vars
  <2>1. UNCHANGED <<sent, calls, ran, replies>>
    BY <1>2 DEF Close, Swallow, Hold, Forward, Exit, Greet, SetReady, ChildDies, vars, client
  <2>. QED
    BY <1>1, <2>1
<1>3. \A n \in 1..Taken : /\ n \in DOMAIN sent
                          /\ sent[n].kind # "initialized" => n \in Asked
                          /\ n \in 1..MaxLines
  <2>1. \A n \in DOMAIN sent : sent[n].id = n /\ sent[n] \in Line
    BY DEF LInv, Numbered
  <2>2. \A n \in DOMAIN sent : n \in 1..MaxLines
    BY <2>1 DEF Line
  <2>. QED
    BY <2>2, AskedLines
<1>4. CASE AnswerFromCache
  <2>. DEFINE a == Answer(Head(stdin).id, FALSE)
  <2>1. /\ stdin # <<>> /\ stdin' = Tail(stdin) /\ Head(stdin).kind \in Cached
        /\ UNCHANGED <<sent, calls, ran>> /\ replies' = Append(replies, a)
    BY <1>4 DEF AnswerFromCache, TakeLine, pipes
  <2>2. /\ Head(stdin) = sent[Taken + 1] /\ Head(stdin).id = Taken + 1
        /\ Taken + 1 \in DOMAIN sent
    BY <2>1, LineTaken
  <2>3. a \in Reply /\ a.id = Taken + 1
    BY <2>2 DEF Answer, Reply
  <2>. HIDE DEF a
  <2>4. sent[a.id].kind \notin {"initialized", "call"}
    BY <2>1, <2>2, <2>3 DEF Cached
  <2>5. a.id \in Asked /\ a.id \in 1..MaxLines
    <3>1. sent[a.id].id = a.id /\ sent[a.id] \in Line
      BY <2>2, <2>3 DEF LInv, Numbered
    <3>. QED
      BY <2>2, <2>3, <2>4, <3>1, AskedLines DEF Line
  <2>6. \A i \in DOMAIN replies : replies[i].id # a.id
    BY <2>3 DEF LInv, AnsweredOnce
  <2>. QED
    BY <2>1, <2>3, <2>4, <2>5, <2>6, WriteAnswers DEF IsCall
<1>5. CASE Relay
  <2>. DEFINE a == Answer(fromChild[1].id, fromChild[1].refused)
  <2>1. /\ Head(fromChild) = fromChild[1] /\ 1 \in DOMAIN fromChild
        /\ fromChild[1].kind = "answer" /\ fromChild[1].id \in 1..Taken
        /\ IsCall(fromChild[1].id) /\ \E k \in DOMAIN ran : ran[k] = fromChild[1].id
    BY <1>5, AnswerTaken
  <2>2. /\ UNCHANGED <<sent, calls, ran>> /\ replies' = Append(replies, a)
        /\ a.id = fromChild[1].id
    BY <1>5, <2>1 DEF Relay, client, Answer
  <2>3. a \in Reply
    BY <2>1 DEF LInv, IInv, Typed, Back, Answer, Reply
  <2>4. \A i \in DOMAIN replies : replies[i].id # fromChild[1].id
    BY <2>1 DEF LInv, AnsweredOnce
  <2>. HIDE DEF a
  <2>5. a.id \in Asked /\ a.id \in 1..MaxLines
    BY <1>3, <2>1, <2>2 DEF IsCall
  <2>. QED
    BY <2>1, <2>2, <2>3, <2>4, <2>5, WriteAnswers
<1>6. CASE Child
  <2>1. UNCHANGED <<sent, calls, replies>> /\ child # "dead" /\ toChild # <<>>
    BY <1>6 DEF Child, client
  <2>2. CASE UNCHANGED ran
    BY <1>1, <2>1, <2>2
  <2>3. CASE ~UNCHANGED ran
    <3>1. Head(toChild).kind \notin Own /\ ran' = Append(ran, Head(toChild).id)
      BY <1>6, <2>3 DEF Child, Own
    <3>2. Len(ran) < Len(calls) /\ Head(toChild).id = calls[Len(ran) + 1]
      BY <2>1, <3>1, NextCall
    <3>3. Asked' = Asked /\ Ids(replies)' = Ids(replies)
      BY <2>1 DEF Asked, Requests
    <3>. QED
      BY <2>1, <3>1, <3>2, <3>3 DEF Server!Next, Server!Execute, Asked
  <2>. QED
    BY <2>2, <2>3
<1>7. CASE Send
  BY <1>7, SendAsks
<1>. QED
  BY <1>2, <1>4, <1>5, <1>6, <1>7 DEF Next, Main, Pump

-----------------------------------------------------------------------------
\* Unless a wait ran out, no answer the client gets is the refusal of a child that
\* was not initialized.
THEOREM NoneRefused == Spec => []HandshakeFirst
<1>1. Init => LInv
  BY LInvInit
<1>2. LInv /\ [Next]_vars => LInv'
  BY LInvNext
<1>3. LInv => HandshakeFirst
  BY DEF LInv, IInv, NoneEarly, HandshakeFirst
<1>. QED
  BY <1>1, <1>2, <1>3, PTL DEF Spec

\* For any number of lines, whatever order the two threads and the child run in and
\* whenever the child dies or the minute runs out, the proxy is a tool server: the
\* calls are run in the order they were sent, without a gap, and each request is
\* answered at most once, a call not before it was run.
THEOREM ProxyIsAServer == Spec => ImplementsServer
<1>1. Init => LInv
  BY LInvInit
<1>2. LInv /\ [Next]_vars => LInv'
  BY LInvNext
<1>3. Init => Server!Init
  <2>. SUFFICES ASSUME Init PROVE Server!Init
    OBVIOUS
  <2>1. {m.id : m \in Requests} = {}
    BY DEF Init, Requests
  <2>2. Ids(replies) = <<>>
    BY IdsEmpty DEF Init
  <2>. QED
    BY <2>1, <2>2 DEF Init, Server!Init
<1>4. LInv /\ [Next]_vars => [Server!Next]_<<calls, ran, {m.id : m \in Requests}, Ids(replies)>>
  BY StepsOfAServer DEF Asked
<1>. QED
  BY <1>1, <1>2, <1>3, <1>4, PTL DEF Spec, ImplementsServer, Server!Spec
=============================================================================
