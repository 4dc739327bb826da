--------------------------- MODULE MessagingProofs --------------------------
(***************************************************************************)
(* Proofs about Messaging: a client that has the plotter for itself, where *)
(* none was killed while it waited, prints the responses to its own lines. *)
(***************************************************************************)
EXTENDS Messaging, FiniteSetTheorems, TLAPS

\* What mq_send leaves in a queue.
LEMMA SentType ==
  ASSUME NEW q \in Seq(Message), NEW m \in Message
  PROVE  Sent(q, m) \in Seq(Message)
BY DEF Sent

LEMMA SentToEmpty ==
  ASSUME NEW m \in Message
  PROVE  Sent(<<>>, m) = <<m>> /\ ~ Full(<<>>)
BY MessagingAssumption DEF Sent, Full

\* What a response leaves there, which may have been too long.
LEMMA RespondedIs ==
  ASSUME NEW q \in Seq(Message), NEW m \in Message, NEW r \in Responded(q, m)
  PROVE  r \in Seq(Message) /\ r \in {Sent(q, m), q}
<1>1. r \in {Sent(q, m), q}
  BY DEF Responded
<1> QED BY <1>1, SentType

LEMMA RespondedToEmpty ==
  ASSUME NEW m \in Message, NEW r \in Responded(<<>>, m)
  PROVE  r \in {<<m>>, <<>>}
<1>1. <<>> \in Seq(Message)
  OBVIOUS
<1>2. r \in {Sent(<<>>, m), <<>>}
  BY <1>1, RespondedIs
<1> QED BY <1>2, SentToEmpty

LEMMA InitEstablishesIInv == Init => IInv
<1>1. ASSUME Init PROVE TypeOK
  <2>1. 0 \in 0 .. MaxQueues /\ 0 \in 0 .. MaxAsked /\ <<>> \in Seq(Message)
    BY MessagingAssumption
  <2>2. input \in [Queues -> Seq(Message)] /\ output \in Seq(Message)
    BY <1>1, <2>1 DEF Init
  <2>3. /\ to_srv \in [Clients -> 0 .. MaxQueues]
        /\ asked \in [Clients -> 0 .. MaxAsked]
        /\ retry \in [Clients -> BOOLEAN]
        /\ client \in [Clients -> {"off", "ready", "waiting"}]
    BY <1>1, <2>1 DEF Init
  <2> QED BY <1>1, <2>1, <2>2, <2>3 DEF Init, TypeOK
<1>2. Init => Connected
  BY DEF Init, Connected
<1>3. ASSUME Init, NEW c \in Clients
      PROVE  OneAtATime(c)
  <2>1. ~ retry[c] /\ pending = {} /\ output = <<>>
    BY <1>3 DEF Init
  <2>2. \A q \in Queues : input[q] = <<>>
    BY <1>3 DEF Init
  <2> QED BY <2>1, <2>2 DEF OneAtATime, Inside
<1>4. Init => QueuesFit
  BY FS_EmptySet, MessagingAssumption DEF Init, QueuesFit
<1> QED BY <1>1, <1>2, <1>3, <1>4 DEF IInv, Undisturbed

\* mq_open leaves the queues alone.
LEMMA OpenType ==
  ASSUME TypeOK, Open
  PROVE  Opened \in Queues /\ name' \in Queues /\ created' \in 0 .. MaxQueues
BY MessagingAssumption DEF TypeOK, Open, Opened, Queues

\* ClientSend of a client that has nothing to send again.
LEMMA SendStep ==
  ASSUME IInv, NEW c \in Clients, ClientSend(c), killed = 0, Sole(c)
  PROVE  LET m == [from |-> c, n |-> asked[c] + 1]
         IN  /\ client[c] = "ready"
             /\ m \in Message /\ asked[c] + 1 \in 1 .. MaxAsked
             /\ to_srv[c] \in Queues
             /\ input' = [input EXCEPT ![to_srv[c]] = <<m>>]
             /\ retry' = [retry EXCEPT ![c] = FALSE]
             /\ asked' = [asked EXCEPT ![c] = asked[c] + 1]
             /\ client' = [client EXCEPT ![c] = "waiting"]
             /\ UNCHANGED <<name, created, output, server, pending, to_srv, killed, stopped>>
<1> DEFINE m == [from |-> c, n |-> asked[c] + 1]
           queue == input[to_srv[c]]
<1> OneAtATime(c)
  BY DEF IInv, Undisturbed
<1>1. ~ retry[c]
  BY DEF OneAtATime
<1>2. /\ client[c] = "ready"
      /\ asked[c] + 1 <= MaxAsked
      /\ input' = [input EXCEPT ![to_srv[c]] = Sent(queue, m)]
      /\ retry' = [retry EXCEPT ![c] = Full(queue)]
      /\ asked' = [asked EXCEPT ![c] = asked[c] + 1]
      /\ client' = [client EXCEPT ![c] = "waiting"]
      /\ UNCHANGED <<name, created, output, server, pending, to_srv, killed, stopped>>
  BY <1>1 DEF ClientSend
<1>3. asked[c] + 1 \in 1 .. MaxAsked
  BY <1>2, MessagingAssumption DEF IInv, TypeOK
<1>4. m \in Message
  BY <1>3 DEF Message
<1>5. to_srv[c] \in Queues
  BY <1>2, MessagingAssumption DEF IInv, TypeOK, Connected, Queues
<1>6. queue = <<>>
  BY <1>2, <1>5 DEF IInv, TypeOK, OneAtATime, Inside
<1>7. Sent(queue, m) = <<m>> /\ Full(queue) = FALSE
  BY <1>4, <1>6, SentToEmpty
<1> QED BY <1>2, <1>3, <1>4, <1>5, <1>7

\* What ServerPoll takes.
LEMMA PollStep ==
  ASSUME IInv, ServerPoll
  PROVE  /\ server \in Queues /\ Inside(server)
         /\ Head(input[server]) \in Message /\ Tail(input[server]) \in Seq(Message)
<1>1. server \in Queues /\ input[server] \in Seq(Message) /\ input[server] # <<>>
  BY MessagingAssumption DEF ServerPoll, IInv, TypeOK, Queues
<1> QED BY <1>1 DEF Inside

LEMMA TypeStep == IInv /\ [Next]_vars => TypeOK'
<1> SUFFICES ASSUME IInv, [Next]_vars PROVE TypeOK'
  OBVIOUS
<1> TypeOK
  BY DEF IInv
<1> USE DEF clients
<1>1. CASE ServerStart
  BY <1>1, OpenType DEF ServerStart, TypeOK, Queues
<1>2. CASE ServerPoll
  <2>1. Head(input[server]) \in Message /\ Tail(input[server]) \in Seq(Message)
    BY <1>2, PollStep
  <2>2. input' \in [Queues -> Seq(Message)]
    BY <1>2, <2>1 DEF ServerPoll, TypeOK
  <2>3. output' \in Seq(Message) /\ pending' \subseteq Message
    BY <1>2, <2>1, RespondedIs DEF ServerPoll, TypeOK
  <2> QED BY <1>2, <2>2, <2>3 DEF ServerPoll, TypeOK
<1>3. CASE ServerExit
  BY <1>3, MessagingAssumption DEF ServerExit, TypeOK
<1>4. CASE ServerCrash
  BY <1>4, MessagingAssumption DEF ServerCrash, TypeOK
<1>5. ASSUME NEW m \in pending, ServerDone(m) \/ ServerGivesUp(m)
      PROVE  TypeOK'
  <2>1. m \in Message
    BY DEF TypeOK
  <2> QED BY <1>5, <2>1, RespondedIs DEF ServerDone, ServerGivesUp, TypeOK
<1>6. ASSUME NEW c \in Clients, ClientStart(c)
      PROVE  TypeOK'
  BY <1>6, OpenType, SMTT(30) DEF ClientStart, TypeOK, Queues
<1>7. ASSUME NEW c \in Clients, ClientSend(c)
      PROVE  TypeOK'
  <2> DEFINE n == IF retry[c] THEN asked[c] ELSE asked[c] + 1
             m == [from |-> c, n |-> n]
  <2>1. n \in 1 .. MaxAsked
    BY <1>7, MessagingAssumption DEF ClientSend, IInv, TypeOK, Connected
  <2>2. input' \in [Queues -> Seq(Message)]
    <3>1. m \in Message
      BY <2>1 DEF Message
    <3>2. input' = [input EXCEPT ![to_srv[c]] = Sent(input[to_srv[c]], m)]
      BY <1>7 DEF ClientSend
    <3>3. to_srv[c] \in Queues
      BY <1>7, MessagingAssumption DEF ClientSend, IInv, TypeOK, Connected, Queues
    <3> HIDE DEF m
    <3>4. Sent(input[to_srv[c]], m) \in Seq(Message)
      BY <3>1, <3>3, SentType DEF TypeOK
    <3> QED BY <3>2, <3>4 DEF TypeOK
  <2>3. asked' \in [Clients -> 0 .. MaxAsked]
    <3>1. n \in 0 .. MaxAsked
      BY <2>1, MessagingAssumption
    <3>2. asked' = [asked EXCEPT ![c] = n]
      BY <1>7 DEF ClientSend
    <3> HIDE DEF n
    <3> QED BY <3>1, <3>2 DEF TypeOK
  <2>4. retry' \in [Clients -> BOOLEAN] /\ client' \in [Clients -> {"off", "ready", "waiting"}]
    BY <1>7 DEF ClientSend, TypeOK, Full
  <2> QED BY <1>7, <2>2, <2>3, <2>4 DEF ClientSend, TypeOK
<1>8. ASSUME NEW c \in Clients, ClientReceive(c)
      PROVE  TypeOK'
  BY <1>8 DEF ClientReceive, TypeOK
<1>9. ASSUME NEW c \in Clients, ClientExit(c) \/ ClientKilled(c)
      PROVE  TypeOK'
  <2>1. ClientOff(c)
    BY <1>9 DEF ClientExit, ClientKilled
  <2>2. killed' \in Nat
    BY <1>9 DEF ClientExit, ClientKilled, TypeOK
  <2> QED BY <2>1, <2>2, MessagingAssumption DEF ClientOff, TypeOK
<1>10. CASE UNCHANGED vars
  BY <1>10 DEF vars, TypeOK
<1> QED BY <1>1, <1>2, <1>3, <1>4, <1>5, <1>6, <1>7, <1>8, <1>9, <1>10
     DEF Next

LEMMA ConnectedStep == IInv /\ [Next]_vars => Connected'
<1> SUFFICES ASSUME IInv, [Next]_vars PROVE Connected'
  OBVIOUS
<1> TypeOK /\ Connected
  BY DEF IInv
<1>1. CASE ServerStart \/ ServerPoll \/ ServerExit \/ ServerCrash
  BY <1>1 DEF ServerStart, ServerPoll, ServerExit, ServerCrash, clients, Connected
<1>2. ASSUME NEW m \in pending, ServerDone(m) \/ ServerGivesUp(m)
      PROVE  Connected'
  BY <1>2 DEF ServerDone, ServerGivesUp, clients, Connected
<1>3. ASSUME NEW c \in Clients, ClientStart(c)
      PROVE  Connected'
  BY <1>3, OpenType DEF ClientStart, Connected, TypeOK, Queues
<1>4. ASSUME NEW c \in Clients, ClientSend(c)
      PROVE  Connected'
  <2>1. \A d \in Clients : asked'[d] # 0 \/ (d # c /\ asked'[d] = asked[d])
    BY <1>4 DEF ClientSend, TypeOK, Connected
  <2> QED BY <1>4, <2>1 DEF ClientSend, Connected, TypeOK
<1>5. ASSUME NEW c \in Clients, ClientReceive(c) \/ ClientOff(c)
      PROVE  Connected'
  BY <1>5 DEF ClientReceive, ClientOff, Connected, TypeOK
<1>6. CASE UNCHANGED vars
  BY <1>6 DEF vars, Connected
<1> QED BY <1>1, <1>2, <1>3, <1>4, <1>5, <1>6 DEF Next, ClientExit, ClientKilled

(***************************************************************************)
(* A client that is the only one to have sent anything was so before, and  *)
(* nobody is ever brought back to life.                                    *)
(***************************************************************************)
LEMMA SoleBefore ==
  ASSUME IInv, [Next]_vars, NEW c \in Clients, killed' = 0, Sole(c)'
  PROVE  killed = 0 /\ Sole(c)
<1> TypeOK /\ Connected
  BY DEF IInv
<1>1. CASE ServerStart \/ ServerPoll \/ ServerExit \/ ServerCrash
  BY <1>1 DEF ServerStart, ServerPoll, ServerExit, ServerCrash, clients, Sole
<1>2. ASSUME NEW m \in pending, ServerDone(m) \/ ServerGivesUp(m)
      PROVE  killed = 0 /\ Sole(c)
  BY <1>2 DEF ServerDone, ServerGivesUp, clients, Sole
<1>3. ASSUME NEW d \in Clients, ClientStart(d) \/ ClientReceive(d) \/ ClientExit(d)
      PROVE  killed = 0 /\ Sole(c)
  BY <1>3 DEF ClientStart, ClientReceive, ClientExit, ClientOff, Sole
<1>4. ASSUME NEW d \in Clients, ClientSend(d)
      PROVE  killed = 0 /\ Sole(c)
  <2>1. asked'[d] # 0 /\ \A e \in Clients \ {d} : asked'[e] = asked[e]
    BY <1>4 DEF ClientSend, TypeOK, Connected
  <2>2. d = c
    BY <2>1 DEF Sole
  <2> QED BY <1>4, <2>1, <2>2 DEF ClientSend, Sole
<1>5. ASSUME NEW d \in Clients, ClientKilled(d)
      PROVE  killed = 0 /\ Sole(c)
  BY <1>5 DEF ClientKilled, ClientOff, TypeOK, Sole
<1>6. CASE UNCHANGED vars
  BY <1>6 DEF vars, Sole
<1> QED BY <1>1, <1>2, <1>3, <1>4, <1>5, <1>6 DEF Next

LEMMA OneAtATimeStep ==
  ASSUME IInv, [Next]_vars, NEW c \in Clients, killed' = 0, Sole(c)'
  PROVE  OneAtATime(c)'
<1> TypeOK /\ Connected
  BY DEF IInv
<1> killed = 0 /\ Sole(c)
  BY SoleBefore
<1> OneAtATime(c)
  BY DEF IInv, Undisturbed
<1>1. CASE ServerStart \/ ServerExit
  BY <1>1 DEF ServerStart, ServerExit, clients, OneAtATime, Inside, Line
<1>2. CASE ServerPoll
  <2> SUFFICES /\ ~ retry[c]
               /\ client[c] = "waiting"
               /\ \A q \in Queues : input'[q] = <<>>
               /\ \/ pending' = {} /\ output' \in {<<Line(c)>>, <<>>}
                  \/ pending' = {Line(c)} /\ output' = <<>>
    BY <1>2 DEF ServerPoll, clients, OneAtATime, Inside, Line
  <2>1. server \in Queues /\ Inside(server)
    BY <1>2, PollStep
  <2>2. input[server] = <<Line(c)>> /\ pending = {} /\ output = <<>>
    BY <2>1 DEF OneAtATime, Inside
  <2>3. Head(input[server]) = Line(c) /\ Tail(input[server]) = <<>> /\ Line(c) \in Message
    BY <1>2, <2>2, PollStep
  <2>4. \A q \in Queues : input'[q] = <<>>
    BY <1>2, <2>1, <2>3 DEF ServerPoll, TypeOK, OneAtATime, Inside
  <2>5. ~ retry[c] /\ client[c] = "waiting"
    BY <2>1 DEF OneAtATime
  <2>6. \A r \in Responded(<<>>, Line(c)) : r \in {<<Line(c)>>, <<>>}
    BY <2>3, RespondedToEmpty
  <2> QED BY <1>2, <2>2, <2>3, <2>4, <2>5, <2>6 DEF ServerPoll
<1>3. CASE ServerCrash
  BY <1>3 DEF ServerCrash, clients, OneAtATime, Inside, Line
<1>4. ASSUME NEW m \in pending, ServerDone(m)
      PROVE  OneAtATime(c)'
  <2> SUFFICES /\ ~ retry[c]
               /\ client[c] = "waiting"
               /\ \A q \in Queues : input[q] = <<>>
               /\ pending' = {} /\ output' \in {<<Line(c)>>, <<>>}
    BY <1>4 DEF ServerDone, clients, OneAtATime, Inside, Line
  <2>1. m = Line(c) /\ pending = {Line(c)} /\ output = <<>> /\ m \in Message
    BY DEF OneAtATime, TypeOK
  <2>2. \A r \in Responded(<<>>, m) : r \in {<<m>>, <<>>}
    BY <2>1, RespondedToEmpty
  <2>3. \A q \in Queues : input[q] = <<>>
    BY <2>1 DEF OneAtATime, Inside
  <2>4. ~ retry[c] /\ client[c] = "waiting"
    BY <2>1 DEF OneAtATime
  <2> QED BY <1>4, <2>1, <2>2, <2>3, <2>4 DEF ServerDone
<1>5. ASSUME NEW m \in pending, ServerGivesUp(m)
      PROVE  OneAtATime(c)'
  BY <1>5 DEF ServerGivesUp, OneAtATime, Inside, Line
<1>6. ASSUME NEW d \in Clients, ClientStart(d)
      PROVE  OneAtATime(c)'
  BY <1>6 DEF ClientStart, TypeOK, OneAtATime, Inside, Line
<1>7. ASSUME NEW d \in Clients, ClientSend(d)
      PROVE  OneAtATime(c)'
  <2>1. d = c
    <3>1. asked'[d] # 0
      BY <1>7 DEF ClientSend, TypeOK, Connected
    <3> QED BY <3>1 DEF Sole
  <2>2. ClientSend(c)
    BY <1>7, <2>1
  <2>3. pending = {} /\ output = <<>> /\ \A q \in Queues : input[q] = <<>>
    BY <2>2, SendStep DEF OneAtATime, Inside
  <2>4. Line(c)' = [from |-> c, n |-> asked[c] + 1] /\ ~ retry'[c] /\ client'[c] = "waiting"
    BY <2>2, SendStep DEF Line, TypeOK
  <2>5. pending' = {} /\ output' = <<>>
    BY <2>2, <2>3, SendStep
  <2>6. to_srv[c] \in Queues
        /\ \A q \in Queues : input'[q] = IF q = to_srv[c] THEN <<Line(c)'>> ELSE <<>>
    <3> DEFINE m == [from |-> c, n |-> asked[c] + 1]
    <3>1. to_srv[c] \in Queues /\ input' = [input EXCEPT ![to_srv[c]] = <<m>>]
      BY <2>2, SendStep
    <3>2. Line(c)' = m
      BY <2>4
    <3> HIDE DEF m
    <3>3. \A q \in Queues : input'[q] = IF q = to_srv[c] THEN <<m>> ELSE <<>>
      BY <2>3, <3>1 DEF TypeOK
    <3> QED BY <3>1, <3>2, <3>3
  <2> QED BY <2>4, <2>5, <2>6 DEF OneAtATime, Inside
<1>8. ASSUME NEW d \in Clients, ClientReceive(d)
      PROVE  OneAtATime(c)'
  <2>1. d = c
    BY <1>8 DEF ClientReceive, Connected, Sole
  <2>2. output = <<Line(c)>> /\ pending = {} /\ \A q \in Queues : input[q] = <<>>
    BY <1>8, <2>1 DEF ClientReceive, OneAtATime, Inside
  <2>3. output' = <<>>
    BY <1>8, <2>2 DEF ClientReceive
  <2>4. ~ retry[c]
    BY DEF OneAtATime
  <2> QED BY <1>8, <2>1, <2>2, <2>3, <2>4 DEF ClientReceive, OneAtATime, Inside
<1>9. ASSUME NEW d \in Clients, ClientExit(d)
      PROVE  OneAtATime(c)'
  <2>1. CASE d = c
    <3>1. output = <<>> /\ pending = {} /\ \A q \in Queues : input[q] = <<>>
      BY <1>9, <2>1 DEF ClientExit, OneAtATime, Inside
    <3> QED BY <1>9, <2>1, <3>1 DEF ClientExit, ClientOff, OneAtATime, Inside, TypeOK
  <2>2. CASE d # c
    BY <1>9, <2>2 DEF ClientExit, ClientOff, OneAtATime, Inside, Line, TypeOK
  <2> QED BY <2>1, <2>2
<1>10. ASSUME NEW d \in Clients
       PROVE  ~ ClientKilled(d)
  <2> SUFFICES ASSUME ClientKilled(d) PROVE FALSE
    OBVIOUS
  <2>1. d = c
    BY DEF ClientKilled, Connected, Sole
  <2>2. ~ retry[c]
    BY DEF OneAtATime
  <2> QED BY <2>1, <2>2 DEF ClientKilled
<1>11. CASE UNCHANGED vars
  BY <1>11 DEF vars, OneAtATime, Inside, Line
<1> QED BY <1>1, <1>2, <1>3, <1>4, <1>5, <1>6, <1>7, <1>8, <1>9, <1>10, <1>11 DEF Next

\* What mq_send adds to a queue.
LEMMA SentLength ==
  ASSUME NEW q \in Seq(Message), NEW m \in Message
  PROVE  /\ Full(q) => Sent(q, m) = q
         /\ ~ Full(q) => Len(Sent(q, m)) = Len(q) + 1 /\ Len(q) < MaxMessages
         /\ Len(Sent(q, m)) <= Len(q) + 1
         /\ Len(q) <= MaxMessages => Len(Sent(q, m)) <= MaxMessages
<1>1. Len(Append(q, m)) = Len(q) + 1 /\ Len(q) \in Nat
  OBVIOUS
<1> QED BY <1>1, MessagingAssumption DEF Sent, Full

LEMMA RespondedLength ==
  ASSUME NEW q \in Seq(Message), NEW m \in Message, NEW r \in Responded(q, m)
  PROVE  Len(r) \in Nat /\ Len(r) <= Len(q) + 1
<1>1. r \in Seq(Message) /\ (r = Sent(q, m) \/ r = q)
  BY RespondedIs
<1>2. Len(Sent(q, m)) <= Len(q) + 1 /\ Len(q) \in Nat
  BY SentLength
<1> QED BY <1>1, <1>2

\* What ClientSend sends, be it for the first time or again.
LEMMA SendsLine ==
  ASSUME TypeOK, Connected, NEW c \in Clients, ClientSend(c)
  PROVE  /\ client[c] = "ready" /\ to_srv[c] \in Queues
         /\ \E m \in Message : input' = [input EXCEPT ![to_srv[c]] = Sent(input[to_srv[c]], m)]
<1> DEFINE n == IF retry[c] THEN asked[c] ELSE asked[c] + 1
<1>1. n \in 1 .. MaxAsked
  BY MessagingAssumption DEF ClientSend, TypeOK, Connected
<1>2. [from |-> c, n |-> n] \in Message
  BY <1>1 DEF Message
<1>3. to_srv[c] \in Queues
  BY MessagingAssumption DEF ClientSend, TypeOK, Connected, Queues
<1> QED BY <1>2, <1>3 DEF ClientSend

LEMMA QueuesFitStep == IInv /\ [Next]_vars => QueuesFit'
<1> SUFFICES ASSUME IInv, [Next]_vars PROVE QueuesFit'
  OBVIOUS
<1> TypeOK /\ Connected /\ QueuesFit
  BY DEF IInv
<1> USE DEF clients
<1>1. CASE ServerStart \/ ServerExit
  BY <1>1 DEF ServerStart, ServerExit, QueuesFit
<1>2. CASE ServerPoll
  <2>1. server \in Queues /\ input[server] \in Seq(Message) /\ input[server] # <<>>
    BY <1>2, PollStep DEF ServerPoll, TypeOK
  <2>2. Len(Tail(input[server])) <= Len(input[server])
    BY <2>1
  <2>3. \A q \in Queues : Len(input'[q]) <= MaxMessages
    <3> SUFFICES ASSUME NEW q \in Queues PROVE Len(input'[q]) <= MaxMessages
      OBVIOUS
    <3>1. Len(input[q]) \in Nat /\ Len(Tail(input[server])) \in Nat
      BY <2>1 DEF TypeOK
    <3>2. input'[q] = IF q = server THEN Tail(input[server]) ELSE input[q]
      BY <1>2, <2>1 DEF ServerPoll, TypeOK
    <3> QED BY <2>1, <2>2, <3>1, <3>2, MessagingAssumption DEF QueuesFit
  <2>4. IsFiniteSet(pending')
    BY <1>2, FS_AddElement DEF ServerPoll, QueuesFit
  <2> QED BY <2>3, <2>4 DEF QueuesFit
<1>3. CASE ServerCrash
  BY <1>3, FS_EmptySet DEF ServerCrash, QueuesFit
<1>4. ASSUME NEW m \in pending, ServerDone(m) \/ ServerGivesUp(m)
      PROVE  QueuesFit'
  BY <1>4, FS_RemoveElement DEF ServerDone, ServerGivesUp, QueuesFit
<1>5. ASSUME NEW c \in Clients,
             ClientStart(c) \/ ClientReceive(c) \/ ClientExit(c) \/ ClientKilled(c)
      PROVE  QueuesFit'
  BY <1>5 DEF ClientStart, ClientReceive, ClientExit, ClientKilled, ClientOff, QueuesFit
<1>6. ASSUME NEW c \in Clients, ClientSend(c)
      PROVE  QueuesFit'
  <2>1. PICK m \in Message : input' = [input EXCEPT ![to_srv[c]] = Sent(input[to_srv[c]], m)]
    BY <1>6, SendsLine
  <2>2. to_srv[c] \in Queues /\ input[to_srv[c]] \in Seq(Message)
    BY <1>6, SendsLine DEF TypeOK
  <2>3. Len(Sent(input[to_srv[c]], m)) <= MaxMessages
    BY <2>2, SentLength DEF QueuesFit
  <2>4. \A q \in Queues : Len(input'[q]) <= MaxMessages
    BY <2>1, <2>2, <2>3 DEF TypeOK, QueuesFit
  <2> QED BY <1>6, <2>4 DEF ClientSend, QueuesFit
<1>7. CASE UNCHANGED vars
  BY <1>7 DEF vars, QueuesFit
<1> QED BY <1>1, <1>2, <1>3, <1>4, <1>5, <1>6, <1>7 DEF Next

(***************************************************************************)
(* As long as one client alone has sent lines, and none was killed while   *)
(* it waited, there is at most one line or response on its way, through    *)
(* crashes and restarts of the server.                                     *)
(***************************************************************************)
THEOREM MessagingInvariant == Spec => []IInv
<1>1. IInv /\ [Next]_vars => Undisturbed'
  BY OneAtATimeStep DEF Undisturbed
<1>2. IInv /\ [Next]_vars => IInv'
  BY <1>1, TypeStep, ConnectedStep, QueuesFitStep DEF IInv
<1> QED BY <1>2, InitEstablishesIInv, PTL DEF Spec

(***************************************************************************)
(* So every response it prints is to the line it has just sent.            *)
(***************************************************************************)
THEOREM ResponsesAreOwn == Spec => OwnAnswer
<1> DEFINE P == \A c \in Clients :
                  killed = 0 /\ Sole(c) /\ ClientReceive(c) => ~ retry[c] /\ Head(output) = Line(c)
<1>1. IInv => P
  <2> SUFFICES ASSUME IInv, NEW c \in Clients, killed = 0, Sole(c), ClientReceive(c)
               PROVE  ~ retry[c] /\ Head(output) = Line(c)
    OBVIOUS
  <2>1. ~ retry[c] /\ output = <<Line(c)>>
    BY DEF IInv, Undisturbed, OneAtATime, ClientReceive
  <2> QED BY <2>1
<1>2. IInv /\ [Next]_vars => [P]_vars
  BY <1>1
<1>3. Spec => [][P]_vars
  BY <1>2, MessagingInvariant, PTL DEF Spec
<1> QED BY <1>3 DEF OwnAnswer

-----------------------------------------------------------------------------
(***************************************************************************)
(* Counting what is on its way.                                            *)
(***************************************************************************)
LEMMA PlacesFinite ==
  ASSUME NEW queues
  PROVE  IsFiniteSet(Places(queues)) /\ Cardinality(Places(queues)) \in Nat
<1>1. IsFiniteSet(Queues \X (1 .. MaxMessages))
  <2>1. 1 \in Int /\ MaxQueues \in Int /\ MaxMessages \in Int
    BY MessagingAssumption
  <2>2. IsFiniteSet(Queues) /\ IsFiniteSet(1 .. MaxMessages)
    BY <2>1, FS_Interval DEF Queues
  <2> QED BY <2>2, FS_Product
<1>2. Places(queues) \subseteq Queues \X (1 .. MaxMessages)
  BY DEF Places
<1>3. IsFiniteSet(Places(queues))
  BY <1>1, <1>2, FS_Subset
<1> QED BY <1>3, FS_CardinalityType

LEMMA WaitingFinite == IsFiniteSet(Waiting) /\ Cardinality(Waiting) \in Nat
<1>1. Waiting \subseteq Clients
  BY DEF Waiting
<1> QED BY <1>1, FS_Subset, FS_CardinalityType, MessagingAssumption

\* A message that is sent takes one place more.
LEMMA PlacesSent ==
  ASSUME NEW queues \in [Queues -> Seq(Message)], NEW q \in Queues, NEW m \in Message,
         ~ Full(queues[q])
  PROVE  Cardinality(Places([queues EXCEPT ![q] = Sent(queues[q], m)])) <= Cardinality(Places(queues)) + 1
<1> DEFINE after == [queues EXCEPT ![q] = Sent(queues[q], m)]
           place == <<q, Len(queues[q]) + 1>>
<1>1. Len(after[q]) = Len(queues[q]) + 1
  BY SentLength
<1>2. \A r \in Queues : r # q => after[r] = queues[r]
  OBVIOUS
<1>3. \A r \in Queues : Len(queues[r]) \in Nat
  OBVIOUS
<1> HIDE DEF after
<1>4. Places(after) \subseteq Places(queues) \cup {place}
  <2> SUFFICES ASSUME NEW r \in Queues, NEW i \in 1 .. MaxMessages, i <= Len(after[r]),
                      ~ (i <= Len(queues[r]))
               PROVE  r = q /\ i = Len(queues[q]) + 1
    BY DEF Places
  <2> QED BY <1>1, <1>2, <1>3
<1>5. Cardinality(Places(queues) \cup {place}) <= Cardinality(Places(queues)) + 1
        /\ IsFiniteSet(Places(queues) \cup {place})
        /\ Cardinality(Places(queues) \cup {place}) \in Nat
  <2>1. /\ IsFiniteSet(Places(queues) \cup {place})
        /\ \/ Cardinality(Places(queues) \cup {place}) = Cardinality(Places(queues))
           \/ Cardinality(Places(queues) \cup {place}) = Cardinality(Places(queues)) + 1
    BY PlacesFinite, FS_AddElement
  <2> QED BY <2>1, PlacesFinite
<1>6. Cardinality(Places(after)) <= Cardinality(Places(queues) \cup {place})
  BY <1>4, <1>5, FS_Subset
<1>7. Cardinality(Places(after)) <= Cardinality(Places(queues)) + 1
  BY <1>5, <1>6, PlacesFinite
<1> QED BY <1>7 DEF after

\* A message that is taken leaves its queue's last place.
LEMMA PlacesTaken ==
  ASSUME NEW queues \in [Queues -> Seq(Message)], NEW q \in Queues,
         queues[q] # <<>>, Len(queues[q]) <= MaxMessages
  PROVE  Cardinality(Places([queues EXCEPT ![q] = Tail(queues[q])])) + 1 <= Cardinality(Places(queues))
<1> DEFINE after == [queues EXCEPT ![q] = Tail(queues[q])]
           place == <<q, Len(queues[q])>>
<1>1. queues[q] \in Seq(Message)
  OBVIOUS
<1>2. Len(after[q]) = Len(queues[q]) - 1 /\ Len(queues[q]) \in 1 .. MaxMessages
  BY <1>1, MessagingAssumption
<1>3. \A r \in Queues : r # q => after[r] = queues[r]
  OBVIOUS
<1> HIDE DEF after
<1>4. place \in Places(queues)
  BY <1>2 DEF Places
<1>5. Places(after) \subseteq Places(queues) \ {place}
  <2> SUFFICES ASSUME NEW r \in Queues, NEW i \in 1 .. MaxMessages, i <= Len(after[r])
               PROVE  i <= Len(queues[r]) /\ ~ (r = q /\ i = Len(queues[q]))
    BY DEF Places
  <2> QED BY <1>2, <1>3
<1>6. /\ Cardinality(Places(queues) \ {place}) = Cardinality(Places(queues)) - 1
      /\ IsFiniteSet(Places(queues) \ {place})
  BY <1>4, PlacesFinite, FS_RemoveElement
<1>7. Cardinality(Places(after)) <= Cardinality(Places(queues) \ {place})
  BY <1>5, <1>6, FS_Subset
<1>8. Cardinality(Places(after)) + 1 <= Cardinality(Places(queues))
  BY <1>6, <1>7, PlacesFinite
<1> QED BY <1>8 DEF after

LEMMA InitBounded == Init => OutstandingBounded
<1> SUFFICES ASSUME Init PROVE OutstandingBounded
  OBVIOUS
<1>1. \A q \in Queues : input[q] = <<>>
  BY DEF Init
<1>2. Places(input) = {}
  <2> SUFFICES ASSUME NEW q \in Queues, NEW i \in 1 .. MaxMessages PROVE ~ (i <= Len(input[q]))
    BY DEF Places
  <2>1. Len(input[q]) = 0
    BY <1>1
  <2> QED BY <2>1
<1>3. Cardinality(Places(input)) = 0 /\ Cardinality(pending) = 0 /\ Len(output) = 0 /\ killed = 0
  BY <1>2, FS_EmptySet DEF Init
<1> QED BY <1>3, WaitingFinite DEF OutstandingBounded

\* Steps that change none of what is counted.
LEMMA SameCount ==
  ASSUME OutstandingBounded, UNCHANGED <<input, pending, output, killed>>, Waiting' = Waiting
  PROVE  OutstandingBounded'
BY DEF OutstandingBounded, Places

LEMMA BoundedStep == IInv /\ OutstandingBounded /\ [Next]_vars => OutstandingBounded'
<1> SUFFICES ASSUME IInv, OutstandingBounded, [Next]_vars PROVE OutstandingBounded'
  OBVIOUS
<1> TypeOK /\ Connected /\ QueuesFit
  BY DEF IInv
<1> USE DEF clients
<1> DEFINE places == Cardinality(Places(input))
           todo == Cardinality(pending)
           waiting == Cardinality(Waiting)
<1>a. places \in Nat /\ todo \in Nat /\ waiting \in Nat /\ Len(output) \in Nat /\ killed \in Nat
  BY PlacesFinite, WaitingFinite, FS_CardinalityType DEF QueuesFit, TypeOK
<1>b. places + todo + Len(output) <= waiting + killed
  BY DEF OutstandingBounded
<1>1. CASE ServerStart \/ ServerExit
  <2>1. Waiting' = Waiting
    BY <1>1 DEF ServerStart, ServerExit, Waiting
  <2> QED BY <1>1, <2>1, SameCount DEF ServerStart, ServerExit
<1>2. CASE ServerPoll
  <2>1. server \in Queues /\ input[server] \in Seq(Message) /\ input[server] # <<>>
    BY <1>2, PollStep DEF ServerPoll, TypeOK
  <2>2. Head(input[server]) \in Message
    BY <2>1
  <2>3. Cardinality(Places(input')) + 1 <= places
    BY <1>2, <2>1, PlacesTaken DEF ServerPoll, TypeOK, QueuesFit
  <2>4. Waiting' = Waiting /\ killed' = killed
    BY <1>2 DEF ServerPoll, Waiting
  <2>5. Cardinality(Places(input')) \in Nat
    BY PlacesFinite
  <2>6. CASE output' \in Responded(output, Head(input[server])) /\ pending' = pending
    <3>1. Len(output') <= Len(output) + 1 /\ Len(output') \in Nat
      <4>1. output \in Seq(Message)
        BY DEF TypeOK
      <4> QED BY <2>2, <2>6, <4>1, RespondedLength
    <3>2. Cardinality(Places(input')) + todo + Len(output') <= waiting + killed
      BY <1>a, <1>b, <2>3, <2>5, <3>1
    <3> QED BY <2>4, <2>6, <3>2 DEF OutstandingBounded, Places
  <2>7. CASE pending' = pending \cup {Head(input[server])} /\ output' = output
    <3>1. Cardinality(pending') <= todo + 1 /\ Cardinality(pending') \in Nat
      <4>1. Cardinality(pending') = todo \/ Cardinality(pending') = todo + 1
        BY <2>7, FS_AddElement DEF QueuesFit
      <4> QED BY <1>a, <4>1
    <3>2. Cardinality(Places(input')) + Cardinality(pending') + Len(output) <= waiting + killed
      BY <1>a, <1>b, <2>3, <2>5, <3>1
    <3> QED BY <2>4, <2>7, <3>2 DEF OutstandingBounded, Places
  <2> QED BY <1>2, <2>6, <2>7 DEF ServerPoll
<1>3. CASE ServerCrash
  <2>1. pending' = {} /\ UNCHANGED <<input, output, killed>> /\ Waiting' = Waiting
    BY <1>3 DEF ServerCrash, Waiting
  <2>2. places + 0 + Len(output) <= waiting + killed
    BY <1>a, <1>b
  <2> QED BY <2>1, <2>2, FS_EmptySet DEF OutstandingBounded, Places
<1>4. ASSUME NEW m \in pending, ServerDone(m) \/ ServerGivesUp(m)
      PROVE  OutstandingBounded'
  <2>1. pending' = pending \ {m} /\ UNCHANGED <<input, killed>> /\ Waiting' = Waiting
    BY <1>4 DEF ServerDone, ServerGivesUp, Waiting
  <2>2. Cardinality(pending') = todo - 1
    BY <2>1, FS_RemoveElement DEF QueuesFit
  <2>3. Len(output') <= Len(output) + 1 /\ Len(output') \in Nat
    <3>1. m \in Message
      BY DEF TypeOK
    <3>2. output \in Seq(Message)
      BY DEF TypeOK
    <3>3. CASE ServerDone(m)
      BY <3>1, <3>2, <3>3, RespondedLength DEF ServerDone
    <3>4. CASE ServerGivesUp(m)
      BY <1>a, <3>4 DEF ServerGivesUp
    <3> QED BY <1>4, <3>3, <3>4
  <2>4. places + Cardinality(pending') + Len(output') <= waiting + killed
    BY <1>a, <1>b, <2>2, <2>3
  <2> QED BY <2>1, <2>4 DEF OutstandingBounded, Places
<1>5. ASSUME NEW c \in Clients, ClientStart(c) \/ ClientExit(c)
      PROVE  OutstandingBounded'
  <2>1. Waiting' = Waiting /\ UNCHANGED <<input, pending, output, killed>>
    BY <1>5 DEF ClientStart, ClientExit, ClientOff, Waiting, TypeOK
  <2> QED BY <2>1, SameCount
<1>6. ASSUME NEW c \in Clients, ClientSend(c)
      PROVE  OutstandingBounded'
  <2>1. PICK m \in Message : input' = [input EXCEPT ![to_srv[c]] = Sent(input[to_srv[c]], m)]
    BY <1>6, SendsLine
  <2>2. to_srv[c] \in Queues /\ input[to_srv[c]] \in Seq(Message) /\ input \in [Queues -> Seq(Message)]
    BY <1>6, SendsLine DEF TypeOK
  <2>3. UNCHANGED <<pending, output, killed>> /\ c \notin Waiting
    BY <1>6 DEF ClientSend, Waiting
  <2>4. CASE Full(input[to_srv[c]])
    <3>1. input' = input
      BY <2>1, <2>2, <2>4, SentLength
    <3>2. Waiting' = Waiting
      BY <1>6, <2>4 DEF ClientSend, Waiting, TypeOK
    <3> QED BY <2>3, <3>1, <3>2, SameCount
  <2>5. CASE ~ Full(input[to_srv[c]])
    <3>1. Cardinality(Places(input')) <= places + 1 /\ Cardinality(Places(input')) \in Nat
      BY <2>1, <2>2, <2>5, PlacesSent, PlacesFinite
    <3>2. Waiting' = Waiting \cup {c}
      BY <1>6, <2>5 DEF ClientSend, Waiting, TypeOK
    <3>3. Cardinality(Waiting') = waiting + 1
      BY <2>3, <3>2, WaitingFinite, FS_AddElement
    <3>4. Cardinality(Places(input')) + todo + Len(output) <= Cardinality(Waiting') + killed
      BY <1>a, <1>b, <3>1, <3>3
    <3> QED BY <2>3, <3>4 DEF OutstandingBounded, Places
  <2> QED BY <2>4, <2>5
<1>7. ASSUME NEW c \in Clients, ClientReceive(c)
      PROVE  OutstandingBounded'
  <2>1. Len(output') = Len(output) - 1
    <3>1. output \in Seq(Message) /\ output # <<>> /\ output' = Tail(output)
      BY <1>7 DEF ClientReceive, TypeOK
    <3> QED BY <3>1
  <2>2. Waiting' = Waiting \ {c} /\ UNCHANGED <<input, pending, killed>>
    BY <1>7 DEF ClientReceive, Waiting, TypeOK
  <2>3. Cardinality(Waiting') >= waiting - 1 /\ Cardinality(Waiting') \in Int
    BY <1>a, <2>2, WaitingFinite, FS_RemoveElement
  <2>4. places + todo + Len(output') <= Cardinality(Waiting') + killed
    BY <1>a, <1>b, <2>1, <2>3
  <2> QED BY <2>2, <2>4 DEF OutstandingBounded, Places
<1>8. ASSUME NEW c \in Clients, ClientKilled(c)
      PROVE  OutstandingBounded'
  <2>1. Waiting' = Waiting \ {c} /\ UNCHANGED <<input, pending, output>>
    BY <1>8 DEF ClientKilled, ClientOff, Waiting, TypeOK
  <2>2. Cardinality(Waiting') + killed' = waiting + killed
    <3>1. CASE retry[c]
      <4>1. c \notin Waiting /\ killed' = killed
        BY <1>8, <1>a, <3>1 DEF ClientKilled, Waiting
      <4>2. Waiting' = Waiting
        BY <2>1, <4>1
      <4> QED BY <4>1, <4>2
    <3>2. CASE ~ retry[c]
      <4>1. c \in Waiting /\ killed' = killed + 1
        BY <1>8, <3>2 DEF ClientKilled, Waiting
      <4>2. Cardinality(Waiting') = waiting - 1
        BY <2>1, <4>1, WaitingFinite, FS_RemoveElement
      <4> QED BY <1>a, <4>1, <4>2
    <3> QED BY <3>1, <3>2
  <2> QED BY <1>b, <2>1, <2>2 DEF OutstandingBounded, Places
<1>9. CASE UNCHANGED vars
  <2>1. Waiting' = Waiting
    BY <1>9 DEF vars, Waiting
  <2> QED BY <1>9, <2>1, SameCount DEF vars
<1> QED BY <1>1, <1>2, <1>3, <1>4, <1>5, <1>6, <1>7, <1>8, <1>9 DEF Next

(***************************************************************************)
(* However many clients mix up each other's responses, are killed, and     *)
(* whatever the server suffers: no more lines and responses are on their   *)
(* way than clients wait for or were killed waiting for; so a queue of     *)
(* that many places drops no response for want of room (message_queue.cpp, *)
(* a non-blocking mq_send whose result server.cpp does not look at).       *)
(***************************************************************************)
THEOREM ResponsesFit == Spec => []OutstandingBounded
<1> QED BY InitEstablishesIInv, InitBounded, MessagingInvariant, BoundedStep, PTL DEF Spec
=============================================================================
