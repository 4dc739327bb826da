------------------------------ MODULE Messaging -----------------------------
(***************************************************************************)
(* The plotter's Server (plotter/server.cpp) and plotter_client processes, *)
(* which exchange text over two POSIX message queues (mqueue).  A client   *)
(* sends a line and waits for a response; the server looks for a message   *)
(* once in every round of the main loop, and responds at once or when the  *)
(* move or homing it has started is over.  A response quotes the line that *)
(* it is to, and the queue refuses it if it is longer than a message may   *)
(* be.                                                                     *)
(*                                                                         *)
(* Neither queue knows who a message is from.  The input queue is unlinked *)
(* when the server exits, and lives on for the clients that have it open;  *)
(* the output queue is never removed.                                      *)
(***************************************************************************)
EXTENDS Integers, Sequences, FiniteSets, Functions

CONSTANTS
  Clients,      \* bound: client processes
  MaxMessages,  \* mq_maxmsg of both queues, scaled down
  MaxAsked,     \* bound: lines typed into one client
  MaxQueues,    \* bound: input queues created
  Long,         \* the lines whose response may be longer than mq_msgsize, 256 characters
  Faults        \* bound: what may go wrong, out of the four below

ASSUME MessagingAssumption ==
  /\ IsFiniteSet(Clients)
  /\ MaxMessages \in Nat \ {0}
  /\ MaxAsked \in Nat
  /\ MaxQueues \in Nat \ {0}
  /\ Long \subseteq [from : Clients, n : 1 .. MaxAsked]
  /\ Faults \subseteq {"exit",   \* "exit" is chosen on the plotter
                       "crash",  \* the plotter's process is killed
                       "kill",   \* a waiting client is killed
                       "ok"}     \* ok is pressed: a move is given up

VARIABLES
  name,      \* the queue "/ev3plotter_input" names; 0: none
  created,   \* input queues created so far
  input,     \* contents of every input queue
  output,    \* contents of "/ev3plotter_output"
  server,    \* Server::read_queue_; 0: the server is not running
  pending,   \* messages whose GoState or HomeState is alive
  client,    \* where every client is
  to_srv,    \* the queue every client sends to; 0: it is not running
  retry,     \* retry of every client
  asked,     \* ghost: numbers the lines of every client
  killed,    \* ghost: clients killed with a line on its way
  stopped    \* ghost: ok has made the server give up a move

vars == <<name, created, input, output, server, pending, client, to_srv, retry, asked, killed, stopped>>
clients == <<client, to_srv, retry, asked, killed, stopped>>

Queues == 1 .. MaxQueues
Message == [from : Clients, n : 1 .. MaxAsked]

Init ==
  /\ name = 0
  /\ created = 0
  /\ input = [q \in Queues |-> <<>>]
  /\ output = <<>>
  /\ server = 0
  /\ pending = {}
  /\ client = [c \in Clients |-> "off"]
  /\ to_srv = [c \in Clients |-> 0]
  /\ retry = [c \in Clients |-> FALSE]
  /\ asked = [c \in Clients |-> 0]
  /\ killed = 0
  /\ stopped = FALSE

(***************************************************************************)
(* mq_open with O_CREAT returns the queue of that name, or a new one.      *)
(***************************************************************************)
Opened == IF name # 0 THEN name ELSE created + 1

Open ==
  /\ Opened \in Queues
  /\ name' = Opened
  /\ created' = IF name # 0 THEN created ELSE created + 1

(***************************************************************************)
(* A non-blocking mq_send of a message that is not too long, as the lines  *)
(* of a client never are.  What the response to line m leaves in queue q:  *)
(* nobody looks at the result of the server's.                             *)
(***************************************************************************)
Full(q) == Len(q) >= MaxMessages
Sent(q, m) == IF Full(q) THEN q ELSE Append(q, m)
Responded(q, m) == {Sent(q, m)} \cup (IF m \in Long THEN {q} ELSE {})

-----------------------------------------------------------------------------
ServerStart ==
  /\ server = 0
  /\ Open
  /\ server' = Opened
  /\ UNCHANGED <<input, output, pending, clients>>


ServerPollTwoAnswers ==
  /\ server # 0
  /\ input[server] # <<>>
  /\ input' = [input EXCEPT ![server] = Tail(@)]
  /\ output' \in Responded(output, Head(input[server]))
  /\ pending' = pending \cup {Head(input[server])}
  /\ UNCHANGED <<name, created, server, clients>>

(***************************************************************************)
(* Server::handle_events takes one message: its buffer then has the size   *)
(* of that message, and mq_receive refuses it.  What cannot be parsed or   *)
(* carried out, units and positioning are answered by the handler; a       *)
(* homing, and a move once homed, when they are over.                      *)
(***************************************************************************)
ServerPoll ==
  /\ server # 0
  /\ input[server] # <<>>
  /\ input' = [input EXCEPT ![server] = Tail(@)]
  /\ \/ output' \in Responded(output, Head(input[server])) /\ UNCHANGED pending
     \/ pending' = pending \cup {Head(input[server])} /\ UNCHANGED output
  /\ UNCHANGED <<name, created, server, clients>>

(***************************************************************************)
(* A move or a homing is over: its done_ sends the response.               *)
(***************************************************************************)
ServerDone(m) ==
  /\ m \in pending
  /\ pending' = pending \ {m}
  /\ output' \in Responded(output, m)
  /\ UNCHANGED <<name, created, input, server, clients>>

(***************************************************************************)
(* GoState::step sees ok pressed, and returns without a word.              *)
(***************************************************************************)
ServerGivesUp(m) ==
  /\ "ok" \in Faults
  /\ m \in pending
  /\ pending' = pending \ {m}
  /\ stopped' = TRUE
  /\ UNCHANGED <<name, created, input, output, server, client, to_srv, retry, asked, killed>>

(***************************************************************************)
(* main() returns when no task is left, and its Server unlinks the name of *)
(* the input queue.  A process that is killed unlinks nothing.             *)
(***************************************************************************)
ServerExit ==
  /\ "exit" \in Faults
  /\ server # 0
  /\ pending = {}
  /\ server' = 0
  /\ name' = 0
  /\ UNCHANGED <<created, input, output, pending, clients>>

ServerCrash ==
  /\ "crash" \in Faults
  /\ server # 0
  /\ server' = 0
  /\ pending' = {}
  /\ UNCHANGED <<name, created, input, output, clients>>

-----------------------------------------------------------------------------
ClientStart(c) ==
  /\ client[c] = "off"
  /\ Open
  /\ to_srv' = [to_srv EXCEPT ![c] = Opened]
  /\ client' = [client EXCEPT ![c] = "ready"]
  /\ UNCHANGED <<input, output, server, pending, retry, asked, killed, stopped>>

\* Mutant of ClientSend: the response is not waited for.
ClientSendNoWait(c) ==
  LET n == IF retry[c] THEN asked[c] ELSE asked[c] + 1
      queue == input[to_srv[c]]
  IN
  /\ client[c] = "ready"
  /\ n <= MaxAsked
  /\ input' = [input EXCEPT ![to_srv[c]] = Sent(queue, [from |-> c, n |-> n])]
  /\ retry' = [retry EXCEPT ![c] = Full(queue)]
  /\ asked' = [asked EXCEPT ![c] = n]
  /\ \E next \in {"ready", "waiting"} : client' = [client EXCEPT ![c] = next]
  /\ UNCHANGED <<name, created, output, server, pending, to_srv, killed, stopped>>

(***************************************************************************)
(* A line is read, or kept from a send that found the queue full, and sent.*)
(* Either way the client then waits for a response.                        *)
(***************************************************************************)
ClientSend(c) ==
  LET n == IF retry[c] THEN asked[c] ELSE asked[c] + 1
      queue == input[to_srv[c]]
  IN
  /\ client[c] = "ready"
  /\ n <= MaxAsked
  /\ input' = [input EXCEPT ![to_srv[c]] = Sent(queue, [from |-> c, n |-> n])]
  /\ retry' = [retry EXCEPT ![c] = Full(queue)]
  /\ asked' = [asked EXCEPT ![c] = n]
  /\ client' = [client EXCEPT ![c] = "waiting"]
  /\ UNCHANGED <<name, created, output, server, pending, to_srv, killed, stopped>>

ClientReceive(c) ==
  /\ client[c] = "waiting"
  /\ output # <<>>
  /\ output' = Tail(output)
  /\ client' = [client EXCEPT ![c] = "ready"]
  /\ UNCHANGED <<name, created, input, server, pending, to_srv, retry, asked, killed, stopped>>

(***************************************************************************)
(* The end of stdin, looked for only when there is nothing to retry; and   *)
(* the only way out of the wait for a response.                            *)
(***************************************************************************)
ClientOff(c) ==
  /\ client' = [client EXCEPT ![c] = "off"]
  /\ to_srv' = [to_srv EXCEPT ![c] = 0]
  /\ retry' = [retry EXCEPT ![c] = FALSE]
  /\ UNCHANGED <<name, created, input, output, server, pending, asked, stopped>>

ClientExit(c) ==
  /\ client[c] = "ready"
  /\ ~ retry[c]
  /\ ClientOff(c)
  /\ UNCHANGED killed

ClientKilled(c) ==
  /\ "kill" \in Faults
  /\ client[c] = "waiting"
  /\ ClientOff(c)
  /\ killed' = killed + (IF retry[c] THEN 0 ELSE 1)

Next ==
  \/ ServerStart \/ ServerPoll \/ ServerExit \/ ServerCrash
  \/ \E m \in pending : ServerDone(m) \/ ServerGivesUp(m)
  \/ \E c \in Clients :
       \/ ClientStart(c) \/ ClientSend(c) \/ ClientReceive(c)
       \/ ClientExit(c) \/ ClientKilled(c)

Spec == Init /\ [][Next]_vars

(***************************************************************************)
(* The plotter is switched on and polls; a client that has a line to send  *)
(* again sends it, and one that waits polls.  Nothing is said of moves and *)
(* homings: not all of them end.                                           *)
(***************************************************************************)
FairSpec ==
  /\ Spec
  /\ WF_vars(ServerStart) /\ WF_vars(ServerPoll)
  /\ \A c \in Clients : WF_vars(ClientReceive(c)) /\ WF_vars(retry[c] /\ ClientSend(c))
-----------------------------------------------------------------------------
TypeOK ==
  /\ name \in 0 .. MaxQueues
  /\ created \in 0 .. MaxQueues
  /\ input \in [Queues -> Seq(Message)]
  /\ output \in Seq(Message)
  /\ server \in 0 .. MaxQueues
  /\ pending \subseteq Message
  /\ client \in [Clients -> {"off", "ready", "waiting"}]
  /\ to_srv \in [Clients -> 0 .. MaxQueues]
  /\ retry \in [Clients -> BOOLEAN]
  /\ asked \in [Clients -> 0 .. MaxAsked]
  /\ killed \in Nat
  /\ stopped \in BOOLEAN

\* The line client c has read last.
Line(c) == [from |-> c, n |-> asked[c]]

\* Only client c has sent anything so far.
Sole(c) == \A d \in Clients \ {c} : asked[d] = 0

(***************************************************************************)
(* The response a client prints is to the line it has just sent, whatever  *)
(* the server does or suffers, as long as no other client has sent a line  *)
(* and none was killed: it never shows an earlier line's.                  *)
(***************************************************************************)
OwnAnswer ==
  [][\A c \in Clients : killed = 0 /\ Sole(c) /\ ClientReceive(c) =>
       ~ retry[c] /\ Head(output) = Line(c)]_vars

(***************************************************************************)
(* Why: with one client that waits, all there is of it is one line or its  *)
(* response, in one place, and only while it waits.                        *)
(***************************************************************************)
Inside(q) == q \in Queues /\ input[q] # <<>>

OneAtATime(c) ==
  /\ ~ retry[c]
  /\ \A q \in Queues : input[q] \in {<<>>, <<Line(c)>>}
  /\ pending \subseteq {Line(c)}
  /\ output \in {<<>>, <<Line(c)>>}
  /\ client[c] # "waiting" => pending = {} /\ output = <<>> /\ \A q \in Queues : ~ Inside(q)
  /\ \A q \in Queues : Inside(q) =>
       pending = {} /\ output = <<>> /\ \A r \in Queues : Inside(r) => r = q
  /\ pending # {} => output = <<>>

\* A client has opened its queue, and has sent what it sends again or waits for.
Connected ==
  \A c \in Clients :
    /\ client[c] # "off" => to_srv[c] # 0
    /\ retry[c] \/ client[c] = "waiting" => asked[c] # 0

Undisturbed == \A c \in Clients : killed = 0 /\ Sole(c) => OneAtATime(c)

\* No input queue grows beyond its size.
QueuesFit == IsFiniteSet(pending) /\ \A q \in Queues : Len(input[q]) <= MaxMessages

IInv == TypeOK /\ Connected /\ Undisturbed /\ QueuesFit

(***************************************************************************)
(* There is never more on its way than there are clients waiting for it    *)
(* and clients killed while they waited, however they mix up responses: a  *)
(* queue of that many places drops no response for want of room.           *)
(***************************************************************************)
Places(queues) == {e \in Queues \X (1 .. MaxMessages) : e[2] <= Len(queues[e[1]])}
Waiting == {c \in Clients : client[c] = "waiting" /\ ~ retry[c]}

OutstandingBounded ==
  Cardinality(Places(input)) + Cardinality(pending) + Len(output) <= Cardinality(Waiting) + killed

(***************************************************************************)
(* However often the plotter has crashed or exited before: a client that   *)
(* has it for itself, and whose line is in the queue the server reads,     *)
(* gets a response, unless the server ends again or gives up a move, the   *)
(* response may be too long, or the line starts a move or a homing that    *)
(* never ends.  In these cases, and if its line is in a queue without a    *)
(* name or was lost in a crash, the client waits for ever, or until it     *)
(* takes another one's response.                                           *)
(***************************************************************************)
Queued(c) == server # 0 /\ Line(c) \in Range(input[server])

=============================================================================
