----------------------------- MODULE WsGateway ------------------------------
(***************************************************************************)
(* The WebSocket gateway of ice_api: a handler per socket puts what its    *)
(* client sends into one queue, and one background task sends each message *)
(* to all sockets.  All of them run on one event loop and change hands at  *)
(* an await; an action is the code between two of them.                    *)
(*                                                                         *)
(* The task iterates over the set _clients itself.  CPython refuses to go  *)
(* on when the set has another size than at the start, and when it changed *)
(* but has the same size, what is still visited depends on its hash table. *)
(***************************************************************************)
EXTENDS Naturals, Sequences, FiniteSets

CONSTANTS
  Sockets,     \* the WebSocket objects
  Nobody,      \* no socket
  MaxMessages  \* bound: how many valid messages the clients send

ASSUME GatewayAssumption ==
  /\ IsFiniteSet(Sockets)
  /\ Nobody \notin Sockets
  /\ MaxMessages \in Nat

VARIABLES
  handler,    \* of each socket: none yet, open, closing (peer left), over
  clients,    \* _clients
  queue,      \* _broadcast_q; the k-th valid message is the number k
  worker,     \* aio_bg_task and the local variables of its loop
  accepted,   \* how many messages were put into the queue
  popped,     \* how many the task has taken
  joined,     \* history: the value of popped when the socket was added
  received,   \* what was sent to each socket
  disturbed   \* history: sockets present when _clients changed in a broadcast

vars == <<handler, clients, queue, worker, accepted, popped, joined, received, disturbed>>

NoTask == [state |-> "none", msg |-> 0, to |-> Nobody, todo |-> {}, size |-> 0, failed |-> {}]
Waiting == [NoTask EXCEPT !.state = "waiting"]
Dead == [NoTask EXCEPT !.state = "dead"]

Messages == 1..MaxMessages

Tasks == [state : {"none", "waiting", "sending", "dead"}, msg : 0..MaxMessages,
          to : Sockets \cup {Nobody}, todo : SUBSET Sockets, size : Nat,
          failed : SUBSET Sockets]

TypeOK ==
  /\ handler \in [Sockets -> {"none", "open", "closing", "over"}]
  /\ clients \subseteq {s \in Sockets : handler[s] \in {"open", "closing"}}
  /\ queue \in Seq(Messages)
  /\ worker \in Tasks
  /\ accepted \in 0..MaxMessages
  /\ popped \in 0..MaxMessages
  /\ joined \in [Sockets -> 0..MaxMessages]
  /\ received \in [Sockets -> Seq(Messages)]
  /\ disturbed \subseteq Sockets

Init ==
  /\ handler = [s \in Sockets |-> "none"]
  /\ clients = {}
  /\ queue = <<>>
  /\ worker = NoTask
  /\ accepted = 0
  /\ popped = 0
  /\ joined = [s \in Sockets |-> 0]
  /\ received = [s \in Sockets |-> <<>>]
  /\ disturbed = {}

Sending == worker.state = "sending"

-----------------------------------------------------------------------------
(* The handlers *)

(* _clients changes: in the middle of a broadcast any of the sockets may   *)
(* be visited (again) or skipped after that.                               *)
ClientsBecome(new) ==
  /\ clients' = new
  /\ IF Sending /\ new # clients
     THEN /\ disturbed' = disturbed \cup clients \cup new
          /\ \E rest \in SUBSET new : worker' = [worker EXCEPT !.todo = rest]
     ELSE UNCHANGED <<disturbed, worker>>

(* The socket is accepted; the first one starts the task. *)
Connect(s) ==
  /\ handler[s] = "none"
  /\ handler' = [handler EXCEPT ![s] = "open"]
  /\ joined' = [joined EXCEPT ![s] = popped]
  /\ IF worker.state = "none"
     THEN worker' = Waiting /\ clients' = clients \cup {s} /\ UNCHANGED disturbed
     ELSE ClientsBecome(clients \cup {s})
  /\ UNCHANGED <<queue, accepted, popped, received>>

(* A wrong token: the handler returns before the socket is added. *)
Refuse(s) ==
  /\ handler[s] = "none"
  /\ handler' = [handler EXCEPT ![s] = "over"]
  /\ UNCHANGED <<clients, queue, worker, accepted, popped, joined, received, disturbed>>

(* Mutant: the newest message first. *)
SubmitInFront(s) ==
  /\ handler[s] \in {"open", "closing"}
  /\ accepted < MaxMessages
  /\ accepted' = accepted + 1
  /\ queue' = <<accepted'>> \o queue
  /\ UNCHANGED <<handler, clients, worker, popped, joined, received, disturbed>>

(* A valid message, perhaps one sent before the peer left; an invalid one  *)
(* is only answered with an error.                                         *)
Submit(s) ==
  /\ handler[s] \in {"open", "closing"}
  /\ accepted < MaxMessages
  /\ accepted' = accepted + 1
  /\ queue' = Append(queue, accepted')
  /\ UNCHANGED <<handler, clients, worker, popped, joined, received, disturbed>>

PeerLeaves(s) ==
  /\ handler[s] = "open"
  /\ handler' = [handler EXCEPT ![s] = "closing"]
  /\ UNCHANGED <<clients, queue, worker, accepted, popped, joined, received, disturbed>>

(* receive_text() or an error reply raises: the finally clause. *)
HandlerEnds(s) ==
  /\ handler[s] = "closing"
  /\ handler' = [handler EXCEPT ![s] = "over"]
  /\ ClientsBecome(clients \ {s})
  /\ UNCHANGED <<queue, accepted, popped, joined, received>>

-----------------------------------------------------------------------------
(* The background task *)

(* The next socket of the iteration, or the end of it, or the RuntimeError *)
(* that ends the task.  Sockets in _clients are always CONNECTED for the   *)
(* application, which never closes one.                                    *)
Advance(b) ==
  \/ /\ Cardinality(clients) # b.size
     /\ worker' = Dead
     /\ UNCHANGED clients
  \/ /\ Cardinality(clients) = b.size
     /\ b.todo = {}
     /\ worker' = Waiting
     /\ clients' = clients \ b.failed
  \/ /\ Cardinality(clients) = b.size
     /\ \E t \in b.todo : worker' = [b EXCEPT !.to = t, !.todo = @ \ {t}]
     /\ UNCHANGED clients

(* Mutant: the message stays in the queue until the next one comes. *)
Peek ==
  /\ worker.state = "waiting"
  /\ queue # <<>>
  /\ queue' = IF Len(queue) = 1 THEN queue ELSE Tail(queue)
  /\ popped' = popped
  /\ Advance([state |-> "sending", msg |-> Head(queue), to |-> Nobody, todo |-> clients,
              size |-> Cardinality(clients), failed |-> {}])
  /\ UNCHANGED <<handler, accepted, joined, received, disturbed>>

(* A message is taken; the first send is begun. *)
Pop ==
  /\ worker.state = "waiting"
  /\ queue # <<>>
  /\ queue' = Tail(queue)
  /\ popped' = popped + 1
  /\ Advance([state |-> "sending", msg |-> Head(queue), to |-> Nobody, todo |-> clients,
              size |-> Cardinality(clients), failed |-> {}])
  /\ UNCHANGED <<handler, accepted, joined, received, disturbed>>

SendOk ==
  /\ Sending
  /\ received' = [received EXCEPT ![worker.to] = Append(@, worker.msg)]
  /\ Advance(worker)
  /\ UNCHANGED <<handler, queue, accepted, popped, joined, disturbed>>

(* Mutant: the exception ends the broadcast. *)
SendFailsForAll ==
  /\ Sending
  /\ handler[worker.to] # "open"
  /\ Advance([worker EXCEPT !.failed = @ \cup {worker.to}, !.todo = {}])
  /\ UNCHANGED <<handler, queue, accepted, popped, joined, received, disturbed>>

(* Sending to a socket whose peer has left may raise. *)
SendFails ==
  /\ Sending
  /\ handler[worker.to] # "open"
  /\ Advance([worker EXCEPT !.failed = @ \cup {worker.to}])
  /\ UNCHANGED <<handler, queue, accepted, popped, joined, received, disturbed>>

Task == Pop \/ SendOk \/ SendFails

Next ==
  \/ \E s \in Sockets :
       Connect(s) \/ Refuse(s) \/ Submit(s) \/ PeerLeaves(s) \/ HandlerEnds(s)
  \/ Task

Spec == Init /\ [][Next]_vars

(* The event loop runs the task, a send returns, a handler learns that its *)
(* peer has left.                                                          *)
FairSpec == Spec /\ WF_vars(Task) /\ \A s \in Sockets : WF_vars(HandlerEnds(s))

-----------------------------------------------------------------------------
(* Properties *)

(* The messages after the a-th, up to the b-th. *)
After(a, b) == [k \in 1..(b - a) |-> a + k]

(* What has been accepted and not been taken waits in order. *)
Backlog ==
  /\ popped <= accepted
  /\ queue = After(popped, accepted)

(* Whom the task still has to send the current message to. *)
Pending == IF Sending THEN worker.todo \cup {worker.to} ELSE {}

(* A broadcast sends the newest message taken, and the set it goes through *)
(* is the one it began with as long as that leaves anybody undisturbed.    *)
Broadcast ==
  Sending =>
    /\ worker.msg = popped
    /\ popped > 0
    /\ worker.to \in {s \in Sockets : handler[s] # "none"}
    /\ worker.todo \subseteq clients
    /\ ~ (clients \subseteq disturbed) => Cardinality(clients) = worker.size

(* No client ever gets an older message after a newer one, however sockets *)
(* come and go.                                                            *)
InOrder ==
  \A s \in Sockets : \A i, j \in 1..Len(received[s]) :
    i <= j => received[s][i] <= received[s][j]

NothingFromTheFuture ==
  \A s \in Sockets :
    /\ joined[s] <= popped
    /\ \A i \in 1..Len(received[s]) : received[s][i] <= popped
    /\ handler[s] = "none" => received[s] = <<>>

(* What an undisturbed client has got in the middle of a broadcast. *)
SentSoFar ==
  \A s \in clients \ disturbed :
    /\ handler[s] = "open" =>
         received[s] = After(joined[s], IF s \in Pending THEN popped - 1 ELSE popped)
    /\ s \in Pending => joined[s] < popped
    /\ Sending => ~ (s = worker.to /\ s \in worker.todo)

(* The inductive invariant of the proofs. *)
GatewayInv ==
  TypeOK /\ Backlog /\ Broadcast /\ InOrder /\ NothingFromTheFuture /\ SentSoFar

(* Between broadcasts a client has got every message broadcast since it    *)
(* joined, once, unless sockets joined or left during one of them.  Other  *)
(* clients whose sends fail do not matter.                                 *)
DeliveredExactly ==
  ~ Sending =>
    \A s \in clients \ disturbed :
      handler[s] = "open" => received[s] = After(joined[s], popped)

(* What clients have sent is broadcast in the end, if the task lives.      *)
QueueDrains == queue # <<>> ~> (queue = <<>> \/ worker.state = "dead")
=============================================================================
