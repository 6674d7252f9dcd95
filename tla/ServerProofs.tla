---------------------------- MODULE ServerProofs ----------------------------
(***************************************************************************)
(* Proofs about the two halves of the API server that keep state between   *)
(* requests: McpRuns, for any runs, blueprints, readers and crashes, and   *)
(* WsGateway, for any finite number of sockets and any messages.           *)
(***************************************************************************)
EXTENDS McpRuns, WsGateway, SequenceTheorems, FiniteSetTheorems, TLAPS

-----------------------------------------------------------------------------
(* Runs *)

LEMMA RunsInit == ServerInit => RunsInv
<1> SUFFICES ASSUME ServerInit PROVE RunsInv
  OBVIOUS
<1>1. run \in [Runs -> RunState]
  BY RunsAssumption DEF ServerInit, RunState, Requests, Steps
<1>2. reader \in [Readers -> ReaderState]
  <2>1. \A s \in [step : {"idle"}, run : Runs, last : {0}] : s \in ReaderState
    BY DEF ReaderState
  <2>2. reader \in [Readers -> [step : {"idle"}, run : Runs, last : {0}]]
    BY DEF ServerInit
  <2> QED BY <2>1, <2>2
<1>3. ServerTypeOK
  <2>1. backend \in Backends /\ blueprints \subseteq Blueprints /\ hogged \in BOOLEAN
    BY DEF ServerInit
  <2>2. /\ stream \in [Runs -> Outcomes \cup {"none"}]
        /\ results \in [Runs -> Outcomes \cup {"none"}]
        /\ poller \in [Runs -> {"idle", "polling", "answered"}]
    BY DEF ServerInit
  <2>3. crashes \in 0..MaxCrashes
    BY RunsAssumption DEF ServerInit
  <2> QED BY <1>1, <1>2, <2>1, <2>2, <2>3 DEF ServerTypeOK
<1> QED
  BY <1>3, RunsAssumption DEF ServerInit, RunsInv, SameLife, EventHasResult, AckedIsComplete

(* The runs are left alone. *)
LEMMA OthersKeep ==
  ASSUME RunsInv, ServerTypeOK',
         stream' = stream, results' = results, run' = run, crashes' = crashes
  PROVE  RunsInv'
  BY DEF RunsInv, SameLife, EventHasResult, AckedIsComplete

LEMMA BystanderStep ==
  ASSUME RunsInv,
         \/ \E b \in Blueprints : CreateBlueprint(b)
         \/ \E r \in Runs : Poll(r)
         \/ \E q \in Readers : Follow(q) \/ Read(q) \/ Cut(q)
  PROVE  RunsInv'
<1>1. /\ stream' = stream /\ results' = results /\ run' = run /\ crashes' = crashes
      /\ backend' = backend
  BY DEF CreateBlueprint, Poll, Follow, Read, Cut
<1>2. blueprints' \subseteq Blueprints /\ hogged' \in BOOLEAN
  BY DEF CreateBlueprint, Poll, Follow, Read, Cut, RunsInv, ServerTypeOK
<1>3. poller' \in [Runs -> {"idle", "polling", "answered"}]
  BY DEF CreateBlueprint, Poll, Follow, Read, Cut, RunsInv, ServerTypeOK
<1>4. reader' \in [Readers -> ReaderState]
  <2> USE DEF RunsInv, ServerTypeOK
  <2>0. FirstId \in 0..1
    BY DEF FirstId
  <2>1. \A s \in ReaderState, to \in {"reading", "ended", "failed", "refused", "cut"} :
          /\ [s EXCEPT !.step = to] \in ReaderState
          /\ [s EXCEPT !.step = to, !.last = FirstId] \in ReaderState
    BY <2>0 DEF ReaderState
  <2>2. ASSUME NEW q \in Readers, Follow(q) PROVE reader' \in [Readers -> ReaderState]
    <3>1. CASE stream[reader[q].run] = "none"
      <4>1. reader' = [reader EXCEPT ![q] = [reader[q] EXCEPT !.step = "refused"]]
        BY <2>2, <3>1 DEF Follow
      <4> QED BY <2>1, <4>1
    <3>2. CASE stream[reader[q].run] # "none"
      <4>1. reader' = [reader EXCEPT ![q] = [reader[q] EXCEPT !.step = "reading"]]
        BY <2>2, <3>2 DEF Follow
      <4> QED BY <2>1, <4>1
    <3> QED BY <3>1, <3>2
  <2>3. ASSUME NEW q \in Readers, Read(q) PROVE reader' \in [Readers -> ReaderState]
    <3> DEFINE to == IF backend = "bytes" THEN "failed" ELSE "ended"
    <3>1. \/ reader' = reader
          \/ reader' = [reader EXCEPT ![q] = [reader[q] EXCEPT !.step = to, !.last = FirstId]]
      BY <2>3 DEF Read
    <3>2. reader[q] \in ReaderState
      OBVIOUS
    <3>3. [reader[q] EXCEPT !.step = to, !.last = FirstId] \in ReaderState
      BY <2>1, <3>2
    <3> QED BY <3>1, <3>3
  <2>4. ASSUME NEW q \in Readers, Cut(q) PROVE reader' \in [Readers -> ReaderState]
    <3>1. reader' = [reader EXCEPT ![q] = [reader[q] EXCEPT !.step = "cut"]]
      BY <2>4 DEF Cut
    <3> QED BY <2>1, <3>1
  <2> QED BY <2>2, <2>3, <2>4 DEF CreateBlueprint, Poll
<1> QED BY <1>1, <1>2, <1>3, <1>4, OthersKeep DEF RunsInv, ServerTypeOK

(* A step of start_run concerns its own run only. *)
LEMMA HandlerStep ==
  ASSUME RunsInv, NEW r \in Runs,
         Handler(r) \/ \E b \in Requests : Request(r, b)
  PROVE  RunsInv'
<1>1. /\ backend' = backend /\ blueprints' = blueprints /\ reader' = reader
      /\ hogged' = hogged /\ crashes' = crashes
      /\ \A o \in Runs \ {r} : /\ run'[o] = run[o] /\ stream'[o] = stream[o]
                               /\ results'[o] = results[o]
      /\ poller' \in [Runs -> {"idle", "polling", "answered"}]
  BY DEF Handler, Request, Fetched, Executed, Published, ClientLearns, RedisFails, RunGoes, RunsInv,
         ServerTypeOK
<1>2. /\ run' \in [Runs -> RunState]
      /\ stream' \in [Runs -> Outcomes \cup {"none"}]
      /\ results' \in [Runs -> Outcomes \cup {"none"}]
  <2> USE DEF RunsInv, ServerTypeOK, RunState, Steps
  <2>1. CASE \E b \in Requests : Request(r, b)
    BY <2>1 DEF Request
  <2>2. CASE Fetched(r)
    BY <2>2 DEF Fetched, RunGoes
  <2>3. CASE Executed(r)
    BY <2>3 DEF Executed, RunGoes
  <2>4. CASE Published(r)
    BY <2>4 DEF Published, RunGoes
  <2>5. CASE RedisFails(r)
    BY <2>5 DEF RedisFails, RunGoes
  <2> QED BY <2>1, <2>2, <2>3, <2>4, <2>5 DEF Handler
<1>3. ServerTypeOK'
  BY <1>1, <1>2 DEF RunsInv, ServerTypeOK
<1> DEFINE Sound(o) ==
      /\ run[o].life <= crashes
      /\ SameLife(o) /\ run[o].step \in {"publishing", "acked"} => results[o] # "none"
      /\ run[o].step \in {"none", "fetching", "executing", "publishing"} => stream[o] = "none"
      /\ run[o].step \in {"fetching", "executing", "publishing"} => SameLife(o)
      /\ run[o].step = "none" => results[o] = "none"
      /\ SameLife(o) /\ stream[o] # "none" => results[o] = stream[o]
      /\ SameLife(o) /\ run[o].step = "acked" => stream[o] # "none" /\ results[o] # "none"
<1>4. \A o \in Runs : Sound(o)
  BY DEF RunsInv, EventHasResult, AckedIsComplete
<1>5. Sound(r)'
  <2> USE <1>1, <1>4 DEF RunsInv, ServerTypeOK, RunState, SameLife, Steps, Outcomes
  <2>1. CASE \E b \in Requests : Request(r, b)
    BY <2>1 DEF Request
  <2>2. CASE Fetched(r)
    BY <2>2 DEF Fetched, RunGoes
  <2>3. CASE Executed(r)
    BY <2>3 DEF Executed, RunGoes
  <2>4. CASE Published(r)
    BY <2>4 DEF Published, RunGoes
  <2>5. CASE RedisFails(r)
    BY <2>5 DEF RedisFails, RunGoes
  <2> QED BY <2>1, <2>2, <2>3, <2>4, <2>5 DEF Handler
<1>6. \A o \in Runs : Sound(o)'
  BY <1>1, <1>4, <1>5 DEF SameLife
<1> QED BY <1>3, <1>6 DEF RunsInv, EventHasResult, AckedIsComplete

(* After a crash no run is of the new life of the server. *)
LEMMA CrashStep ==
  ASSUME RunsInv, Crash
  PROVE  RunsInv'
<1>1. crashes' = crashes + 1 /\ crashes \in Nat /\ crashes' \in 0..MaxCrashes
  BY RunsAssumption DEF Crash, RunsInv, ServerTypeOK
<1>2. /\ run' \in [Runs -> RunState]
      /\ reader' \in [Readers -> ReaderState]
  <2>1. \A s \in RunState : [s EXCEPT !.step = "error"] \in RunState
    BY DEF RunState, Steps
  <2>2. \A s \in ReaderState : [s EXCEPT !.step = "cut"] \in ReaderState
    BY DEF ReaderState
  <2> QED BY <2>1, <2>2 DEF Crash, RunsInv, ServerTypeOK
<1>3. /\ stream' \in [Runs -> Outcomes \cup {"none"}]
      /\ blueprints' \subseteq Blueprints
      /\ \A r \in Runs : run[r].step # "publishing" => stream'[r] \in {stream[r], "none"}
  <2>1. CASE OnStub
    BY <2>1 DEF Crash
  <2>2. CASE ~ OnStub
    <3>1. PICK sent \in SUBSET {r \in Runs : run[r].step = "publishing"} :
            stream' = [r \in Runs |-> IF r \in sent THEN results[r] ELSE stream[r]]
      BY <2>2 DEF Crash
    <3> QED BY <2>2, <3>1 DEF Crash, RunsInv, ServerTypeOK
  <2> QED BY <2>1, <2>2
<1>4. ServerTypeOK'
  BY <1>1, <1>2, <1>3 DEF Crash, RunsInv, ServerTypeOK
<1>5. ASSUME NEW r \in Runs
      PROVE  /\ run'[r].life <= crashes' /\ ~ SameLife(r)'
             /\ run'[r].step \notin {"fetching", "executing", "publishing"}
             /\ run'[r].step = "none" => stream'[r] = "none"
             /\ results'[r] = "none"
  <2>1. run'[r].life = run[r].life /\ run[r].life \in Nat
    BY DEF Crash, RunsInv, ServerTypeOK, RunState
  <2>2. /\ run'[r].step \notin {"fetching", "executing", "publishing"}
        /\ run'[r].step = "none" => run[r].step = "none"
    BY DEF Crash, RunsInv, ServerTypeOK, RunState
  <2> QED BY <1>1, <1>3, <2>1, <2>2 DEF Crash, RunsInv, SameLife
<1> QED BY <1>4, <1>5 DEF RunsInv, EventHasResult, AckedIsComplete

(* Results are stored before events are sent, and for good. *)
THEOREM RunsSafe == ServerSpec => []RunsInv
<1>1. ServerInit => RunsInv
  BY RunsInit
<1>2. RunsInv /\ [ServerNext]_serverVars => RunsInv'
  <2> SUFFICES ASSUME RunsInv, [ServerNext]_serverVars PROVE RunsInv'
    OBVIOUS
  <2>1. CASE ServerNext
    BY <2>1, BystanderStep, HandlerStep, CrashStep DEF ServerNext
  <2>2. CASE UNCHANGED serverVars
    BY <2>2, OthersKeep DEF serverVars, RunsInv, ServerTypeOK
  <2> QED BY <2>1, <2>2
<1> QED BY <1>1, <1>2, PTL DEF ServerSpec

(* Whoever sees the event of a run can fetch the result it speaks of. *)
THEOREM EventsHaveResults == ServerSpec => []EventHasResult
  BY RunsSafe, PTL DEF RunsInv

(* A client that learns the id of its run finds result and event there. *)
THEOREM AckedRunsComplete == ServerSpec => []AckedIsComplete
  BY RunsSafe, PTL DEF RunsInv

-----------------------------------------------------------------------------
(* The gateway *)

LEMMA AfterType ==
  ASSUME NEW a \in Nat, NEW b \in 0..MaxMessages, a <= b
  PROVE  After(a, b) \in Seq(Messages) /\ Len(After(a, b)) = b - a
<1>1. b - a \in Nat /\ \A k \in 1..(b - a) : a + k \in Messages
  BY GatewayAssumption DEF Messages
<1> QED BY <1>1 DEF After

LEMMA AfterNone == ASSUME NEW a \in Nat PROVE After(a, a) = <<>>
  BY DEF After

LEMMA AfterAppend ==
  ASSUME NEW a \in Nat, NEW b \in Nat, a <= b
  PROVE  Append(After(a, b), b + 1) = After(a, b + 1)
<1>1. b - a \in Nat /\ (b + 1) - a = (b - a) + 1
  OBVIOUS
<1>2. After(a, b) \in Seq(Nat) /\ Len(After(a, b)) = b - a
  BY <1>1 DEF After
<1>3. Append(After(a, b), b + 1) \in Seq(Nat) /\ After(a, b + 1) \in Seq(Nat)
  BY <1>1, <1>2 DEF After
<1>4. Len(Append(After(a, b), b + 1)) = Len(After(a, b + 1))
  BY <1>1, <1>2 DEF After
<1>5. \A i \in 1..((b - a) + 1) : Append(After(a, b), b + 1)[i] = After(a, b + 1)[i]
  BY <1>1, <1>2 DEF After
<1> QED BY <1>1, <1>3, <1>4, <1>5, SeqEqual DEF After

LEMMA AfterTail ==
  ASSUME NEW a \in Nat, NEW b \in Nat, a < b
  PROVE  /\ After(a, b) # <<>>
         /\ Head(After(a, b)) = a + 1
         /\ Tail(After(a, b)) = After(a + 1, b)
<1>1. /\ b - a \in Nat /\ b - a >= 1
      /\ b - (a + 1) = (b - a) - 1
  OBVIOUS
<1>2. After(a, b) \in Seq(Nat) /\ Len(After(a, b)) = b - a
  BY <1>1 DEF After
<1>3. After(a, b) # <<>> /\ Head(After(a, b)) = a + 1
  BY <1>1, <1>2 DEF After
<1>4. Tail(After(a, b)) \in Seq(Nat) /\ Len(Tail(After(a, b))) = (b - a) - 1
  BY <1>2, <1>3
<1>5. After(a + 1, b) \in Seq(Nat) /\ Len(After(a + 1, b)) = (b - a) - 1
  BY <1>1 DEF After
<1>6. \A i \in 1..((b - a) - 1) : Tail(After(a, b))[i] = After(a + 1, b)[i]
  BY <1>1, <1>2, <1>3 DEF After
<1> QED BY <1>3, <1>4, <1>5, <1>6, SeqEqual

LEMMA TaskTypes == NoTask \in Tasks /\ Waiting \in Tasks /\ Dead \in Tasks
  BY GatewayAssumption DEF NoTask, Waiting, Dead, Tasks

LEMMA InvInit == Init => GatewayInv
<1> SUFFICES ASSUME Init PROVE GatewayInv
  OBVIOUS
<1>1. TypeOK
  BY GatewayAssumption, TaskTypes DEF Init, TypeOK, Messages
<1>2. Backlog
  BY AfterNone DEF Init, Backlog
<1>3. ~ Sending
  BY DEF Init, Sending, NoTask
<1>4. Broadcast /\ InOrder /\ NothingFromTheFuture /\ SentSoFar
  BY <1>3 DEF Init, Broadcast, InOrder, NothingFromTheFuture, SentSoFar
<1> QED BY <1>1, <1>2, <1>4 DEF GatewayInv

-----------------------------------------------------------------------------
(* The handlers *)

LEMMA FiniteClients == TypeOK => IsFiniteSet(clients) /\ Cardinality(clients) \in Nat
  BY GatewayAssumption, FS_Subset, FS_CardinalityType DEF TypeOK

(* A change of _clients in a broadcast disturbs all, another one nobody. *)
LEMMA ClientsChange ==
  ASSUME GatewayInv, NEW new \in SUBSET {s \in Sockets : handler'[s] \in {"open", "closing"}},
         ClientsBecome(new),
         popped' = popped,
         \A t \in Sockets : handler[t] # "none" => handler'[t] # "none"
  PROVE  /\ worker' \in Tasks
         /\ disturbed' \subseteq Sockets
         /\ Broadcast'
         /\ \/ clients' \subseteq disturbed'
            \/ worker' = worker /\ disturbed' = disturbed /\ ~ Sending
            \/ worker' = worker /\ disturbed' = disturbed /\ clients' = clients
<1> USE DEF GatewayInv, TypeOK, Tasks, Broadcast, Sending
<1>1. CASE Sending /\ new # clients
  <2>1. PICK rest \in SUBSET new : worker' = [worker EXCEPT !.todo = rest]
    BY <1>1 DEF ClientsBecome
  <2>2. clients' = new /\ disturbed' = disturbed \cup clients \cup new
    BY <1>1 DEF ClientsBecome
  <2> QED BY <1>1, <2>1, <2>2
<1>2. CASE ~ (Sending /\ new # clients)
  <2>1. clients' = new /\ worker' = worker /\ disturbed' = disturbed
    BY <1>2 DEF ClientsBecome
  <2> QED BY <1>2, <2>1
<1> QED BY <1>1, <1>2

LEMMA ConnectStep ==
  ASSUME GatewayInv, NEW s \in Sockets, Connect(s)
  PROVE  GatewayInv'
<1> DEFINE new == clients \cup {s}
<1>1. /\ handler' = [handler EXCEPT ![s] = "open"]
      /\ joined' = [joined EXCEPT ![s] = popped]
      /\ UNCHANGED <<queue, accepted, popped, received>>
      /\ clients' = new
      /\ handler[s] = "none" /\ s \notin clients
      /\ received[s] = <<>>
  BY DEF Connect, ClientsBecome, GatewayInv, TypeOK, NothingFromTheFuture
<1>2. new \in SUBSET {t \in Sockets : handler'[t] \in {"open", "closing"}}
  BY <1>1 DEF GatewayInv, TypeOK
<1>3. \A t \in Sockets : handler[t] # "none" => handler'[t] # "none"
  BY <1>1 DEF GatewayInv, TypeOK
<1>4. Backlog' /\ InOrder' /\ NothingFromTheFuture'
  BY <1>1 DEF GatewayInv, TypeOK, Backlog, InOrder, NothingFromTheFuture, After
<1>5. ASSUME ~ Sending, ~ Sending', disturbed' = disturbed
      PROVE  SentSoFar'
  <2>1. Pending = {} /\ Pending' = {}
    BY <1>5 DEF Pending
  <2>2. ASSUME NEW t \in clients \ disturbed, handler'[t] = "open"
        PROVE  received'[t] = After(joined'[t], popped')
    BY <1>1, <2>1, <2>2 DEF GatewayInv, TypeOK, SentSoFar
  <2>3. received'[s] = After(joined'[s], popped')
    BY <1>1, AfterNone DEF GatewayInv, TypeOK
  <2>4. \A t \in clients' \ disturbed' :
          handler'[t] = "open" => received'[t] = After(joined'[t], popped')
    BY <1>1, <1>5, <2>2, <2>3
  <2> QED BY <1>5, <2>1, <2>4 DEF SentSoFar, After
<1>6. CASE worker.state = "none"
  <2>1. worker' = Waiting /\ disturbed' = disturbed
    BY <1>6 DEF Connect
  <2>2. ~ Sending /\ ~ Sending'
    BY <1>6, <2>1 DEF Sending, Waiting, NoTask
  <2>3. TypeOK'
    BY <1>1, <1>2, <2>1, TaskTypes DEF GatewayInv, TypeOK
  <2> QED BY <1>4, <1>5, <2>1, <2>2, <2>3 DEF GatewayInv, Broadcast
<1>7. CASE worker.state # "none"
  <2>1. ClientsBecome(new)
    BY <1>7 DEF Connect
  <2>2. /\ worker' \in Tasks /\ disturbed' \subseteq Sockets
        /\ Broadcast'
        /\ \/ clients' \subseteq disturbed'
           \/ worker' = worker /\ disturbed' = disturbed /\ ~ Sending
    BY <1>1, <1>2, <1>3, <2>1, ClientsChange
  <2>3. TypeOK'
    BY <1>1, <1>2, <2>2 DEF GatewayInv, TypeOK
  <2>4. SentSoFar'
    <3>1. CASE clients' \subseteq disturbed'
      BY <3>1 DEF SentSoFar
    <3>2. CASE worker' = worker /\ disturbed' = disturbed /\ ~ Sending
      BY <1>5, <3>2 DEF Sending
    <3> QED BY <2>2, <3>1, <3>2
  <2> QED BY <1>4, <2>2, <2>3, <2>4 DEF GatewayInv
<1> QED BY <1>6, <1>7

LEMMA HandlerEndsStep ==
  ASSUME GatewayInv, NEW s \in Sockets, HandlerEnds(s)
  PROVE  GatewayInv'
<1> DEFINE new == clients \ {s}
<1>1. /\ handler' = [handler EXCEPT ![s] = "over"]
      /\ handler[s] = "closing"
      /\ UNCHANGED <<queue, accepted, popped, joined, received>>
      /\ clients' = new
      /\ ClientsBecome(new)
  BY DEF HandlerEnds, ClientsBecome
<1>2. new \in SUBSET {t \in Sockets : handler'[t] \in {"open", "closing"}}
  BY <1>1 DEF GatewayInv, TypeOK
<1>3. \A t \in Sockets : handler[t] # "none" => handler'[t] # "none"
  BY <1>1 DEF GatewayInv, TypeOK
<1>4. Backlog' /\ InOrder' /\ NothingFromTheFuture'
  BY <1>1 DEF GatewayInv, TypeOK, Backlog, InOrder, NothingFromTheFuture, After
<1>5. Broadcast' /\ TypeOK'
  BY <1>1, <1>2, <1>3, ClientsChange DEF GatewayInv, TypeOK
<1>6. CASE clients' \subseteq disturbed'
  BY <1>4, <1>5, <1>6 DEF SentSoFar, GatewayInv
<1>7. CASE worker' = worker /\ disturbed' = disturbed
  <2>1. SentSoFar'
    BY <1>1, <1>7 DEF GatewayInv, TypeOK, SentSoFar, Pending, Sending, After
  <2> QED BY <1>4, <1>5, <2>1 DEF GatewayInv
<1> QED BY <1>1, <1>2, <1>3, <1>6, <1>7, ClientsChange

(* The other handler steps leave the task and its set alone. *)
LEMMA RefuseLeaveStep ==
  ASSUME GatewayInv, NEW s \in Sockets, Refuse(s) \/ PeerLeaves(s)
  PROVE  GatewayInv'
<1>1. /\ clients' = clients /\ queue' = queue /\ worker' = worker
      /\ accepted' = accepted /\ popped' = popped /\ joined' = joined
      /\ received' = received /\ disturbed' = disturbed
  BY DEF Refuse, PeerLeaves
<1>2. /\ handler' \in [Sockets -> {"none", "open", "closing", "over"}]
      /\ clients \subseteq {t \in Sockets : handler'[t] \in {"open", "closing"}}
      /\ \A t \in Sockets : handler[t] # "none" => handler'[t] # "none"
      /\ \A t \in Sockets : handler'[t] = "open" => handler[t] = "open"
  BY DEF Refuse, PeerLeaves, GatewayInv, TypeOK
<1>3. TypeOK'
  BY <1>1, <1>2 DEF GatewayInv, TypeOK
<1>4. Backlog' /\ InOrder' /\ NothingFromTheFuture'
  BY <1>1, <1>2 DEF GatewayInv, Backlog, InOrder, NothingFromTheFuture, After
<1>5. Broadcast'
  BY <1>1, <1>2 DEF GatewayInv, TypeOK, Broadcast, Sending
<1>6. SentSoFar'
  BY <1>1, <1>2 DEF GatewayInv, TypeOK, SentSoFar, Pending, Sending, After
<1> QED BY <1>3, <1>4, <1>5, <1>6 DEF GatewayInv

LEMMA SubmitStep ==
  ASSUME GatewayInv, NEW s \in Sockets, Submit(s)
  PROVE  GatewayInv'
<1>1. /\ UNCHANGED <<handler, clients, worker, popped, joined, received, disturbed>>
      /\ accepted < MaxMessages /\ accepted' = accepted + 1
      /\ queue' = Append(queue, accepted + 1)
  BY DEF Submit
<1>2. accepted' \in Messages /\ accepted \in Nat /\ popped \in Nat
  BY <1>1, GatewayAssumption DEF GatewayInv, TypeOK, Messages
<1>3. TypeOK'
  BY <1>1, <1>2 DEF GatewayInv, TypeOK, Messages
<1>4. Backlog'
  <2>1. Append(After(popped, accepted), accepted + 1) = After(popped, accepted + 1)
    BY <1>2, AfterAppend DEF GatewayInv, Backlog
  <2> QED BY <1>1, <1>2, <2>1 DEF GatewayInv, Backlog, After
<1>5. Broadcast' /\ InOrder' /\ NothingFromTheFuture'
  BY <1>1 DEF GatewayInv, Broadcast, InOrder, NothingFromTheFuture, Sending
<1>6. SentSoFar'
  BY <1>1 DEF GatewayInv, SentSoFar, Pending, Sending, After
<1> QED BY <1>3, <1>4, <1>5, <1>6 DEF GatewayInv

-----------------------------------------------------------------------------
(* The background task *)

(* What the broadcast b, about to go on, has to be like. *)
Going(b) ==
  /\ b \in Tasks /\ b.state = "sending"
  /\ b.msg = popped' /\ popped' > 0
  /\ b.todo \subseteq clients
  /\ ~ (clients \subseteq disturbed) => Cardinality(clients) = b.size

(* Everybody but those still to come has got the message. *)
Reached(todo) ==
  \A s \in clients \ disturbed :
    /\ handler[s] = "open" =>
         received'[s] = After(joined[s], IF s \in todo THEN popped' - 1 ELSE popped')
    /\ s \in todo => joined[s] < popped'

LEMMA AdvanceKeeps ==
  ASSUME TypeOK, NEW b, Going(b), Reached(b.todo), Advance(b),
         handler' = handler, joined' = joined, disturbed' = disturbed
  PROVE  /\ worker' \in Tasks
         /\ clients' \subseteq clients
         /\ Broadcast'
         /\ SentSoFar'
<1>1. CASE Cardinality(clients) # b.size /\ worker' = Dead /\ clients' = clients
  <2>1. clients \subseteq disturbed /\ ~ Sending'
    BY <1>1 DEF Going, Sending, Dead, NoTask
  <2> QED BY <1>1, <2>1, TaskTypes DEF Broadcast, SentSoFar
<1>2. CASE b.todo = {} /\ worker' = Waiting /\ clients' = clients \ b.failed
  <2>1. ~ Sending' /\ Pending' = {}
    BY <1>2 DEF Sending, Pending, Waiting, NoTask
  <2>2. \A s \in clients' \ disturbed' :
          handler'[s] = "open" => received'[s] = After(joined'[s], popped')
    BY <1>2 DEF Reached
  <2>3. SentSoFar'
    BY <2>1, <2>2 DEF SentSoFar, After
  <2> QED BY <1>2, <2>1, <2>3, TaskTypes DEF Broadcast
<1>3. CASE /\ clients' = clients
           /\ \E t \in b.todo : worker' = [b EXCEPT !.to = t, !.todo = @ \ {t}]
  <2>1. PICK t \in b.todo : worker' = [b EXCEPT !.to = t, !.todo = @ \ {t}]
    BY <1>3
  <2>2. /\ worker'.state = "sending" /\ worker'.msg = popped' /\ worker'.size = b.size
        /\ worker'.to = t /\ worker'.todo = b.todo \ {t}
    BY <2>1 DEF Going, Tasks
  <2>3. t \in clients /\ t \in Sockets /\ handler[t] # "none"
    BY DEF Going, TypeOK
  <2>4. worker' \in Tasks
    BY <2>1, <2>3 DEF Going, Tasks
  <2>5. Broadcast'
    BY <1>3, <2>2, <2>3 DEF Going, Broadcast
  <2>6. Sending' /\ Pending' = b.todo
    BY <2>2 DEF Sending, Pending
  <2>7. SentSoFar'
    BY <1>3, <2>2, <2>6 DEF Reached, SentSoFar, After
  <2> QED BY <1>3, <2>4, <2>5, <2>7
<1> QED BY <1>1, <1>2, <1>3 DEF Advance

LEMMA PopStep ==
  ASSUME GatewayInv, Pop
  PROVE  GatewayInv'
<1> DEFINE b == [state |-> "sending", msg |-> Head(queue), to |-> Nobody, todo |-> clients,
                 size |-> Cardinality(clients), failed |-> {}]
<1>1. /\ popped \in Nat /\ accepted \in 0..MaxMessages /\ popped < accepted
      /\ popped' = popped + 1
      /\ Head(queue) = popped'
      /\ queue' = After(popped', accepted)
  <2>1. /\ popped \in Nat /\ accepted \in 0..MaxMessages /\ accepted \in Nat
        /\ popped <= accepted /\ queue = After(popped, accepted)
    BY GatewayAssumption DEF GatewayInv, TypeOK, Backlog
  <2>2. popped < accepted
    BY <2>1, AfterNone DEF Pop
  <2> QED BY <2>1, <2>2, AfterTail DEF Pop
<1>2. /\ handler' = handler /\ accepted' = accepted /\ joined' = joined
      /\ received' = received /\ disturbed' = disturbed
      /\ ~ Sending /\ Advance(b)
  BY DEF Pop, Sending
<1>3. Going(b)
  BY <1>1, FiniteClients, GatewayAssumption DEF GatewayInv, TypeOK, Going, Tasks
<1>4. Reached(b.todo)
  BY <1>1, <1>2 DEF GatewayInv, TypeOK, SentSoFar, NothingFromTheFuture, Pending, Reached, After
<1>5. worker' \in Tasks /\ clients' \subseteq clients /\ Broadcast' /\ SentSoFar'
  BY <1>2, <1>3, <1>4, AdvanceKeeps DEF GatewayInv
<1>6. TypeOK'
  <2>1. popped' \in Nat /\ popped' <= accepted /\ popped' \in 0..MaxMessages
    BY <1>1, GatewayAssumption
  <2>2. queue' \in Seq(Messages)
    BY <1>1, <2>1, AfterType
  <2> QED BY <1>2, <1>5, <2>1, <2>2 DEF GatewayInv, TypeOK
<1>7. Backlog'
  BY <1>1, <1>2 DEF Backlog
<1>8. InOrder' /\ NothingFromTheFuture'
  <2>1. InOrder'
    BY <1>2 DEF GatewayInv, InOrder
  <2>2. ASSUME NEW s \in Sockets
        PROVE  /\ joined[s] <= popped'
               /\ \A i \in 1..Len(received[s]) : received[s][i] <= popped'
    <3>1. joined[s] \in Nat /\ joined[s] <= popped
      BY GatewayAssumption DEF GatewayInv, TypeOK, NothingFromTheFuture
    <3>2. ASSUME NEW i \in 1..Len(received[s])
          PROVE  received[s][i] \in Nat /\ received[s][i] <= popped
      <4>1. received[s] \in Seq(Messages)
        BY DEF GatewayInv, TypeOK
      <4>2. received[s][i] \in Messages
        BY <4>1
      <4> QED BY <4>2 DEF GatewayInv, NothingFromTheFuture, Messages
    <3> QED BY <1>1, <3>1, <3>2
  <2> QED BY <1>2, <2>1, <2>2 DEF GatewayInv, NothingFromTheFuture
<1> QED BY <1>5, <1>6, <1>7, <1>8 DEF GatewayInv

LEMMA SendOkStep ==
  ASSUME GatewayInv, SendOk
  PROVE  GatewayInv'
<1>1. /\ handler' = handler /\ queue' = queue /\ accepted' = accepted /\ popped' = popped
      /\ joined' = joined /\ disturbed' = disturbed
      /\ received' = [received EXCEPT ![worker.to] = Append(@, popped)]
      /\ Sending /\ Advance(worker)
  BY DEF SendOk, GatewayInv, Broadcast
<1>2. /\ worker.to \in Sockets /\ handler[worker.to] # "none"
      /\ popped \in Messages /\ popped \in Nat
  BY <1>1 DEF GatewayInv, TypeOK, Broadcast, Messages
<1>3. Going(worker)
  BY <1>1 DEF GatewayInv, TypeOK, Broadcast, Going, Sending
<1>4. Reached(worker.todo)
  <2> SUFFICES ASSUME NEW s \in clients \ disturbed
               PROVE  /\ handler[s] = "open" =>
                           received'[s] = After(joined[s],
                             IF s \in worker.todo THEN popped - 1 ELSE popped)
                      /\ s \in worker.todo => joined[s] < popped
    BY <1>1 DEF Reached
  <2>1. CASE s = worker.to
    <3>1. s \notin worker.todo /\ s \in Pending /\ s \in Sockets
      BY <1>1, <2>1 DEF GatewayInv, TypeOK, SentSoFar, Pending
    <3>2. /\ joined[s] \in Nat /\ joined[s] <= popped - 1 /\ popped - 1 \in Nat
          /\ handler[s] = "open" => received[s] = After(joined[s], popped - 1)
      BY <1>2, <3>1 DEF GatewayInv, TypeOK, SentSoFar, Messages
    <3>3. Append(After(joined[s], popped - 1), popped) = After(joined[s], popped)
      BY <1>2, <3>2, AfterAppend, (popped - 1) + 1 = popped
    <3> QED BY <1>1, <1>2, <2>1, <3>1, <3>2, <3>3 DEF GatewayInv, TypeOK
  <2>2. CASE s # worker.to
    <3>1. received'[s] = received[s]
      BY <1>1, <1>2, <2>2 DEF GatewayInv, TypeOK
    <3>2. s \in Pending <=> s \in worker.todo
      BY <1>1, <2>2 DEF Pending
    <3> QED BY <3>1, <3>2 DEF GatewayInv, SentSoFar
  <2> QED BY <2>1, <2>2
<1>5. worker' \in Tasks /\ clients' \subseteq clients /\ Broadcast' /\ SentSoFar'
  BY <1>1, <1>3, <1>4, AdvanceKeeps DEF GatewayInv
<1>6. TypeOK'
  BY <1>1, <1>2, <1>5 DEF GatewayInv, TypeOK
<1>7. Backlog'
  BY <1>1 DEF GatewayInv, Backlog, After
<1>8. InOrder' /\ NothingFromTheFuture'
  <2> SUFFICES ASSUME NEW s \in Sockets
               PROVE  /\ \A i, j \in 1..Len(received'[s]) :
                            i <= j => received'[s][i] <= received'[s][j]
                      /\ joined[s] <= popped
                      /\ \A i \in 1..Len(received'[s]) : received'[s][i] <= popped
                      /\ handler[s] = "none" => received'[s] = <<>>
    BY <1>1 DEF InOrder, NothingFromTheFuture
  <2>1. /\ received[s] \in Seq(Messages)
        /\ joined[s] <= popped
        /\ \A i \in 1..Len(received[s]) : received[s][i] <= popped
        /\ \A i, j \in 1..Len(received[s]) : i <= j => received[s][i] <= received[s][j]
        /\ handler[s] = "none" => received[s] = <<>>
    BY DEF GatewayInv, TypeOK, InOrder, NothingFromTheFuture
  <2>2. CASE s = worker.to
    <3>1. received'[s] = Append(received[s], popped)
      BY <1>1, <1>2, <2>2 DEF GatewayInv, TypeOK
    <3> QED BY <1>2, <2>1, <2>2, <3>1 DEF Messages
  <2>3. CASE s # worker.to
    <3>1. received'[s] = received[s]
      BY <1>1, <1>2, <2>3 DEF GatewayInv, TypeOK
    <3> QED BY <2>1, <3>1
  <2> QED BY <2>2, <2>3
<1> QED BY <1>5, <1>6, <1>7, <1>8 DEF GatewayInv

LEMMA SendFailsStep ==
  ASSUME GatewayInv, SendFails
  PROVE  GatewayInv'
<1> DEFINE b == [worker EXCEPT !.failed = @ \cup {worker.to}]
<1>1. /\ handler' = handler /\ queue' = queue /\ accepted' = accepted /\ popped' = popped
      /\ joined' = joined /\ received' = received /\ disturbed' = disturbed
      /\ Sending /\ handler[worker.to] # "open" /\ Advance(b)
  BY DEF SendFails
<1>2. b \in Tasks /\ b.todo = worker.todo
  BY <1>1 DEF GatewayInv, TypeOK, Broadcast, Tasks
<1>3. Going(b)
  BY <1>1, <1>2 DEF GatewayInv, TypeOK, Broadcast, Going, Sending, Tasks
<1>4. Reached(b.todo)
  BY <1>1, <1>2 DEF GatewayInv, SentSoFar, Pending, Reached
<1>5. worker' \in Tasks /\ clients' \subseteq clients /\ Broadcast' /\ SentSoFar'
  BY <1>1, <1>3, <1>4, AdvanceKeeps DEF GatewayInv
<1>6. TypeOK'
  BY <1>1, <1>5 DEF GatewayInv, TypeOK
<1>7. Backlog' /\ InOrder' /\ NothingFromTheFuture'
  BY <1>1 DEF GatewayInv, Backlog, InOrder, NothingFromTheFuture, After
<1> QED BY <1>5, <1>6, <1>7 DEF GatewayInv

-----------------------------------------------------------------------------
(* The queue is in order, and the task has sent an undisturbed client just *)
(* what it should have, at every point of a broadcast.                     *)
THEOREM GatewaySafe == Spec => []GatewayInv
<1>1. Init => GatewayInv
  BY InvInit
<1>2. GatewayInv /\ [Next]_vars => GatewayInv'
  <2> SUFFICES ASSUME GatewayInv, [Next]_vars
               PROVE  GatewayInv'
    OBVIOUS
  <2>1. ASSUME NEW s \in Sockets,
               Connect(s) \/ Refuse(s) \/ Submit(s) \/ PeerLeaves(s) \/ HandlerEnds(s)
        PROVE  GatewayInv'
    BY <2>1, ConnectStep, RefuseLeaveStep, SubmitStep, HandlerEndsStep
  <2>2. CASE Task
    BY <2>2, PopStep, SendOkStep, SendFailsStep DEF Task
  <2>3. CASE UNCHANGED vars
    BY <2>3 DEF vars, GatewayInv, TypeOK, Backlog, Broadcast, InOrder, NothingFromTheFuture,
                SentSoFar, Pending, Sending, After
  <2> QED BY <2>1, <2>2, <2>3 DEF Next
<1> QED BY <1>1, <1>2, PTL DEF Spec

(* No client ever gets an older message after a newer one. *)
THEOREM NothingReordered == Spec => []InOrder
  BY GatewaySafe, PTL DEF GatewayInv

(* A client that nobody's coming or going disturbed has got every message  *)
(* broadcast since it joined, once.                                        *)
THEOREM NothingSkipped == Spec => []DeliveredExactly
<1>1. GatewayInv => DeliveredExactly
  BY DEF GatewayInv, SentSoFar, Pending, DeliveredExactly
<1> QED BY <1>1, GatewaySafe, PTL
=============================================================================
