------------------------------ MODULE McpRuns -------------------------------
(***************************************************************************)
(* The runs API of ice_api: blueprints and the event stream of each run    *)
(* are kept in Redis, results in the memory of the server.  start_run      *)
(* answers when the run is over; its emitter never reaches the workflow,   *)
(* so the terminal event is the only one of a stream.  Clients ask for     *)
(* results and follow streams at any time, Redis may fail, the server may  *)
(* be restarted.                                                           *)
(*                                                                         *)
(* Without the redis package a stub keeps the data in the server itself,   *)
(* gives the first event the id 0-0, and answers xread at once: a reader   *)
(* to whom it has nothing to say asks again without ever suspending.  The  *)
(* package answers with bytes, and the reader raises when it looks for     *)
(* data['event'], unless REDIS_URL asks for text.                          *)
(***************************************************************************)
EXTENDS Naturals

CONSTANTS
  Runs,        \* run ids
  Blueprints,  \* blueprint ids
  Inline,      \* the blueprint is part of the request
  Readers,     \* connections to the event endpoint
  MaxCrashes   \* bound: how often the server is killed

ASSUME RunsAssumption ==
  /\ Inline \notin Blueprints
  /\ MaxCrashes \in Nat

Outcomes == {"ok", "failed"}

(* What a RunRequest names; an inline blueprint goes before an id.          *)
Requests == Blueprints \cup {Inline}

Backends == {"stub", "bytes", "text"}

VARIABLES
  backend,     \* the stub, or Redis with answers in bytes or text (never changes)
  blueprints,  \* Redis: the blueprints stored
  stream,      \* Redis: the terminal event of each run
  results,     \* _RUNS
  run,         \* where start_run is, what it was asked for
  reader,      \* where each reader is, with its last_id
  poller,      \* the client that started the run: await_result
  hogged,      \* a reader never gives the event loop back
  crashes

serverVars == <<backend, blueprints, stream, results, run, reader, poller, hogged, crashes>>

OnStub == backend = "stub"

Steps == {"none", "fetching", "executing", "publishing", "acked", "refused", "error"}

RunState == [step : Steps, of : Requests, life : 0..MaxCrashes]

ReaderState ==
  [step : {"idle", "reading", "ended", "failed", "refused", "cut"}, run : Runs, last : 0..1]

ServerTypeOK ==
  /\ backend \in Backends
  /\ blueprints \subseteq Blueprints
  /\ stream \in [Runs -> Outcomes \cup {"none"}]
  /\ results \in [Runs -> Outcomes \cup {"none"}]
  /\ run \in [Runs -> RunState]
  /\ reader \in [Readers -> ReaderState]
  /\ poller \in [Runs -> {"idle", "polling", "answered"}]
  /\ hogged \in BOOLEAN
  /\ crashes \in 0..MaxCrashes

ServerInit ==
  /\ backend \in Backends
  /\ blueprints = {}
  /\ stream = [r \in Runs |-> "none"]
  /\ results = [r \in Runs |-> "none"]
  /\ run = [r \in Runs |-> [step |-> "none", of |-> Inline, life |-> 0]]
  /\ reader \in [Readers -> [step : {"idle"}, run : Runs, last : {0}]]
  /\ poller = [r \in Runs |-> "idle"]
  /\ hogged = FALSE
  /\ crashes = 0

RunGoes(r, from, to) ==
  /\ run[r].step = from
  /\ run' = [run EXCEPT ![r].step = to]

-----------------------------------------------------------------------------
(* create_blueprint, with a blueprint that can be validated *)
CreateBlueprint(b) ==
  /\ ~ hogged
  /\ blueprints' = blueprints \cup {b}
  /\ UNCHANGED <<backend, stream, results, run, reader, poller, hogged, crashes>>

(* start_run *)

Request(r, b) ==
  /\ ~ hogged
  /\ run[r].step = "none"
  /\ run' = [run EXCEPT ![r] = [step |-> IF b = Inline THEN "executing" ELSE "fetching",
                                of |-> b, life |-> crashes]]
  /\ UNCHANGED <<backend, blueprints, stream, results, reader, poller, hogged, crashes>>

(* An unknown blueprint is refused, a known one that is no longer valid too. *)
Fetched(r) ==
  /\ ~ hogged
  /\ \/ run[r].of \in blueprints /\ RunGoes(r, "fetching", "executing")
     \/ RunGoes(r, "fetching", "refused")
  /\ UNCHANGED <<backend, blueprints, stream, results, reader, poller, hogged, crashes>>

(* Mutant: only the result of a success is stored. *)
ExecutedUnlessFailed(r) ==
  /\ ~ hogged
  /\ RunGoes(r, "executing", "publishing")
  /\ \E outcome \in Outcomes :
       results' = IF outcome = "ok" THEN [results EXCEPT ![r] = outcome] ELSE results
  /\ UNCHANGED <<backend, blueprints, stream, reader, poller, hogged, crashes>>

(* The service answers, or anything on the way raises; the result is       *)
(* stored, then the event is sent.                                         *)
Executed(r) ==
  /\ ~ hogged
  /\ RunGoes(r, "executing", "publishing")
  /\ \E outcome \in Outcomes : results' = [results EXCEPT ![r] = outcome]
  /\ UNCHANGED <<backend, blueprints, stream, reader, poller, hogged, crashes>>

(* Mutant: the event always says success. *)
PublishedOk(r) ==
  /\ ~ hogged
  /\ RunGoes(r, "publishing", "acked")
  /\ stream' = [stream EXCEPT ![r] = "ok"]
  /\ poller' = [poller EXCEPT ![r] = "polling"]
  /\ UNCHANGED <<backend, blueprints, results, reader, hogged, crashes>>

(* MCPClient.start_run: the answer comes when the run is over; a client     *)
(* whose 30 seconds have passed by then never learns the id of its run.     *)
ClientLearns(r) ==
  \/ poller' = [poller EXCEPT ![r] = "polling"]
  \/ UNCHANGED poller

(* The event is in the stream, and the client is answered.                 *)
Published(r) ==
  /\ ~ hogged
  /\ RunGoes(r, "publishing", "acked")
  /\ stream' = [stream EXCEPT ![r] = results[r]]
  /\ ClientLearns(r)
  /\ UNCHANGED <<backend, blueprints, results, reader, hogged, crashes>>

(* Mutant: a failing xadd is not noticed. *)
RedisFailsUnseen(r) ==
  /\ ~ hogged /\ ~ OnStub
  /\ \/ RunGoes(r, "fetching", "error") /\ UNCHANGED poller
     \/ /\ RunGoes(r, "publishing", "acked")
        /\ poller' = [poller EXCEPT ![r] = "polling"]
  /\ UNCHANGED <<backend, blueprints, stream, results, reader, hogged, crashes>>

(* Redis fails, perhaps after it has done what it was asked to: the client *)
(* gets an error and never learns the id.                                  *)
RedisFails(r) ==
  /\ ~ hogged /\ ~ OnStub
  /\ \/ RunGoes(r, "fetching", "error") /\ UNCHANGED stream
     \/ /\ RunGoes(r, "publishing", "error")
        /\ \/ UNCHANGED stream
           \/ stream' = [stream EXCEPT ![r] = results[r]]
  /\ UNCHANGED <<backend, blueprints, results, reader, poller, hogged, crashes>>

-----------------------------------------------------------------------------
(* get_result: 202 for a run that is executing as for one that is unknown *)
Answered(r) == results[r] # "none"

(* await_result asks again until it gets something else than 202, for ever *)
(* if the result was lost.                                                 *)
Poll(r) ==
  /\ ~ hogged
  /\ poller[r] = "polling"
  /\ Answered(r)
  /\ poller' = [poller EXCEPT ![r] = "answered"]
  /\ UNCHANGED <<backend, blueprints, stream, results, run, reader, hogged, crashes>>

-----------------------------------------------------------------------------
(* event_stream *)

FirstId == IF OnStub THEN 0 ELSE 1

(* Mutant: only events that come later. *)
FollowNewOnly(q) ==
  /\ ~ hogged
  /\ reader[q].step = "idle"
  /\ reader' = IF stream[reader[q].run] = "none"
               THEN [reader EXCEPT ![q].step = "refused"]
               ELSE [reader EXCEPT ![q].step = "reading", ![q].last = FirstId]
  /\ UNCHANGED <<backend, blueprints, stream, results, run, poller, hogged, crashes>>

Follow(q) ==
  /\ ~ hogged
  /\ reader[q].step = "idle"
  /\ reader' = [reader EXCEPT ![q].step =
                  IF stream[reader[q].run] = "none" THEN "refused" ELSE "reading"]
  /\ UNCHANGED <<backend, blueprints, stream, results, run, poller, hogged, crashes>>

(* What xread would answer: the event, if it is there and newer than        *)
(* last_id.                                                                *)
HasNews(q) == stream[reader[q].run] # "none" /\ FirstId > reader[q].last

(* Redis waits until it has news, the stub does not.  Of bytes the reader  *)
(* takes the id, then raises.                                              *)
Read(q) ==
  /\ ~ hogged
  /\ reader[q].step = "reading"
  /\ IF HasNews(q)
     THEN /\ reader' = [reader EXCEPT ![q].step = IF backend = "bytes" THEN "failed" ELSE "ended",
                                      ![q].last = FirstId]
          /\ UNCHANGED hogged
     ELSE OnStub /\ hogged' = TRUE /\ UNCHANGED reader
  /\ UNCHANGED <<backend, blueprints, stream, results, run, poller, crashes>>

(* The client disconnects, or xread raises. *)
Cut(q) ==
  /\ ~ hogged
  /\ reader[q].step = "reading"
  /\ reader' = [reader EXCEPT ![q].step = "cut"]
  /\ UNCHANGED <<backend, blueprints, stream, results, run, poller, hogged, crashes>>

-----------------------------------------------------------------------------
(* The server is killed and started again. *)
Crash ==
  /\ crashes < MaxCrashes
  /\ crashes' = crashes + 1
  /\ results' = [r \in Runs |-> "none"]
  /\ run' = [r \in Runs |->
       IF run[r].step \in {"fetching", "executing", "publishing"}
       THEN [run[r] EXCEPT !.step = "error"] ELSE run[r]]
  /\ reader' = [q \in Readers |->
       IF reader[q].step = "reading" THEN [reader[q] EXCEPT !.step = "cut"] ELSE reader[q]]
  /\ hogged' = FALSE
  /\ IF OnStub
     THEN blueprints' = {} /\ stream' = [r \in Runs |-> "none"]
     ELSE /\ UNCHANGED blueprints
          /\ \E sent \in SUBSET {r \in Runs : run[r].step = "publishing"} :
               stream' = [r \in Runs |-> IF r \in sent THEN results[r] ELSE stream[r]]
  /\ UNCHANGED <<backend, poller>>

Handler(r) == Fetched(r) \/ Executed(r) \/ Published(r) \/ RedisFails(r)

ServerNext ==
  \/ \E b \in Blueprints : CreateBlueprint(b)
  \/ \E r \in Runs :
       \/ \E b \in Requests : Request(r, b)
       \/ Handler(r)
       \/ Poll(r)
  \/ \E q \in Readers : Follow(q) \/ Read(q) \/ Cut(q)
  \/ Crash

ServerSpec == ServerInit /\ [][ServerNext]_serverVars

(* The event loop runs whoever can go on, runs come to an end, Redis       *)
(* answers or fails.                                                       *)
FairServer ==
  /\ ServerSpec
  /\ \A r \in Runs : WF_serverVars(Handler(r)) /\ WF_serverVars(Poll(r))
  /\ \A q \in Readers : WF_serverVars(Read(q))

-----------------------------------------------------------------------------
(* Properties *)

SameLife(r) == run[r].life = crashes

(* Whoever sees the event of a run of this server can fetch the result,    *)
(* and the event says of it what the result says.                          *)
EventHasResult ==
  \A r \in Runs : SameLife(r) /\ stream[r] # "none" => results[r] = stream[r]

(* When the client of a run learns its id, result and event are there, and *)
(* they stay until the server is restarted.                                *)
AckedIsComplete ==
  \A r \in Runs : SameLife(r) /\ run[r].step = "acked" =>
    stream[r] # "none" /\ results[r] # "none"

(* The inductive invariant of the proofs: a result is stored for good, and *)
(* before the event is sent.                                               *)
RunsInv ==
  /\ ServerTypeOK
  /\ \A r \in Runs :
       /\ run[r].life <= crashes
       /\ SameLife(r) /\ run[r].step \in {"publishing", "acked"} => results[r] # "none"
       /\ run[r].step \in {"none", "fetching", "executing", "publishing"} => stream[r] = "none"
       /\ run[r].step \in {"fetching", "executing", "publishing"} => SameLife(r)
       /\ run[r].step = "none" => results[r] = "none"
  /\ EventHasResult
  /\ AckedIsComplete

(* On Redis that answers with text, whoever knows of a run because it was  *)
(* acknowledged may follow it, before and after restarts, and a reader     *)
(* that was let in is given the terminal event unless it is cut off first. *)
(* With bytes, the default, each of them fails.                            *)
RedisReaderEnds ==
  /\ [][\A q \in Readers :
         ~ OnStub /\ run[reader[q].run].step = "acked" /\ reader[q].step = "idle" =>
           reader'[q].step # "refused"]_serverVars
  /\ \A q \in Readers :
       backend = "text" /\ reader[q].step = "reading" ~> reader[q].step \in {"ended", "cut"}

(* On Redis, the client of a run that ended gets its result unless the     *)
(* server is restarted first.                                              *)
PollerAnswered ==
  \A r \in Runs :
    ~ OnStub /\ poller[r] = "polling" ~> poller[r] = "answered" \/ ~ SameLife(r)
=============================================================================
