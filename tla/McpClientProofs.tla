--------------------------- MODULE McpClientProofs --------------------------
(***************************************************************************)
(* Proofs about McpClient, for every set of requests, every environment    *)
(* and every bound on answers and connections.  The safety of the pending  *)
(* map rests on the mutex: who holds it while it fails requests has in its *)
(* todo set exactly what is left in the map, because nobody can register   *)
(* or unregister meanwhile.                                                *)
(***************************************************************************)
EXTENDS McpClient, TLAPS

-----------------------------------------------------------------------------
(* The inductive invariant. *)

RequestLocations == InFlight \cup {"new", "checked", "returned"}
ActorLocations == {"idle", "called", "onClose", "failing", "failingLast", "transport", "done"}
ReaderLocations == {"none", "connecting", "reading", "delivering", "backoff", "ended"}
Failing == {"failing", "failingLast"}

CallRecords ==
    [pc : RequestLocations, cancelled : BOOLEAN, outcome : Outcomes, late : BOOLEAN]
ActorRecords == [pc : ActorLocations, todo : SUBSET Requests]
ReaderRecords == [pc : ReaderLocations, to : Requests]
ConnRecords ==
    [proc : {"running", "exited"}, stdin : BOOLEAN, cancelled : BOOLEAN,
     attempts : 0..(MaxRetries + 1), connects : 0..MaxConnects]
Results == {"empty", "answer", "closed"}

Types ==
    /\ kind \in {"stdio", "http"} /\ closed \in BOOLEAN
    /\ mu \in Actors \cup {"free"}
    /\ pending \in SUBSET Requests /\ asked \in SUBSET Requests
    /\ chan \in [Requests -> Results]
    /\ req \in [Requests -> CallRecords] /\ answers \in [Requests -> Nat]
    /\ actor \in [Actors -> ActorRecords]
    /\ reader \in [Readers -> ReaderRecords]
    /\ conn \in ConnRecords

(* The holder of the mutex is failing what the map still holds, of a client *)
(* that is closed.                                                          *)
MutexInv ==
    \A a \in Actors :
        /\ mu = a <=> actor[a].pc \in Failing
        /\ actor[a].pc \in Failing => closed /\ actor[a].todo = pending

(* A request has an entry from its registration to its result. *)
Reachable ==
    \A r \in Requests :
        req[r].pc \in InFlight \ {"unregister"} => r \in pending \/ chan[r] # "empty"

Registered ==
    \A r \in Requests :
        /\ r \in pending => req[r].pc \in InFlight
        /\ r \in pending /\ closed /\ Unlocked => req[r].late

(* The last reconnection that is refused ends the inbound stream. *)
RetriesInv == conn.attempts > MaxRetries => reader["main"].pc = "ended"

(* The read loop of a subprocess reports its end once, when it is over. *)
MainInv == actor["main"].pc # "idle" => reader["main"].pc = "ended"

(* What reaches a caller as an answer was sent by the server, to a request  *)
(* that it received.                                                        *)
AnswersInv ==
    /\ \A r \in Requests : answers[r] > 0 => r \in asked
    /\ \A r \in Requests :
         chan[r] = "answer" \/ req[r].outcome = "answer" \/ req[r].pc \in {"dispatching", "delivering"}
           => answers[r] > 0
    /\ \A d \in Readers : reader[d].pc = "delivering" => answers[reader[d].to] > 0

IndInv == Types /\ MutexInv /\ Reachable /\ Registered /\ RetriesInv /\ MainInv
          /\ AnswersInv

-----------------------------------------------------------------------------
(* One step. *)

(* What becomes of a request; what it does not name stays as it is. *)
Becomes(r, pc, outcome, late) ==
    /\ req' \in [Requests -> CallRecords]
    /\ \A q \in Requests \ {r} : req'[q] = req[q]
    /\ req'[r].pc = pc /\ req'[r].outcome = outcome /\ req'[r].late = late

LEMMA MoveBecomes ==
    ASSUME Types, NEW r \in Requests, NEW pc \in RequestLocations, Move(r, pc)
    PROVE  Becomes(r, pc, req[r].outcome, req[r].late)
  BY DEF Types, CallRecords, Move, Becomes

LEMMA SettleBecomes ==
    ASSUME Types, NEW r \in Requests, NEW pc \in RequestLocations, NEW outcome \in Outcomes,
           Settle(r, pc, outcome)
    PROVE  Becomes(r, pc, outcome, req[r].late)
  BY DEF Types, CallRecords, Settle, Becomes

LEMMA RegisterBecomes ==
    ASSUME Types, NEW r \in Requests, Register(r)
    PROVE  Becomes(r, "sending", req[r].outcome, closed)
  BY DEF Types, CallRecords, Register, Becomes, RequestLocations, InFlight

LEMMA CancelBecomes ==
    ASSUME Types, NEW r \in Requests, CancelRequest(r)
    PROVE  Becomes(r, req[r].pc, req[r].outcome, req[r].late)
  BY DEF Types, CallRecords, CancelRequest, Becomes

(* The same for an actor. *)
ActorBecomes(a, pc, todo) ==
    /\ actor' \in [Actors -> ActorRecords]
    /\ \A b \in Actors \ {a} : actor'[b] = actor[b]
    /\ actor'[a].pc = pc /\ actor'[a].todo = todo

LEMMA ActorMoves ==
    ASSUME Types, NEW a \in Actors, NEW pc \in ActorLocations,
           actor' = [actor EXCEPT ![a].pc = pc]
    PROVE  ActorBecomes(a, pc, actor[a].todo)
  BY DEF Types, ActorRecords, ActorBecomes

-----------------------------------------------------------------------------
(* What a step in a request's own goroutine does. *)

(* The pending map and the result channels are left alone. *)
Proceeds(r, pc, outcome, late) ==
    /\ Becomes(r, pc, outcome, late) /\ late = req[r].late
    /\ UNCHANGED <<pending, chan, actor>>
    /\ pc \in InFlight <=> req[r].pc \in InFlight
    /\ req[r].pc = "unregister" => pc = "unregister"
    /\ outcome = "answer" => req[r].outcome = "answer"
    /\ pc \in {"dispatching", "delivering"} =>
         req[r].pc \in {"dispatching", "delivering"} \/ answers'[r] > 0

Registers(r, pc, outcome, late) ==
    /\ Becomes(r, pc, outcome, late)
    /\ pc = "sending" /\ outcome = req[r].outcome /\ late = closed
    /\ Unlocked /\ pending' = pending \cup {r} /\ UNCHANGED <<chan, actor, answers>>

DeliversOwn(r, pc, outcome, late) ==
    /\ Becomes(r, pc, outcome, late)
    /\ req[r].pc = "delivering" /\ pc = "waiting" /\ outcome = req[r].outcome /\ late = req[r].late
    /\ chan' = [chan EXCEPT ![r] = "answer"] /\ UNCHANGED <<pending, actor, answers>>

Takes(r, pc, outcome, late) ==
    /\ Becomes(r, pc, outcome, late)
    /\ req[r].pc = "waiting" /\ pc = "unregister" /\ late = req[r].late
    /\ outcome \in {chan[r], "canceled"}
    /\ chan' = [chan EXCEPT ![r] = "empty"] \/ chan' = chan
    /\ UNCHANGED <<pending, actor, answers>>

Unregisters(r, pc, outcome, late) ==
    /\ Becomes(r, pc, outcome, late)
    /\ pc = "returned" /\ outcome = req[r].outcome /\ late = req[r].late
    /\ Unlocked /\ pending' = pending \ {r} /\ UNCHANGED <<chan, answers>>
    /\ actor' = actor \/ ActorBecomes("initializer", "called", actor["initializer"].todo)

RequestEffect(r, pc, outcome, late) ==
    /\ UNCHANGED <<kind, closed, mu, conn>>
    /\ reader' = reader \/ reader' = [reader EXCEPT ![r].pc = "reading"]
    /\ asked' \in SUBSET Requests /\ asked \subseteq asked'
    /\ answers' = answers \/ (answers' = [answers EXCEPT ![r] = @ + 1] /\ r \in asked')
    /\ \/ Proceeds(r, pc, outcome, late) \/ Registers(r, pc, outcome, late)
       \/ DeliversOwn(r, pc, outcome, late) \/ Takes(r, pc, outcome, late)
       \/ Unregisters(r, pc, outcome, late)

SomeEffect(r) ==
    \E pc \in RequestLocations, outcome \in Outcomes, late \in BOOLEAN :
        RequestEffect(r, pc, outcome, late)

LEMMA FieldsTyped ==
    ASSUME Types, NEW r \in Requests
    PROVE  req[r].pc \in RequestLocations /\ req[r].outcome \in Outcomes /\ req[r].late \in BOOLEAN
  BY DEF Types, CallRecords

LEMMA RequestStep ==
    ASSUME Types, NEW r \in Requests, RequestNext(r) \/ CancelRequest(r)
    PROVE  SomeEffect(r)
  <1> DEFINE Old == req[r]
  <1>1. Old.pc \in RequestLocations /\ Old.outcome \in Outcomes /\ Old.late \in BOOLEAN
        /\ closed \in BOOLEAN /\ asked \in SUBSET Requests
    BY FieldsTyped DEF Types
  <1>2. ASSUME NEW pc \in RequestLocations, Move(r, pc)
        PROVE  Becomes(r, pc, Old.outcome, Old.late)
    BY <1>2, MoveBecomes
  <1>3. ASSUME NEW pc \in RequestLocations, NEW outcome \in Outcomes, Settle(r, pc, outcome)
        PROVE  Becomes(r, pc, outcome, Old.late)
    BY <1>3, SettleBecomes
  <1> HIDE DEF Old
  <1>4. ASSUME Check(r) PROVE SomeEffect(r)
    <2>1. \/ RequestEffect(r, "returned", "closed", Old.late)
          \/ RequestEffect(r, "checked", Old.outcome, Old.late)
      BY <1>1, <1>2, <1>3, <1>4
      DEF Old, Check, RequestFrame, RequestEffect, Proceeds, RequestLocations, InFlight, Outcomes
    <2>2. QED
      BY <1>1, <2>1 DEF SomeEffect, RequestLocations, Outcomes
  <1>5. ASSUME Register(r) PROVE SomeEffect(r)
    <2>1. RequestEffect(r, "sending", Old.outcome, closed)
      BY <1>1, <1>5, RegisterBecomes DEF Old, Register, RequestFrame, RequestEffect, Registers
    <2>2. QED
      BY <1>1, <2>1 DEF SomeEffect, RequestLocations, InFlight
  <1>6. ASSUME SendStdio(r) PROVE SomeEffect(r)
    <2>1. \/ RequestEffect(r, "waiting", Old.outcome, Old.late)
          \/ RequestEffect(r, "unregister", "sendError", Old.late)
      BY <1>1, <1>2, <1>3, <1>6
      DEF Old, SendStdio, RequestFrame, RequestEffect, Proceeds, RequestLocations, InFlight, Outcomes
    <2>2. QED
      BY <1>1, <2>1 DEF SomeEffect, RequestLocations, InFlight, Outcomes
  <1>7. ASSUME PostHTTP(r) PROVE SomeEffect(r)
    <2>1. RequestEffect(r, "posting", Old.outcome, Old.late)
      BY <1>1, <1>2, <1>7
      DEF Old, PostHTTP, RequestFrame, RequestEffect, Proceeds, RequestLocations, InFlight
    <2>2. QED
      BY <1>1, <2>1 DEF SomeEffect, RequestLocations, InFlight
  <1>8. ASSUME PostReturns(r) PROVE SomeEffect(r)
    <2>1. answers[r] + 1 > 0 /\ answers \in [Requests -> Nat]
      BY DEF Types
    <2>2. \/ RequestEffect(r, "waiting", Old.outcome, Old.late)
          \/ RequestEffect(r, "dispatching", Old.outcome, Old.late)
          \/ RequestEffect(r, "unregister", "sendError", Old.late)
      BY <1>1, <1>2, <1>3, <1>8, <2>1
      DEF Old, PostReturns, RequestFrame, RequestEffect, Proceeds, RequestLocations, InFlight, Outcomes
    <2>3. QED
      BY <1>1, <2>2 DEF SomeEffect, RequestLocations, InFlight, Outcomes
  <1>9. ASSUME DispatchInline(r) PROVE SomeEffect(r)
    <2>1. \/ RequestEffect(r, "delivering", Old.outcome, Old.late)
          \/ RequestEffect(r, "waiting", Old.outcome, Old.late)
      BY <1>1, <1>2, <1>9
      DEF Old, DispatchInline, RequestFrame, RequestEffect, Proceeds, RequestLocations, InFlight
    <2>2. QED
      BY <1>1, <2>1 DEF SomeEffect, RequestLocations, InFlight
  <1>10. ASSUME DeliverInline(r) PROVE SomeEffect(r)
    <2>1. RequestEffect(r, "waiting", Old.outcome, Old.late)
      BY <1>1, <1>2, <1>10
      DEF Old, DeliverInline, RequestFrame, RequestEffect, DeliversOwn, RequestLocations, InFlight
    <2>2. QED
      BY <1>1, <2>1 DEF SomeEffect, RequestLocations, InFlight
  <1>11. ASSUME Await(r) PROVE SomeEffect(r)
    <2>1. chan[r] # "empty" => chan[r] \in Outcomes
      BY DEF Types, Results, Outcomes
    <2>2. \/ RequestEffect(r, "unregister", chan[r], Old.late) /\ chan[r] \in Outcomes
          \/ RequestEffect(r, "unregister", "canceled", Old.late)
      BY <1>1, <1>3, <1>11, <2>1
      DEF Old, Await, RequestFrame, RequestEffect, Takes, RequestLocations, InFlight, Outcomes
    <2>3. QED
      BY <1>1, <2>2 DEF SomeEffect, RequestLocations, InFlight, Outcomes
  <1>12. ASSUME Unregister(r) PROVE SomeEffect(r)
    <2>1. actor' = actor \/ ActorBecomes("initializer", "called", actor["initializer"].todo)
      BY <1>12, ActorMoves DEF Unregister, Actors, ActorLocations
    <2>2. RequestEffect(r, "returned", Old.outcome, Old.late)
      BY <1>1, <1>2, <1>12, <2>1 DEF Old, Unregister, RequestEffect, Unregisters, RequestLocations
    <2>3. QED
      BY <1>1, <2>2 DEF SomeEffect, RequestLocations
  <1>13. ASSUME CancelRequest(r) PROVE SomeEffect(r)
    <2>1. RequestEffect(r, Old.pc, Old.outcome, Old.late)
      BY <1>1, <1>13, CancelBecomes
      DEF Old, CancelRequest, RequestFrame, RequestEffect, Proceeds
    <2>2. QED
      BY <1>1, <2>1 DEF SomeEffect
  <1>14. QED
    BY <1>4, <1>5, <1>6, <1>7, <1>8, <1>9, <1>10, <1>11, <1>12, <1>13 DEF RequestNext

-----------------------------------------------------------------------------
(* What a step of a reader or of the transport does. *)

TransportStep ==
    \/ \E r \in Requests : StreamEnds(r)
    \/ \E d \in Readers : Deliver(d) \/ \E r \in Requests : Receive(d, r)
    \/ TransportNext \/ ProcessExits \/ StartContextEnds

TransportEffect ==
    /\ UNCHANGED <<kind, closed, mu, pending, req, asked>>
    /\ reader' \in [Readers -> ReaderRecords] /\ conn' \in ConnRecords
    /\ answers' = answers \/ \E r \in asked : answers' = [answers EXCEPT ![r] = @ + 1]
    /\ \/ chan' = chan
       \/ \E d \in Readers : /\ reader[d].pc = "delivering"
                             /\ chan' = [chan EXCEPT ![reader[d].to] = "answer"]
    /\ \A d \in Readers : reader'[d].pc = "delivering" =>
                            reader'[d] = reader[d] \/ answers'[reader'[d].to] > 0
    /\ conn'.attempts = conn.attempts \/ conn'.attempts <= MaxRetries \/ reader'["main"].pc = "ended"
    /\ reader["main"].pc = "ended" => reader'["main"].pc = "ended"
    /\ \/ actor' = actor
       \/ /\ ActorBecomes("main", "onClose", actor["main"].todo)
          /\ reader["main"].pc = "reading" /\ reader'["main"].pc = "ended"

LEMMA ReaderMoves ==
    ASSUME Types, NEW d \in Readers, NEW pc \in ReaderLocations, reader' = [reader EXCEPT ![d].pc = pc]
    PROVE  /\ reader' \in [Readers -> ReaderRecords] /\ reader'[d].pc = pc
           /\ \A e \in Readers \ {d} : reader'[e] = reader[e]
  BY DEF Types, ReaderRecords

LEMMA MainReader == "main" \in Readers /\ Requests \subseteq Readers /\ "main" \notin Requests
  BY McpAssumption DEF Readers

LEMMA ReconnectCounts ==
    ASSUME Types, RetriesInv, reader["main"].pc # "ended", Reconnect(conn)
    PROVE  /\ conn' \in ConnRecords
           /\ \E pc \in {"ended", "backoff"} : reader' = [reader EXCEPT !["main"].pc = pc]
           /\ conn'.attempts <= MaxRetries \/ reader'["main"].pc = "ended"
  <1>1. conn \in ConnRecords /\ conn.attempts \in Nat /\ MaxRetries \in Nat
        /\ conn.attempts <= MaxRetries
    BY McpAssumption DEF Types, RetriesInv, ConnRecords
  <1>2. \A pc : reader' = [reader EXCEPT !["main"].pc = pc] => reader'["main"].pc = pc
    BY MainReader DEF Types, ReaderRecords
  <1>3. CASE conn.cancelled
    BY <1>1, <1>2, <1>3 DEF Reconnect, ConnRecords
  <1>4. CASE ~conn.cancelled /\ conn.attempts >= MaxRetries
    BY <1>1, <1>2, <1>4 DEF Reconnect, ConnRecords
  <1>5. CASE ~conn.cancelled /\ conn.attempts < MaxRetries
    BY <1>1, <1>2, <1>5 DEF Reconnect, ConnRecords
  <1>6. QED
    BY <1>1, <1>3, <1>4, <1>5

LEMMA TransportDoes ==
    ASSUME Types, RetriesInv, TransportStep
    PROVE  TransportEffect
  <1> USE MainReader
  <1>1. /\ reader \in [Readers -> ReaderRecords] /\ conn \in ConnRecords
        /\ answers \in [Requests -> Nat]
    BY DEF Types
  <1>2. ASSUME NEW r \in Requests, StreamEnds(r) PROVE TransportEffect
    <2>1. r \in Readers /\ r # "main" /\ "ended" \in ReaderLocations
      BY DEF ReaderLocations
    <2>2. reader' \in [Readers -> ReaderRecords] /\ reader'[r].pc = "ended"
          /\ \A e \in Readers \ {r} : reader'[e] = reader[e]
      BY <1>2, <2>1, ReaderMoves DEF StreamEnds
    <2>3. QED
      BY <1>1, <1>2, <2>1, <2>2 DEF StreamEnds, ReaderFrame, TransportEffect
  <1>3. ASSUME NEW d \in Readers, Deliver(d) PROVE TransportEffect
    <2>1. [pc |-> "reading", to |-> Handshake] \in ReaderRecords
      BY McpAssumption DEF ReaderRecords, ReaderLocations
    <2>2. reader' \in [Readers -> ReaderRecords] /\ reader'[d].pc = "reading"
          /\ \A e \in Readers \ {d} : reader'[e] = reader[e]
      BY <1>1, <1>3, <2>1 DEF Deliver
    <2>3. reader[d].pc = "delivering"
      BY <1>3 DEF Deliver
    <2>4. QED
      BY <1>1, <1>3, <2>2, <2>3 DEF Deliver, ReaderFrame, TransportEffect
  <1>4. ASSUME NEW d \in Readers, NEW r \in Requests, Receive(d, r) PROVE TransportEffect
    <2>1. [pc |-> "delivering", to |-> r] \in ReaderRecords
      BY DEF ReaderRecords, ReaderLocations
    <2>2. answers' = [answers EXCEPT ![r] = @ + 1] /\ r \in asked /\ answers'[r] > 0
      BY <1>1, <1>4 DEF Receive, MayAnswer
    <2>3. \/ reader' = reader
          \/ /\ reader' \in [Readers -> ReaderRecords] /\ reader'[d] = [pc |-> "delivering", to |-> r]
             /\ \A e \in Readers \ {d} : reader'[e] = reader[e]
      BY <1>1, <1>4, <2>1 DEF Receive
    <2>4. reader[d].pc = "reading"
      BY <1>4 DEF Receive
    <2>5. QED
      BY <1>1, <1>4, <2>2, <2>3, <2>4 DEF Receive, ReaderFrame, TransportEffect
  <1>5. CASE ReadLoopEnds
    <2>1. reader' \in [Readers -> ReaderRecords] /\ reader'["main"].pc = "ended"
          /\ \A e \in Readers \ {"main"} : reader'[e] = reader[e]
      BY <1>5, ReaderMoves DEF ReadLoopEnds, ReaderLocations
    <2>2. ActorBecomes("main", "onClose", actor["main"].todo)
      BY <1>5, ActorMoves DEF ReadLoopEnds, Actors, ActorLocations
    <2>3. QED
      BY <1>1, <1>5, <2>1, <2>2 DEF ReadLoopEnds, TransportEffect
  <1>6. ASSUME reader["main"].pc # "ended", Reconnect(conn), ReaderFrame, UNCHANGED <<chan, answers>>
        PROVE  TransportEffect
    <2>1. PICK pc \in {"ended", "backoff"} : reader' = [reader EXCEPT !["main"].pc = pc]
      BY <1>6, ReconnectCounts
    <2>2. reader' \in [Readers -> ReaderRecords] /\ reader'["main"].pc = pc
          /\ \A e \in Readers \ {"main"} : reader'[e] = reader[e]
      BY <2>1, ReaderMoves DEF ReaderLocations
    <2>3. QED
      BY <1>6, <2>2, ReconnectCounts DEF ReaderFrame, TransportEffect
  <1>7. CASE OpenInbound
    <2>1. CASE Reconnect(conn)
      BY <1>6, <1>7, <2>1 DEF OpenInbound
    <2>2. CASE reader' = [reader EXCEPT !["main"].pc = "ended"] /\ conn' = conn
      <3>1. reader' \in [Readers -> ReaderRecords] /\ reader'["main"].pc = "ended"
            /\ \A e \in Readers \ {"main"} : reader'[e] = reader[e]
        BY <2>2, ReaderMoves DEF ReaderLocations
      <3>2. QED
        BY <1>1, <1>7, <2>2, <3>1 DEF OpenInbound, ReaderFrame, TransportEffect
    <2>3. CASE /\ conn.connects < MaxConnects
               /\ reader' = [reader EXCEPT !["main"].pc = "reading"]
               /\ conn' = [conn EXCEPT !.attempts = 0, !.connects = @ + 1]
      <3>1. reader' \in [Readers -> ReaderRecords] /\ reader'["main"].pc = "reading"
            /\ \A e \in Readers \ {"main"} : reader'[e] = reader[e]
        BY <2>3, ReaderMoves DEF ReaderLocations
      <3>2. conn' \in ConnRecords /\ conn'.attempts <= MaxRetries
        <4>1. /\ 0 \in 0..(MaxRetries + 1) /\ 0 <= MaxRetries
              /\ conn.connects + 1 \in 0..MaxConnects
          BY <1>1, <2>3, McpAssumption DEF ConnRecords
        <4>2. conn' = [proc |-> conn.proc, stdin |-> conn.stdin, cancelled |-> conn.cancelled,
                       attempts |-> 0, connects |-> conn.connects + 1]
          BY <1>1, <2>3 DEF ConnRecords
        <4>3. QED
          BY <1>1, <4>1, <4>2 DEF ConnRecords
      <3>3. QED
        BY <1>1, <1>7, <3>1, <3>2 DEF OpenInbound, ReaderFrame, TransportEffect
    <2>4. QED
      BY <1>7, <2>1, <2>2, <2>3 DEF OpenInbound
  <1>8. CASE InboundEnds
    BY <1>6, <1>8 DEF InboundEnds
  <1>9. CASE BackoffEnds
    <2>1. PICK pc \in {"ended", "connecting"} : reader' = [reader EXCEPT !["main"].pc = pc]
      BY <1>9 DEF BackoffEnds
    <2>2. reader' \in [Readers -> ReaderRecords] /\ reader'["main"].pc = pc
          /\ \A e \in Readers \ {"main"} : reader'[e] = reader[e]
      BY <2>1, ReaderMoves DEF ReaderLocations
    <2>3. QED
      BY <1>1, <1>9, <2>2 DEF BackoffEnds, ReaderFrame, TransportEffect
  <1>10. CASE ProcessExits \/ StartContextEnds
    <2>1. conn' \in ConnRecords /\ conn'.attempts = conn.attempts
      BY <1>1, <1>10 DEF ProcessExits, StartContextEnds, ConnRecords
    <2>2. QED
      BY <1>1, <1>10, <2>1 DEF ProcessExits, StartContextEnds, ReaderFrame, TransportEffect
  <1>11. QED
    BY <1>2, <1>3, <1>4, <1>5, <1>7, <1>8, <1>9, <1>10 DEF TransportStep, TransportNext

-----------------------------------------------------------------------------
(* What a closing goroutine does. *)

Walks(a, pc, todo) ==
    /\ UNCHANGED <<closed, mu, pending, chan>> /\ todo = actor[a].todo
    /\ actor[a].pc \notin Failing /\ pc \notin Failing
    /\ actor[a].pc # "idle" \/ a = "owner"

Locks(a, pc, todo) ==
    /\ Unlocked /\ mu' = a /\ closed' = TRUE /\ UNCHANGED <<pending, chan>>
    /\ pc \in Failing /\ todo = pending /\ actor[a].pc # "idle"

FailsOne(a, pc, todo) ==
    /\ UNCHANGED <<closed, mu>> /\ pc = actor[a].pc /\ pc \in Failing
    /\ \E r \in actor[a].todo :
         /\ chan' = [chan EXCEPT ![r] = "closed"] /\ pending' = pending \ {r}
         /\ todo = actor[a].todo \ {r}

Unlocks(a, pc, todo) ==
    /\ UNCHANGED <<closed, pending, chan>> /\ mu' = "free"
    /\ actor[a].pc \in Failing /\ pc \notin Failing /\ todo = {} /\ actor[a].todo = {}

ActorEffect(a, pc, todo) ==
    /\ UNCHANGED <<kind, req, asked, answers, reader>>
    /\ conn' \in ConnRecords /\ conn'.attempts = conn.attempts
    /\ ActorBecomes(a, pc, todo)
    /\ Walks(a, pc, todo) \/ Locks(a, pc, todo) \/ FailsOne(a, pc, todo) \/ Unlocks(a, pc, todo)

LEMMA ActorDoes ==
    ASSUME Types, NEW a \in Actors, CloseNext(a) \/ (a = "owner" /\ CallClose)
    PROVE  \E pc \in ActorLocations, todo \in SUBSET Requests : ActorEffect(a, pc, todo)
  <1>1. /\ actor \in [Actors -> ActorRecords] /\ conn \in ConnRecords
        /\ actor[a].pc \in ActorLocations /\ actor[a].todo \in SUBSET Requests
        /\ pending \in SUBSET Requests
    BY DEF Types, ActorRecords
  <1>2. ASSUME NEW pc \in ActorLocations, actor' = [actor EXCEPT ![a].pc = pc]
        PROVE  ActorBecomes(a, pc, actor[a].todo)
    BY <1>2, ActorMoves
  <1>3. CASE a = "owner" /\ CallClose
    <2>1. ActorEffect(a, "called", actor[a].todo)
      BY <1>1, <1>2, <1>3 DEF CallClose, ActorFrame, ActorEffect, Walks, Failing, ActorLocations
    <2>2. QED
      BY <1>1, <2>1 DEF ActorLocations
  <1>4. CASE LockToClose(a)
    <2>1. CASE actor[a].pc = "called" /\ closed
      <3>1. ActorEffect(a, "done", actor[a].todo)
        BY <1>1, <1>2, <1>4, <2>1 DEF LockToClose, ActorFrame, ActorEffect, Walks, Failing, ActorLocations
      <3>2. QED
        BY <1>1, <3>1 DEF ActorLocations
    <2>2. CASE ~(actor[a].pc = "called" /\ closed)
      <3> DEFINE to == IF actor[a].pc = "called" THEN "failing" ELSE "failingLast"
      <3>1. to \in ActorLocations /\ to \in Failing
        BY DEF ActorLocations, Failing
      <3>2. actor' = [actor EXCEPT ![a] = [pc |-> to, todo |-> pending]]
        BY <1>4, <2>2 DEF LockToClose
      <3> HIDE DEF to
      <3>3. ActorBecomes(a, to, pending)
        BY <1>1, <3>1, <3>2 DEF ActorBecomes, ActorRecords
      <3>4. ActorEffect(a, to, pending)
        BY <1>1, <1>4, <2>2, <3>1, <3>3 DEF LockToClose, ActorFrame, ActorEffect, Locks
      <3>5. QED
        BY <1>1, <3>1, <3>4
    <2>3. QED
      BY <2>1, <2>2
  <1>5. CASE FailPending(a)
    <2>1. PICK r \in actor[a].todo : /\ chan' = [chan EXCEPT ![r] = "closed"]
                                     /\ pending' = pending \ {r}
                                     /\ actor' = [actor EXCEPT ![a].todo = @ \ {r}]
      BY <1>5 DEF FailPending
    <2>2. ActorBecomes(a, actor[a].pc, actor[a].todo \ {r})
      BY <1>1, <2>1 DEF ActorBecomes, ActorRecords
    <2>3. ActorEffect(a, actor[a].pc, actor[a].todo \ {r})
      BY <1>1, <1>5, <2>1, <2>2 DEF FailPending, ActorFrame, ActorEffect, FailsOne, Failing
    <2>4. QED
      BY <1>1, <2>3
  <1>6. CASE UnlockClosed(a)
    <2> DEFINE to == IF actor[a].pc = "failing" THEN "transport" ELSE "done"
    <2>1. to \in ActorLocations /\ to \notin Failing
      BY DEF ActorLocations, Failing
    <2>2. actor' = [actor EXCEPT ![a].pc = to] /\ actor[a].todo = {}
      BY <1>6 DEF UnlockClosed
    <2> HIDE DEF to
    <2>3. ActorEffect(a, to, actor[a].todo)
      BY <1>1, <1>2, <1>6, <2>1, <2>2 DEF UnlockClosed, ActorFrame, ActorEffect, Unlocks, Failing
    <2>4. QED
      BY <1>1, <2>1, <2>3
  <1>7. CASE CloseTransport(a)
    <2> DEFINE to == IF kind = "stdio" THEN "done" ELSE "onClose"
    <2>1. to \in ActorLocations /\ to \notin Failing
      BY DEF ActorLocations, Failing
    <2>2. actor' = [actor EXCEPT ![a].pc = to]
      BY <1>7 DEF CloseTransport
    <2> HIDE DEF to
    <2>3. conn' \in ConnRecords /\ conn'.attempts = conn.attempts
      BY <1>1, <1>7 DEF CloseTransport, ConnRecords
    <2>4. ActorEffect(a, to, actor[a].todo)
      BY <1>1, <1>2, <1>7, <2>1, <2>2, <2>3
      DEF CloseTransport, ActorFrame, ActorEffect, Walks, Failing
    <2>5. QED
      BY <1>1, <2>1, <2>4
  <1>8. QED
    BY <1>3, <1>4, <1>5, <1>6, <1>7 DEF CloseNext

-----------------------------------------------------------------------------
(* The inductive invariant is kept. *)

LEMMA StepCases ==
    ASSUME Types, RetriesInv, [Next]_vars
    PROVE  \/ \E r \in Requests : SomeEffect(r)
           \/ TransportEffect
           \/ \E a \in Actors, pc \in ActorLocations, todo \in SUBSET Requests :
                  ActorEffect(a, pc, todo)
           \/ UNCHANGED vars
  <1>1. "owner" \in Actors
    BY DEF Actors
  <1>2. QED
    BY <1>1, RequestStep, TransportDoes, ActorDoes DEF Next, TransportStep

(* An actor that does not fail requests does not hold the mutex. *)
LEMMA NobodyFails ==
    ASSUME MutexInv, Unlocked
    PROVE  \A a \in Actors : actor[a].pc \notin Failing
  BY DEF MutexInv, Unlocked, Actors

LEMMA RequestKeeps ==
    ASSUME IndInv, NEW r \in Requests, SomeEffect(r)
    PROVE  IndInv'
  <1>1. PICK pc \in RequestLocations, outcome \in Outcomes, late \in BOOLEAN :
            RequestEffect(r, pc, outcome, late)
    BY DEF SomeEffect
  <1>2. /\ req \in [Requests -> CallRecords] /\ chan \in [Requests -> Results]
        /\ answers \in [Requests -> Nat] /\ reader \in [Readers -> ReaderRecords]
        /\ actor \in [Actors -> ActorRecords] /\ pending \in SUBSET Requests
    BY DEF IndInv, Types
  <1>3. Becomes(r, pc, outcome, late)
    BY <1>1 DEF RequestEffect, Proceeds, Registers, DeliversOwn, Takes, Unregisters
  <1>4. /\ req' \in [Requests -> CallRecords]
        /\ \A q \in Requests \ {r} : req'[q] = req[q]
        /\ req'[r].pc = pc /\ req'[r].outcome = outcome /\ req'[r].late = late
    BY <1>3 DEF Becomes
  <1>5. answers' \in [Requests -> Nat] /\ \A q \in Requests : answers'[q] >= answers[q]
    BY <1>1, <1>2 DEF RequestEffect
  <1>6. \/ actor' = actor
        \/ Unlocked /\ ActorBecomes("initializer", "called", actor["initializer"].todo)
    BY <1>1 DEF RequestEffect, Proceeds, Registers, DeliversOwn, Takes, Unregisters
  <1>7. \A d \in Readers : reader'[d] = reader[d] \/ (reader'[d].pc = "reading" /\ d = r)
    BY <1>1, <1>2 DEF RequestEffect, ReaderRecords
  <1>8. Types'
    <2>1. /\ reader' \in [Readers -> ReaderRecords]
      BY <1>1, <1>2, MainReader, ReaderMoves DEF RequestEffect, ReaderLocations, IndInv
    <2>2. actor' \in [Actors -> ActorRecords]
      BY <1>2, <1>6 DEF ActorBecomes
    <2>3. chan' \in [Requests -> Results] /\ pending' \in SUBSET Requests
      BY <1>1, <1>2
      DEF RequestEffect, Proceeds, Registers, DeliversOwn, Takes, Unregisters, Results
    <2>4. QED
      BY <1>1, <1>4, <1>5, <2>1, <2>2, <2>3 DEF RequestEffect, IndInv, Types
  <1>9. MutexInv'
    <2>1. CASE actor' = actor /\ pending' = pending
      BY <1>1, <2>1 DEF RequestEffect, IndInv, MutexInv
    <2>2. CASE Unlocked
      <3>1. \A a \in Actors : actor[a].pc \notin Failing /\ mu # a
        BY <2>2, NobodyFails DEF IndInv, MutexInv
      <3>2. \A a \in Actors : actor'[a].pc \notin Failing
        BY <1>6, <3>1 DEF ActorBecomes, Failing
      <3>3. mu' = mu
        BY <1>1 DEF RequestEffect
      <3>4. QED
        BY <3>1, <3>2, <3>3 DEF MutexInv
    <2>3. QED
      BY <1>1, <2>1, <2>2 DEF RequestEffect, Proceeds, Registers, DeliversOwn, Takes, Unregisters
  <1>10. Reachable'
    <2> SUFFICES ASSUME NEW q \in Requests, req'[q].pc \in InFlight \ {"unregister"}
                 PROVE  q \in pending' \/ chan'[q] # "empty"
      BY DEF Reachable
    <2>1. CASE q # r
      <3>1. q \in pending \/ chan[q] # "empty"
        BY <1>4, <2>1 DEF IndInv, Reachable
      <3>2. QED
        BY <1>1, <1>2, <2>1, <3>1
        DEF RequestEffect, Proceeds, Registers, DeliversOwn, Takes, Unregisters
    <2>2. CASE q = r
      <3>1. pc \in InFlight \ {"unregister"}
        BY <1>4, <2>2
      <3>2. req[r].pc \in InFlight \ {"unregister"} => r \in pending \/ chan[r] # "empty"
        BY DEF IndInv, Reachable
      <3>3. QED
        BY <1>1, <1>2, <2>2, <3>1, <3>2
        DEF RequestEffect, Proceeds, Registers, DeliversOwn, Takes, Unregisters, InFlight
    <2>3. QED
      BY <2>1, <2>2
  <1>11. Registered'
    <2> SUFFICES ASSUME NEW q \in Requests, q \in pending'
                 PROVE  req'[q].pc \in InFlight /\ (closed' /\ Unlocked' => req'[q].late)
      BY DEF Registered
    <2>1. closed' = closed /\ Unlocked' = Unlocked
      BY <1>1 DEF RequestEffect, Unlocked
    <2>2. q \in pending => req[q].pc \in InFlight /\ (closed /\ Unlocked => req[q].late)
      BY DEF IndInv, Registered
    <2>3. CASE q # r
      BY <1>1, <1>4, <2>1, <2>2, <2>3
      DEF RequestEffect, Proceeds, Registers, DeliversOwn, Takes, Unregisters
    <2>4. CASE q = r
      BY <1>1, <1>4, <2>1, <2>2, <2>4
      DEF RequestEffect, Proceeds, Registers, DeliversOwn, Takes, Unregisters, InFlight
    <2>5. QED
      BY <2>3, <2>4
  <1>12. RetriesInv' /\ MainInv'
    <2>1. reader'["main"] = reader["main"] /\ conn' = conn
      BY <1>1, <1>7, MainReader DEF RequestEffect
    <2>2. actor'["main"] = actor["main"]
      BY <1>6 DEF ActorBecomes, Actors
    <2>3. QED
      BY <2>1, <2>2 DEF IndInv, RetriesInv, MainInv
  <1>13. AnswersInv'
    <2>1. \A q \in Requests : answers'[q] > 0 => q \in asked'
      BY <1>1, <1>2 DEF RequestEffect, IndInv, AnswersInv
    <2>2. \A d \in Readers : reader'[d].pc = "delivering" => answers'[reader'[d].to] > 0
      <3>1. \A d \in Readers : reader[d].to \in Requests
        BY <1>2 DEF ReaderRecords
      <3>2. QED
        BY <1>2, <1>5, <1>7, <3>1 DEF IndInv, AnswersInv
    <2>3. ASSUME NEW q \in Requests,
                 \/ chan'[q] = "answer" \/ req'[q].outcome = "answer"
                 \/ req'[q].pc \in {"dispatching", "delivering"}
          PROVE  answers'[q] > 0
      <3>1. \/ chan[q] = "answer" \/ req[q].outcome = "answer"
            \/ req[q].pc \in {"dispatching", "delivering"} \/ answers'[q] > 0
        <4>1. CASE q # r
          BY <1>1, <1>2, <1>4, <2>3, <4>1
          DEF RequestEffect, Proceeds, Registers, DeliversOwn, Takes, Unregisters
        <4>2. CASE q = r
          BY <1>1, <1>2, <1>4, <2>3, <4>2
          DEF RequestEffect, Proceeds, Registers, DeliversOwn, Takes, Unregisters
        <4>3. QED
          BY <4>1, <4>2
      <3>2. answers[q] > 0 => answers'[q] > 0
        BY <1>2, <1>5
      <3>3. QED
        BY <3>1, <3>2 DEF IndInv, AnswersInv
    <2>4. QED
      BY <2>1, <2>2, <2>3 DEF AnswersInv
  <1>14. QED
    BY <1>8, <1>9, <1>10, <1>11, <1>12, <1>13 DEF IndInv

LEMMA TransportKeeps ==
    ASSUME IndInv, TransportEffect
    PROVE  IndInv'
  <1>1. /\ req \in [Requests -> CallRecords] /\ chan \in [Requests -> Results]
        /\ answers \in [Requests -> Nat] /\ reader \in [Readers -> ReaderRecords]
        /\ actor \in [Actors -> ActorRecords] /\ asked \in SUBSET Requests
    BY DEF IndInv, Types
  <1>2. UNCHANGED <<kind, closed, mu, pending, req, asked>>
    BY DEF TransportEffect
  <1>3. answers' \in [Requests -> Nat] /\ \A q \in Requests : answers'[q] >= answers[q]
    BY <1>1 DEF TransportEffect
  <1>4. \/ actor' = actor
        \/ /\ ActorBecomes("main", "onClose", actor["main"].todo)
           /\ actor["main"].pc = "idle" /\ reader'["main"].pc = "ended"
    BY DEF TransportEffect, IndInv, MainInv
  <1>5. /\ chan' \in [Requests -> Results]
        /\ \A q \in Requests : chan'[q] = chan[q] \/ (chan'[q] = "answer" /\ answers[q] > 0)
    <2>1. CASE chan' = chan
      BY <1>1, <2>1
    <2>2. ASSUME NEW d \in Readers, reader[d].pc = "delivering",
                 chan' = [chan EXCEPT ![reader[d].to] = "answer"]
          PROVE  /\ chan' \in [Requests -> Results]
                 /\ \A q \in Requests : chan'[q] = chan[q] \/ (chan'[q] = "answer" /\ answers[q] > 0)
      <3>1. reader[d].to \in Requests /\ answers[reader[d].to] > 0
        BY <1>1, <2>2 DEF ReaderRecords, IndInv, AnswersInv
      <3>2. QED
        BY <1>1, <2>2, <3>1 DEF Results
    <2>3. QED
      BY <2>1, <2>2 DEF TransportEffect
  <1>6. Types'
    <2>1. actor' \in [Actors -> ActorRecords]
      BY <1>1, <1>4 DEF ActorBecomes
    <2>2. QED
      BY <1>2, <1>3, <1>5, <2>1 DEF TransportEffect, IndInv, Types
  <1>7. MutexInv'
    <2>1. \A a \in Actors : actor'[a].pc \in Failing <=> actor[a].pc \in Failing
      BY <1>1, <1>4 DEF ActorBecomes, Failing
    <2>2. \A a \in Actors : actor[a].pc \in Failing => actor'[a].todo = actor[a].todo
      BY <1>1, <1>4 DEF ActorBecomes, Failing
    <2>3. QED
      BY <1>2, <2>1, <2>2 DEF IndInv, MutexInv
  <1>8. Reachable' /\ Registered'
    BY <1>2, <1>5 DEF IndInv, Reachable, Registered, Unlocked
  <1>9. RetriesInv' /\ MainInv'
    <2>1. conn.attempts \in Nat /\ conn'.attempts \in Nat /\ MaxRetries \in Nat
      BY McpAssumption DEF TransportEffect, IndInv, Types, ConnRecords
    <2>2. RetriesInv'
      BY <2>1 DEF TransportEffect, IndInv, RetriesInv
    <2>3. MainInv'
      BY <1>4 DEF TransportEffect, IndInv, MainInv
    <2>4. QED
      BY <2>2, <2>3
  <1>10. AnswersInv'
    <2>1. \A q \in Requests : answers[q] > 0 => answers'[q] > 0
      BY <1>1, <1>3
    <2>2. \A q \in Requests : answers'[q] > 0 => q \in asked'
      BY <1>1, <1>2 DEF TransportEffect, IndInv, AnswersInv
    <2>3. \A q \in Requests :
            chan'[q] = "answer" \/ req'[q].outcome = "answer"
              \/ req'[q].pc \in {"dispatching", "delivering"} => answers'[q] > 0
      BY <1>2, <1>5, <2>1 DEF IndInv, AnswersInv
    <2>4. ASSUME NEW d \in Readers, reader'[d].pc = "delivering"
          PROVE  answers'[reader'[d].to] > 0
      <3>1. reader[d].to \in Requests
        BY <1>1 DEF ReaderRecords
      <3>2. CASE reader'[d] = reader[d]
        BY <2>1, <2>4, <3>1, <3>2 DEF IndInv, AnswersInv
      <3>3. QED
        BY <2>4, <3>2 DEF TransportEffect
    <2>5. QED
      BY <2>2, <2>3, <2>4 DEF AnswersInv
  <1>11. QED
    BY <1>6, <1>7, <1>8, <1>9, <1>10 DEF IndInv

LEMMA ActorKeeps ==
    ASSUME IndInv, NEW a \in Actors, NEW pc \in ActorLocations, NEW todo \in SUBSET Requests,
           ActorEffect(a, pc, todo)
    PROVE  IndInv'
  <1>1. /\ req \in [Requests -> CallRecords] /\ chan \in [Requests -> Results]
        /\ actor \in [Actors -> ActorRecords] /\ pending \in SUBSET Requests
        /\ closed \in BOOLEAN /\ actor[a].todo \in SUBSET Requests
    BY DEF IndInv, Types, ActorRecords
  <1>2. UNCHANGED <<kind, req, asked, answers, reader>> /\ conn'.attempts = conn.attempts
        /\ conn' \in ConnRecords
    BY DEF ActorEffect
  <1>3. /\ actor' \in [Actors -> ActorRecords]
        /\ \A b \in Actors \ {a} : actor'[b] = actor[b]
        /\ actor'[a].pc = pc /\ actor'[a].todo = todo
    BY DEF ActorEffect, ActorBecomes
  <1>4. "free" \notin Actors
    BY DEF Actors
  <1>5. Types'
    <2>1. /\ closed' \in BOOLEAN /\ mu' \in Actors \cup {"free"}
          /\ pending' \in SUBSET Requests /\ chan' \in [Requests -> Results]
      BY <1>1 DEF ActorEffect, Walks, Locks, FailsOne, Unlocks, IndInv, Types, Results
    <2>2. QED
      BY <1>2, <1>3, <2>1 DEF IndInv, Types
  <1>6. MutexInv'
    <2>1. CASE Walks(a, pc, todo)
      BY <1>3, <2>1 DEF Walks, IndInv, MutexInv
    <2>2. CASE Locks(a, pc, todo)
      BY <1>3, <1>4, <2>2, NobodyFails DEF Locks, IndInv, MutexInv
    <2>3. CASE FailsOne(a, pc, todo)
      <3>1. mu = a /\ mu' = a /\ closed' = closed /\ closed /\ actor[a].todo = pending /\ todo = pending'
        BY <2>3 DEF FailsOne, IndInv, MutexInv
      <3>2. \A b \in Actors \ {a} : actor[b].pc \notin Failing
        BY <3>1 DEF IndInv, MutexInv
      <3>3. QED
        BY <1>3, <2>3, <3>1, <3>2 DEF FailsOne, MutexInv
    <2>4. CASE Unlocks(a, pc, todo)
      <3>1. \A b \in Actors \ {a} : actor[b].pc \notin Failing
        BY <2>4 DEF Unlocks, IndInv, MutexInv
      <3>2. QED
        BY <1>3, <1>4, <2>4, <3>1 DEF Unlocks, MutexInv
    <2>5. QED
      BY <2>1, <2>2, <2>3, <2>4 DEF ActorEffect
  <1>7. Reachable'
    <2>1. \A q \in Requests : q \in pending \/ chan[q] # "empty"
                             => q \in pending' \/ chan'[q] # "empty"
      BY <1>1 DEF ActorEffect, Walks, Locks, FailsOne, Unlocks
    <2>2. QED
      BY <1>2, <2>1 DEF IndInv, Reachable
  <1>8. Registered'
    <2>1. pending' \subseteq pending
      BY DEF ActorEffect, Walks, Locks, FailsOne, Unlocks
    <2>2. CASE Walks(a, pc, todo)
      BY <1>2, <2>1, <2>2 DEF Walks, IndInv, Registered, Unlocked
    <2>3. CASE Locks(a, pc, todo)
      BY <1>2, <1>4, <2>1, <2>3 DEF Locks, IndInv, Registered, Unlocked
    <2>4. CASE FailsOne(a, pc, todo)
      <3>1. mu' = a
        BY <2>4 DEF FailsOne, IndInv, MutexInv
      <3>2. QED
        BY <1>2, <1>4, <2>1, <3>1 DEF IndInv, Registered, Unlocked
    <2>5. CASE Unlocks(a, pc, todo)
      <3>1. pending' = {}
        BY <2>5 DEF Unlocks, IndInv, MutexInv
      <3>2. QED
        BY <3>1 DEF Registered
    <2>6. QED
      BY <2>2, <2>3, <2>4, <2>5 DEF ActorEffect
  <1>9. RetriesInv'
    BY <1>2 DEF IndInv, RetriesInv
  <1>10. MainInv'
    <2>1. a = "main" => actor["main"].pc # "idle"
      BY DEF ActorEffect, Walks, Locks, FailsOne, Unlocks, Failing
    <2>2. QED
      BY <1>2, <1>3, <2>1 DEF IndInv, MainInv, Actors
  <1>11. AnswersInv'
    <2>1. \A q \in Requests : chan'[q] = "answer" => chan[q] = "answer"
      BY <1>1 DEF ActorEffect, Walks, Locks, FailsOne, Unlocks
    <2>2. QED
      BY <1>2, <2>1 DEF IndInv, AnswersInv
  <1>12. QED
    BY <1>5, <1>6, <1>7, <1>8, <1>9, <1>10, <1>11 DEF IndInv

LEMMA StepKeeps == IndInv /\ [Next]_vars => IndInv'
  <1> SUFFICES ASSUME IndInv, [Next]_vars PROVE IndInv'
    OBVIOUS
  <1>1. CASE UNCHANGED vars
    BY <1>1 DEF vars, IndInv, Types, MutexInv, Reachable, Registered, RetriesInv, MainInv,
                AnswersInv, Unlocked
  <1>2. Types /\ RetriesInv
    BY DEF IndInv
  <1>3. QED
    BY <1>1, <1>2, StepCases, RequestKeeps, TransportKeeps, ActorKeeps

(* Whichever of the requests are ever made. *)
LEMMA InitHolds == ASSUME NEW callers, InitFor(callers) PROVE IndInv
  <1> USE McpAssumption DEF InitFor
  <1>1. Types
    <2>1. \A r \in Requests : Idle(IF r \in callers THEN "new" ELSE "returned", "none") \in CallRecords
      BY DEF Idle, CallRecords, RequestLocations, Outcomes
    <2>2. req \in [Requests -> CallRecords]
      BY <2>1
    <2>3. actor \in [Actors -> ActorRecords]
      BY DEF ActorRecords, ActorLocations
    <2>4. reader \in [Readers -> ReaderRecords]
      BY DEF ReaderRecords, ReaderLocations
    <2>5. conn \in ConnRecords
      BY DEF ConnRecords
    <2>6. QED
      BY <2>2, <2>3, <2>4, <2>5 DEF Types, Results
  <1>2. MutexInv
    BY DEF MutexInv, Actors, Failing
  <1>3. Reachable /\ Registered
    BY DEF Reachable, Registered, Idle, InFlight
  <1>4. RetriesInv /\ MainInv
    BY DEF RetriesInv, MainInv, Actors
  <1>5. AnswersInv
    <2>1. \A r \in Requests : /\ req[r].pc \in {"new", "returned"} /\ req[r].outcome = "none"
                             /\ answers[r] = 0 /\ chan[r] = "empty"
      BY DEF Idle
    <2>2. \A d \in Readers : reader[d].pc # "delivering"
      BY DEF Readers
    <2>3. QED
      BY <2>1, <2>2 DEF AnswersInv
  <1>6. QED
    BY <1>1, <1>2, <1>3, <1>4, <1>5 DEF IndInv

-----------------------------------------------------------------------------
(* The theorems. *)

(* The client never leaves the inductive invariant, whatever its callers,   *)
(* the server, the transport and the goroutines that close it do.           *)
THEOREM Invariance == Spec => []IndInv
  <1>1. Init => IndInv
    BY InitHolds DEF Init
  <1>2. QED
    BY <1>1, StepKeeps, PTL DEF Spec

(* Types; Client.mu is held across steps exactly by the one goroutine that  *)
(* fails requests, and reconnections and connections stay within bounds.    *)
THEOREM TypeCorrect == Spec => []TypeInvariant
  <1>1. IndInv => TypeInvariant
    <2> SUFFICES ASSUME IndInv PROVE TypeInvariant
      OBVIOUS
    <2>1. conn.attempts <= MaxRetries + 1 /\ conn.connects <= MaxConnects
      BY DEF IndInv, Types, ConnRecords
    <2>2. \A r \in Requests : chan[r] \in {"empty", "answer", "closed"} /\ req[r].outcome \in Outcomes
      BY DEF IndInv, Types, CallRecords, Results
    <2>3. QED
      BY <2>1, <2>2 DEF IndInv, Types, MutexInv, Failing, TypeInvariant
  <1>2. QED
    BY <1>1, Invariance, PTL

(* The pending map holds nobody who has left request; who waits has an      *)
(* entry in it or a result to read; and a close that gave the mutex back    *)
(* has left no request behind that was registered before it.                *)
THEOREM PendingIsSound == Spec => []PendingIsInFlight
  <1>1. IndInv => PendingIsInFlight
    BY DEF IndInv, Reachable, Registered, PendingIsInFlight, InFlight
  <1>2. QED
    BY <1>1, Invariance, PTL

(* A caller gets an answer only after the server has received its request   *)
(* and answered it: ids keep the answers of concurrent requests apart.      *)
AnswersAreOwn ==
    \A r \in Requests : req[r].outcome = "answer" => r \in asked /\ answers[r] > 0

THEOREM AnswersComeFromTheServer == Spec => []AnswersAreOwn
  <1>1. IndInv => AnswersAreOwn
    BY DEF IndInv, AnswersInv, AnswersAreOwn
  <1>2. QED
    BY <1>1, Invariance, PTL
=============================================================================
