------------------------------ MODULE McpClient ------------------------------
(***************************************************************************)
(* mcp: the JSON-RPC client (mcp/client.go) over one of its transports, a  *)
(* subprocess on stdio (mcp/transport_stdio.go) or Streamable HTTP         *)
(* (mcp/transport_http.go).                                                *)
(*                                                                         *)
(* A request runs in its caller's goroutine.  An actor may close the       *)
(* client: its "owner", the "initializer" when the handshake fails, or     *)
(* "main", the read loop of the subprocess when it ends.  A reader takes   *)
(* messages off the wire and hands them to onMessage: "main" reads the     *)
(* subprocess, or the inbound stream of the HTTP transport; reader r reads *)
(* the stream that answers the POST of request r.                          *)
(***************************************************************************)
EXTENDS Integers, FiniteSets

CONSTANTS Requests,      \* request ids; Handshake is the initialize request
          Handshake,
          MaxAnswers,    \* bound: answers a misbehaving server gives one request
          MaxRetries,    \* reconnections of the inbound stream in a row
          MaxConnects,   \* bound: inbound streams the server accepts
          Envs           \* what the environments do: sets of "cancel" (callers leave),
                         \* "duplicate" (answers repeat), "json" (a POST returns its answer)

ASSUME McpAssumption == /\ Handshake \in Requests /\ "main" \notin Requests
                        /\ MaxAnswers \in Nat \ {0}
                        /\ MaxRetries \in Nat \ {0} /\ MaxConnects \in Nat
                        /\ Envs \subseteq SUBSET {"cancel", "duplicate", "json"}

VARIABLES
  kind,      \* "stdio" | "http", fixed
  env,       \* what this environment does, fixed
  closed,    \* Client.closed
  mu,        \* Client.mu: the actor that holds it across a send, or "free"
  pending,   \* Client.pending: the registered ids
  chan,      \* chan[r]: the buffered result of r, or "empty" (capacity 1)
  req,       \* req[r] = [pc, cancelled, outcome, late]
  asked,     \* requests the server has received
  answers,   \* answers[r]: answers the server has sent
  actor,     \* actor[a] = [pc, todo]: Close and onClose in progress
  reader,    \* reader[d] = [pc, to]
  conn       \* [proc, stdin, cancelled, attempts, connects]: the transport

vars == <<kind, env, closed, mu, pending, chan, req, asked, answers, actor, reader, conn>>

Actors  == {"owner", "initializer", "main"}
Readers == {"main"} \cup Requests

\* A call that is still to be made, and one that nobody makes or that is over.
Idle(pc, outcome) == [pc |-> pc, cancelled |-> FALSE, outcome |-> outcome, late |-> FALSE]

\* Only the given requests are ever made.
InitFor(callers) ==
    /\ kind \in {"stdio", "http"} /\ env \in Envs
    /\ closed = FALSE /\ mu = "free" /\ pending = {}
    /\ chan = [r \in Requests |-> "empty"]
    /\ req = [r \in Requests |-> Idle(IF r \in callers THEN "new" ELSE "returned", "none")]
    /\ asked = {} /\ answers = [r \in Requests |-> 0]
    /\ actor = [a \in Actors |-> [pc |-> "idle", todo |-> {}]]
    /\ reader = [d \in Readers |-> [pc |-> IF d # "main" THEN "none"
                                           ELSE IF kind = "stdio" THEN "reading" ELSE "connecting",
                                    to |-> Handshake]]
    /\ conn = [proc |-> "running", stdin |-> TRUE, cancelled |-> FALSE,
               attempts |-> 0, connects |-> 0]

Init == InitFor(Requests)

Unlocked == mu = "free"

-----------------------------------------------------------------------------
(* A request: check, register, send, wait, unregister. *)

Move(r, pc) == req' = [req EXCEPT ![r].pc = pc]

Settle(r, pc, outcome) == req' = [req EXCEPT ![r].pc = pc, ![r].outcome = outcome]

RequestFrame == UNCHANGED <<kind, env, closed, mu, actor>>

\* The closed test is made under the mutex, which is then released.
Check(r) ==
    /\ req[r].pc = "new" /\ Unlocked
    /\ \/ r = Handshake
       \/ req[Handshake].outcome = "answer" /\ req[Handshake].pc = "returned"
    /\ IF closed THEN Settle(r, "returned", "closed") ELSE Move(r, "checked")
    /\ RequestFrame /\ UNCHANGED <<pending, chan, asked, answers, reader, conn>>

Register(r) ==
    /\ req[r].pc = "checked" /\ Unlocked
    /\ pending' = pending \cup {r}
    /\ req' = [req EXCEPT ![r].pc = "sending", ![r].late = closed]
    /\ RequestFrame /\ UNCHANGED <<chan, asked, answers, reader, conn>>

\* StdioTransport.Send: the write fails once stdin is closed or the process is gone.
SendStdio(r) ==
    /\ kind = "stdio" /\ req[r].pc = "sending"
    /\ IF conn.stdin /\ conn.proc = "running"
       THEN Move(r, "waiting") /\ asked' = asked \cup {r}
       ELSE Settle(r, "unregister", "sendError") /\ UNCHANGED asked
    /\ RequestFrame /\ UNCHANGED <<pending, chan, answers, reader, conn>>

\* HTTPTransport.Send: the POST carries no context, so nothing but the server ends it.
PostHTTP(r) ==
    /\ kind = "http" /\ req[r].pc = "sending"
    /\ Move(r, "posting")
    /\ RequestFrame /\ UNCHANGED <<pending, chan, asked, answers, reader, conn>>

\* The POST fails; or it is accepted, opens a stream or returns the answer itself.
PostReturns(r) ==
    /\ req[r].pc = "posting"
    /\ \/ /\ Settle(r, "unregister", "sendError")
          /\ UNCHANGED <<asked, answers, reader>>
       \/ /\ asked' = asked \cup {r}
          /\ \/ Move(r, "waiting") /\ UNCHANGED <<answers, reader>>
             \/ /\ Move(r, "waiting") /\ UNCHANGED answers
                /\ reader' = [reader EXCEPT ![r].pc = "reading"]
             \/ /\ "json" \in env /\ Move(r, "dispatching") /\ UNCHANGED reader
                /\ answers' = [answers EXCEPT ![r] = @ + 1]
    /\ RequestFrame /\ UNCHANGED <<pending, chan, conn>>

\* handleJSONResponse: onMessage runs in the requester's own goroutine.
DispatchInline(r) ==
    /\ req[r].pc = "dispatching" /\ Unlocked
    /\ Move(r, IF r \in pending THEN "delivering" ELSE "waiting")
    /\ RequestFrame /\ UNCHANGED <<pending, chan, asked, answers, reader, conn>>

DeliverInline(r) ==
    /\ req[r].pc = "delivering" /\ chan[r] = "empty"
    /\ chan' = [chan EXCEPT ![r] = "answer"]
    /\ Move(r, "waiting")
    /\ RequestFrame /\ UNCHANGED <<pending, asked, answers, reader, conn>>

\* The select of request: a result, or the end of the caller's context.
Await(r) ==
    /\ req[r].pc = "waiting"
    /\ \/ /\ chan[r] # "empty" /\ Settle(r, "unregister", chan[r])
          /\ chan' = [chan EXCEPT ![r] = "empty"]
       \/ req[r].cancelled /\ Settle(r, "unregister", "canceled") /\ UNCHANGED chan
    /\ RequestFrame /\ UNCHANGED <<pending, asked, answers, reader, conn>>

\* Mutant: a request that fails is left registered.
UnregisterForgets(r) ==
    /\ req[r].pc = "unregister" /\ Unlocked
    /\ pending' = IF req[r].outcome = "answer" THEN pending \ {r} ELSE pending
    /\ Move(r, "returned")
    /\ actor' = IF r = Handshake /\ req[r].outcome # "answer"
                THEN [actor EXCEPT !["initializer"].pc = "called"] ELSE actor
    /\ UNCHANGED <<kind, env, closed, mu, chan, asked, answers, reader, conn>>

\* The deferred delete.  A failed handshake goes on to close the client.
Unregister(r) ==
    /\ req[r].pc = "unregister" /\ Unlocked
    /\ pending' = pending \ {r}
    /\ Move(r, "returned")
    /\ actor' = IF r = Handshake /\ req[r].outcome # "answer"
                THEN [actor EXCEPT !["initializer"].pc = "called"] ELSE actor
    /\ UNCHANGED <<kind, env, closed, mu, chan, asked, answers, reader, conn>>

CancelRequest(r) ==
    /\ "cancel" \in env /\ req[r].pc # "returned" /\ ~ req[r].cancelled
    /\ req' = [req EXCEPT ![r].cancelled = TRUE]
    /\ RequestFrame /\ UNCHANGED <<pending, chan, asked, answers, reader, conn>>

RequestNext(r) == \/ Check(r) \/ Register(r) \/ SendStdio(r) \/ PostHTTP(r) \/ PostReturns(r)
                  \/ DispatchInline(r) \/ DeliverInline(r) \/ Await(r) \/ Unregister(r)

-----------------------------------------------------------------------------
(* Readers: onMessage looks the channel up under the mutex and sends on it   *)
(* after releasing it.                                                       *)

ReaderFrame == UNCHANGED <<kind, env, closed, mu, pending, req, asked, actor>>

MayAnswer(r) == r \in asked /\ answers[r] < IF "duplicate" \in env THEN MaxAnswers ELSE 1

Receive(d, r) ==
    /\ reader[d].pc = "reading" /\ Unlocked /\ MayAnswer(r)
    /\ d = "main" \/ d = r
    /\ d = "main" /\ kind = "stdio" => conn.proc = "running"
    /\ answers' = [answers EXCEPT ![r] = @ + 1]
    /\ reader' = IF r \in pending THEN [reader EXCEPT ![d] = [pc |-> "delivering", to |-> r]]
                 ELSE reader
    /\ ReaderFrame /\ UNCHANGED <<chan, conn>>

Deliver(d) ==
    /\ reader[d].pc = "delivering" /\ chan[reader[d].to] = "empty"
    /\ chan' = [chan EXCEPT ![reader[d].to] = "answer"]
    /\ reader' = [reader EXCEPT ![d] = [pc |-> "reading", to |-> Handshake]]
    /\ ReaderFrame /\ UNCHANGED <<answers, conn>>

\* The stream that answers a POST ends, whether or not it has answered.
StreamEnds(r) ==
    /\ reader[r].pc = "reading"
    /\ reader' = [reader EXCEPT ![r].pc = "ended"]
    /\ ReaderFrame /\ UNCHANGED <<chan, answers, conn>>

-----------------------------------------------------------------------------
(* The subprocess, and the inbound stream of the HTTP transport. *)

\* The subprocess exits by itself.
ProcessExits ==
    /\ kind = "stdio" /\ conn.proc = "running"
    /\ conn' = [conn EXCEPT !.proc = "exited"]
    /\ ReaderFrame /\ UNCHANGED <<chan, answers, reader>>

\* The context given to Initialize ends, at any time: it governs the subprocess
\* and the inbound stream, not only their start.
StartContextEnds ==
    /\ "cancel" \in env
    /\ conn' = IF kind = "stdio" THEN [conn EXCEPT !.proc = "exited"]
               ELSE [conn EXCEPT !.cancelled = TRUE]
    /\ ReaderFrame /\ UNCHANGED <<chan, answers, reader>>

\* readLoop returns: the transport reports its end to the client.
ReadLoopEnds ==
    /\ kind = "stdio" /\ reader["main"].pc = "reading" /\ conn.proc = "exited"
    /\ reader' = [reader EXCEPT !["main"].pc = "ended"]
    /\ actor' = [actor EXCEPT !["main"].pc = "onClose"]
    /\ UNCHANGED <<kind, env, closed, mu, pending, chan, req, asked, answers, conn>>

\* scheduleReconnect
Reconnect(c) ==
    IF c.cancelled \/ c.attempts >= MaxRetries
    THEN /\ reader' = [reader EXCEPT !["main"].pc = "ended"]
         /\ conn' = [c EXCEPT !.attempts = IF c.cancelled THEN @ ELSE @ + 1]
    ELSE /\ reader' = [reader EXCEPT !["main"].pc = "backoff"]
         /\ conn' = [c EXCEPT !.attempts = @ + 1]

\* doOpenInboundSSE: the GET fails, is refused for good, or opens the stream.
OpenInbound ==
    /\ kind = "http" /\ reader["main"].pc = "connecting"
    /\ \/ Reconnect(conn)
       \/ /\ reader' = [reader EXCEPT !["main"].pc = "ended"]
          /\ UNCHANGED conn
       \/ /\ ~ conn.cancelled /\ conn.connects < MaxConnects
          /\ reader' = [reader EXCEPT !["main"].pc = "reading"]
          /\ conn' = [conn EXCEPT !.attempts = 0, !.connects = @ + 1]
    /\ ReaderFrame /\ UNCHANGED <<chan, answers>>

\* The inbound stream ends, closed by the server, by Close or with its context.
InboundEnds ==
    /\ kind = "http" /\ reader["main"].pc = "reading"
    /\ Reconnect(conn)
    /\ ReaderFrame /\ UNCHANGED <<chan, answers>>

BackoffEnds ==
    /\ reader["main"].pc = "backoff"
    /\ reader' = [reader EXCEPT !["main"].pc = IF conn.cancelled THEN "ended" ELSE "connecting"]
    /\ ReaderFrame /\ UNCHANGED <<chan, answers, conn>>

TransportNext == ReadLoopEnds \/ OpenInbound \/ InboundEnds \/ BackoffEnds

-----------------------------------------------------------------------------
(* Close and onClose. *)

ActorFrame == UNCHANGED <<kind, env, req, asked, answers, reader>>

CallClose ==
    /\ actor["owner"].pc = "idle"
    /\ actor' = [actor EXCEPT !["owner"].pc = "called"]
    /\ ActorFrame /\ UNCHANGED <<closed, mu, pending, chan, conn>>

\* Mutant: pending requests are dropped without an error.
LockDropsPending(a) ==
    /\ actor[a].pc \in {"called", "onClose"} /\ Unlocked
    /\ IF actor[a].pc = "called" /\ closed
       THEN /\ actor' = [actor EXCEPT ![a].pc = "done"]
            /\ UNCHANGED <<closed, mu>>
       ELSE /\ closed' = TRUE /\ mu' = a
            /\ actor' = [actor EXCEPT ![a] =
                           [pc |-> IF @.pc = "called" THEN "failing" ELSE "failingLast",
                            todo |-> {}]]
    /\ ActorFrame /\ UNCHANGED <<pending, chan, conn>>

\* Close returns at once when the client is closed; onClose never does.
LockToClose(a) ==
    /\ actor[a].pc \in {"called", "onClose"} /\ Unlocked
    /\ IF actor[a].pc = "called" /\ closed
       THEN /\ actor' = [actor EXCEPT ![a].pc = "done"]
            /\ UNCHANGED <<closed, mu>>
       ELSE /\ closed' = TRUE /\ mu' = a
            /\ actor' = [actor EXCEPT ![a] =
                           [pc |-> IF @.pc = "called" THEN "failing" ELSE "failingLast",
                            todo |-> pending]]
    /\ ActorFrame /\ UNCHANGED <<pending, chan, conn>>

\* A pending request gets its error, on a channel of capacity 1, with the mutex held.
FailPending(a) ==
    /\ actor[a].pc \in {"failing", "failingLast"}
    /\ \E r \in actor[a].todo :
         /\ chan[r] = "empty"
         /\ chan' = [chan EXCEPT ![r] = "closed"]
         /\ pending' = pending \ {r}
         /\ actor' = [actor EXCEPT ![a].todo = @ \ {r}]
    /\ ActorFrame /\ UNCHANGED <<closed, mu, conn>>

\* Mutant: the mutex is not given back.
UnlockForgotten(a) ==
    /\ actor[a].pc \in {"failing", "failingLast"} /\ actor[a].todo = {}
    /\ actor' = [actor EXCEPT ![a].pc = IF @ = "failing" THEN "transport" ELSE "done"]
    /\ ActorFrame /\ UNCHANGED <<closed, mu, pending, chan, conn>>

UnlockClosed(a) ==
    /\ actor[a].pc \in {"failing", "failingLast"} /\ actor[a].todo = {}
    /\ mu' = "free"
    /\ actor' = [actor EXCEPT ![a].pc = IF @ = "failing" THEN "transport" ELSE "done"]
    /\ ActorFrame /\ UNCHANGED <<closed, pending, chan, conn>>

\* Transport.Close: stdio cancels the process and leaves onClose to the read
\* loop, HTTP cancels the inbound stream and calls onClose itself.
CloseTransport(a) ==
    /\ actor[a].pc = "transport"
    /\ conn' = IF kind = "stdio" THEN [conn EXCEPT !.stdin = FALSE, !.proc = "exited"]
               ELSE [conn EXCEPT !.cancelled = TRUE]
    /\ actor' = [actor EXCEPT ![a].pc = IF kind = "stdio" THEN "done" ELSE "onClose"]
    /\ ActorFrame /\ UNCHANGED <<closed, mu, pending, chan>>

CloseNext(a) == LockToClose(a) \/ FailPending(a) \/ UnlockClosed(a) \/ CloseTransport(a)

-----------------------------------------------------------------------------
Next == \/ \E r \in Requests : RequestNext(r) \/ CancelRequest(r) \/ StreamEnds(r)
        \/ \E d \in Readers : Deliver(d) \/ \E r \in Requests : Receive(d, r)
        \/ \E a \in Actors : CloseNext(a)
        \/ TransportNext \/ ProcessExits \/ StartContextEnds \/ CallClose

\* Goroutines run, and a POST is answered in some way: nothing in the client
\* bounds it.  The server owes no other answer, and nobody need call Close.
Fairness == /\ \A r \in Requests : SF_vars(RequestNext(r))
            /\ \A d \in Readers : WF_vars(Deliver(d))
            /\ \A a \in Actors : SF_vars(CloseNext(a))
            /\ WF_vars(TransportNext)

Spec == Init /\ [][Next]_vars /\ Fairness

-----------------------------------------------------------------------------
(* Properties. *)

Outcomes == {"none", "answer", "closed", "sendError", "canceled"}

\* Types; the mutex is held across steps only by an actor that is failing requests.
TypeInvariant ==
    /\ closed \in BOOLEAN /\ pending \subseteq Requests /\ asked \subseteq Requests
    /\ mu \in Actors \cup {"free"}
    /\ \A a \in Actors : mu = a <=> actor[a].pc \in {"failing", "failingLast"}
    /\ \A r \in Requests : chan[r] \in {"empty", "answer", "closed"} /\ req[r].outcome \in Outcomes
    /\ conn.attempts <= MaxRetries + 1 /\ conn.connects <= MaxConnects

InFlight == {"sending", "posting", "dispatching", "delivering", "waiting", "unregister"}

\* The pending map holds only requests whose caller is still inside request.  A
\* caller that waits can be reached through it or has a result to read, also while
\* the client closes.  Once the mutex is given back after that, what is pending
\* was registered later.
PendingIsInFlight ==
    \A r \in Requests :
        /\ r \in pending => req[r].pc \in InFlight
        /\ req[r].pc = "waiting" => r \in pending \/ chan[r] # "empty"
        /\ r \in pending /\ closed /\ Unlocked => req[r].late

\* A request registered after the client was closed is not among those it fails.
Released(r) == req[r].pc \in {"new", "returned"} \/ req[r].late

AllReleased == /\ \A r \in Requests : Released(r)
               /\ \A a \in Actors : actor[a].pc \in {"idle", "done"}

\* Close fails all pending requests (mcp/client.go:200): once it is called every
\* caller returns, Close returns and the transport's reader ends, as long as no
\* caller leaves early and every answer comes once, through a reader.
CloseReleasesAll ==
    env = {} => (actor["owner"].pc = "called" ~> AllReleased /\ reader["main"].pc = "ended")

\* The same in every environment.  The code breaks it: onMessage takes the channel
\* out of the map and sends to it later; when Close has sent its error in between,
\* a requester that dispatches its own answer waits for itself to receive.
CloseFailsEverything == actor["owner"].pc = "called" ~> AllReleased
=============================================================================
