--------------------------- MODULE ProviderStream ---------------------------
(***************************************************************************)
(* One streaming model call, from the response body to the aggregate its   *)
(* consumer reads: the transport's decoder, relay and watcher goroutines   *)
(* (transport/stream.go), the chunk timer (transport/timeout_reader.go),   *)
(* one provider's decoder, and the goroutine that owns the                 *)
(* StreamingResponse (llm/streaming_response.go).                          *)
(*                                                                         *)
(* A call is [provider, frames, atOnce, ending, timed, payload]: the       *)
(* frames the body holds, whether one read returns them all or one at a    *)
(* time, how the body goes on after them ("eof", "reset", "stall", or      *)
(* "panic" inside the decoder), whether a chunk timer guards it, and what  *)
(* Send would have received of the same answer.                            *)
(***************************************************************************)
EXTENDS StreamAggregate, ChatDecoder, AnthropicDecoder, ResponsesDecoder, GeminiDecoder

CONSTANTS Calls,       \* the calls a model may be asked to make
          RawCap,      \* capacity of the channel from decoder to relay (64)
          OutCap       \* capacity of the channel from relay to consumer (64)

ASSUME CapAssumption == RawCap \in Nat \ {0} /\ OutCap \in Nat \ {0}

Providers == {"chat", "anthropic", "responses", "gemini"}

\* The kinds of frame each decoder tells apart.  What it does not know is "bad",
\* "unparsed", "empty" or ignored.
FrameKinds(provider) ==
    CASE provider = "chat"      -> {"done", "bad", "chunk"}
      [] provider = "anthropic" -> {"start", "blockStart", "blockDelta", "messageDelta", "error",
                                    "ignored"}
      [] provider = "responses" -> {"created", "text", "reasoning", "item", "args", "sources",
                                    "completed", "terminal", "error", "doneMarker", "unparsed",
                                    "ignoredChunk"}
      [] provider = "gemini"    -> {"chunk", "unparsed", "empty"}

\* A body is a finite sequence of frames of its provider.
ASSUME CallsAssumption ==
    \A c \in Calls : /\ c.provider \in Providers
                     /\ c.frames \in Seq(ToSet(c.frames))
                     /\ \A f \in ToSet(c.frames) : f.kind \in FrameKinds(c.provider)

VARIABLES
  call,      \* the call under way
  ctx,       \* "live", or cancelled "byParent" or "byOwner"
  wire,      \* frames the body still holds
  buffer,    \* frames the line reader has buffered
  body,      \* "open" | "closed"
  timer,     \* [state |-> "none" | "armed" | "idle", expired |-> once.Do has run]
  decoder,   \* [pc, state, pending, next, err]: the goroutine of runDecoderBody
  watcher,   \* "none" | "watching" | "ended": the goroutine of CloseOnCancel
  raw,       \* channel from decoder to relay; closed when the decoder has ended
  relay,     \* [pc, event, draining]: the goroutine of relayStream
  out,       \* channel from relay to consumer; closed when the relay has ended
  owner,     \* [pc, state, err, exit]: the goroutine that owns the response
  agg,       \* the aggregate
  emitted    \* history: the events the decoder has sent

vars == <<call, ctx, wire, buffer, body, timer, decoder, watcher, raw, relay, out,
          owner, agg, emitted>>

CtxDone == ctx # "live"

NoEvent == [type |-> "none"]

DecoderStart(provider) ==
    CASE provider = "chat"      -> ChatStart
      [] provider = "anthropic" -> AnthropicStart
      [] provider = "responses" -> ResponsesStart
      [] provider = "gemini"    -> GeminiStart

Decode(provider, state, frame) ==
    CASE provider = "chat"      -> DecodeChat(state, frame)
      [] provider = "anthropic" -> DecodeAnthropic(state, frame)
      [] provider = "responses" -> DecodeResponses(state, frame)
      [] provider = "gemini"    -> DecodeGemini(state, frame)

AtEOF(provider, state) ==
    CASE provider = "chat"      -> ChatEOF(state)
      [] provider = "anthropic" -> AnthropicEOF(state)
      [] provider = "responses" -> ResponsesEOF(state)
      [] provider = "gemini"    -> GeminiEOF(state)

Normalize(provider, payload) ==
    CASE provider = "chat"      -> NormalizeChat(payload)
      [] provider = "anthropic" -> NormalizeAnthropic(payload)
      [] provider = "responses" -> NormalizeResponses(payload)
      [] provider = "gemini"    -> NormalizeGemini(payload)

Init ==
    /\ call \in Calls
    /\ ctx = "live"
    /\ wire = call.frames /\ buffer = <<>>
    /\ body = "open"
    /\ timer = [state |-> "none", expired |-> FALSE]
    /\ decoder = [pc |-> "none", state |-> DecoderStart(call.provider), pending |-> <<>>,
                  next |-> "more", err |-> ""]
    /\ watcher = "none"
    /\ raw = <<>> /\ out = <<>>
    /\ relay = [pc |-> "none", event |-> NoEvent, draining |-> FALSE]
    /\ owner = [pc |-> "new", state |-> "notDrained", err |-> "", exit |-> "none"]
    /\ agg = EmptyAggregate
    /\ emitted = <<>>

-----------------------------------------------------------------------------
(* The owner of the response. *)

\* start and the model's Stream: the request fails, or the goroutines run.
Start ==
    /\ owner.pc = "new"
    /\ \/ /\ ~ CtxDone
          /\ owner' = [owner EXCEPT !.pc = "ranging"]
          /\ decoder' = [decoder EXCEPT !.pc = "check"]
          /\ watcher' = "watching"
          /\ relay' = [relay EXCEPT !.pc = "receiving"]
          /\ timer' = [timer EXCEPT !.state = IF call.timed THEN "armed" ELSE "none"]
          /\ UNCHANGED ctx
       \/ /\ owner' = [owner EXCEPT !.pc = "left", !.state = "aborted", !.err = "start",
                                    !.exit = "start"]
          /\ ctx' = IF CtxDone THEN ctx ELSE "byOwner"
          /\ UNCHANGED <<decoder, watcher, relay, timer>>
    /\ UNCHANGED <<call, wire, buffer, body, raw, out, agg, emitted>>

\* Close on a response that was never ranged: a later range is refused.
Retire ==
    /\ owner.pc = "new"
    /\ owner' = [owner EXCEPT !.pc = "retired"]
    /\ UNCHANGED <<call, ctx, wire, buffer, body, timer, decoder, watcher, raw, relay, out,
                   agg, emitted>>

\* The three exits that abort, and the two that complete.
Leave(state, err, exit) ==
    owner' = [pc |-> "leaving", state |-> state, err |-> err, exit |-> exit]

\* Events, case <-ctx.Done()
OwnerSeesCancel ==
    /\ owner.pc = "ranging" /\ CtxDone
    /\ Leave("aborted", "canceled", "cancel")
    /\ UNCHANGED <<call, ctx, wire, buffer, body, timer, decoder, watcher, raw, relay, out,
                   agg, emitted>>

\* Events, an event: an error ends the range; anything else is absorbed and
\* yielded.  The loop's body goes on, closes the response and goes on, or breaks.
OwnerReceives ==
    /\ owner.pc = "ranging" /\ out # <<>>
    /\ out' = Tail(out)
    /\ IF Head(out).type = "error"
       THEN /\ Leave("aborted", Head(out).cause, "error")
            /\ UNCHANGED <<agg, ctx>>
       ELSE /\ agg' = Absorb(agg, Head(out))
            /\ \/ UNCHANGED <<owner, ctx>>
               \/ /\ ctx' = IF CtxDone THEN ctx ELSE "byOwner"
                  /\ UNCHANGED owner
               \/ /\ IF agg'.sawFinish THEN Leave("completed", "", "break")
                     ELSE Leave("aborted", "canceled", "break")
                  /\ UNCHANGED ctx
    /\ UNCHANGED <<call, wire, buffer, body, timer, decoder, watcher, raw, relay, emitted>>

\* Events, the channel is closed
OwnerSeesEnd ==
    /\ owner.pc = "ranging" /\ out = <<>> /\ relay.pc = "ended"
    /\ Leave("completed", "", "end")
    /\ UNCHANGED <<call, ctx, wire, buffer, body, timer, decoder, watcher, raw, relay, out,
                   agg, emitted>>

\* release, deferred by Events
Release ==
    /\ owner.pc = "leaving"
    /\ owner' = [owner EXCEPT !.pc = "left"]
    /\ agg' = FlushToolCalls(agg)
    /\ ctx' = IF CtxDone THEN ctx ELSE "byOwner"
    /\ UNCHANGED <<call, wire, buffer, body, timer, decoder, watcher, raw, relay, out, emitted>>

\* The caller's context is cancelled.
CancelParent ==
    /\ ~ CtxDone /\ owner.pc \in {"new", "ranging"}
    /\ ctx' = "byParent"
    /\ UNCHANGED <<call, wire, buffer, body, timer, decoder, watcher, raw, relay, out, owner,
                   agg, emitted>>

-----------------------------------------------------------------------------
(* The chunk timer. *)

\* NewTimeoutReader's callback: once.Do closes the body.
TimerFires ==
    /\ timer.state = "armed"
    /\ timer' = [state |-> "idle", expired |-> TRUE]
    /\ body' = IF timer.expired THEN body ELSE "closed"
    /\ UNCHANGED <<call, ctx, wire, buffer, decoder, watcher, raw, relay, out, owner, agg, emitted>>

StoppedTimer == IF timer.state = "none" THEN timer ELSE [timer EXCEPT !.state = "idle"]

-----------------------------------------------------------------------------
(* The decoder goroutine: runDecoderBody around one provider's loop. *)

DecoderUnchanged == UNCHANGED <<call, ctx, watcher, relay, out, owner, agg>>

\* The top of every provider's loop looks at the context first.
DecoderChecks ==
    /\ decoder.pc = "check"
    /\ decoder' = IF CtxDone THEN [decoder EXCEPT !.pc = "failed", !.err = "canceled"]
                  ELSE [decoder EXCEPT !.pc = "read"]
    /\ DecoderUnchanged /\ UNCHANGED <<wire, buffer, body, timer, raw, emitted>>

\* Read returns data: one frame or all the body holds.
ReadData ==
    /\ decoder.pc = "read" /\ buffer = <<>> /\ body = "open" /\ wire # <<>>
    /\ buffer' = IF call.atOnce THEN wire ELSE <<Head(wire)>>
    /\ wire' = IF call.atOnce THEN <<>> ELSE Tail(wire)
    /\ decoder' = [decoder EXCEPT !.pc = "reset"]
    /\ DecoderUnchanged /\ UNCHANGED <<body, timer, raw, emitted>>

\* timer.Reset, which revives a timer that has fired in the meantime.
ResetTimer ==
    /\ decoder.pc = "reset"
    /\ timer' = IF timer.state = "none" THEN timer ELSE [timer EXCEPT !.state = "armed"]
    /\ decoder' = [decoder EXCEPT !.pc = "read"]
    /\ DecoderUnchanged /\ UNCHANGED <<wire, buffer, body, raw, emitted>>

\* A buffered frame is decoded.
DecodeFrame ==
    /\ decoder.pc = "read" /\ buffer # <<>>
    /\ LET step == Decode(call.provider, decoder.state, Head(buffer))
       IN  decoder' = [decoder EXCEPT !.pc = "emit", !.state = step.state,
                                      !.pending = step.out, !.next = step.next]
    /\ buffer' = Tail(buffer)
    /\ DecoderUnchanged /\ UNCHANGED <<wire, body, timer, raw, emitted>>

ReadError ==
    CASE timer.expired  -> "timeout"
      [] ~ timer.expired /\ body = "closed" -> "closed"
      [] OTHER -> "reset"

\* Read returns no data: the body was closed, the connection broke, or it ended.
\* The timer stops.
ReadFails ==
    /\ decoder.pc = "read" /\ buffer = <<>>
    /\ \/ /\ body = "closed" \/ (wire = <<>> /\ call.ending = "reset")
          /\ decoder' = [decoder EXCEPT !.pc = "failed", !.err = ReadError]
       \/ /\ body = "open" /\ wire = <<>> /\ call.ending = "eof"
          /\ decoder' = IF AtEOF(call.provider, decoder.state) = "end"
                        THEN [decoder EXCEPT !.pc = "stopWatcher"]
                        ELSE [decoder EXCEPT !.pc = "failed", !.err = "decode"]
    /\ timer' = StoppedTimer
    /\ DecoderUnchanged /\ UNCHANGED <<wire, buffer, body, raw, emitted>>

\* A hook of the decoder panics; the deferred recover reports it.
DecoderPanics ==
    /\ decoder.pc = "read" /\ buffer = <<>> /\ wire = <<>> /\ call.ending = "panic"
    /\ decoder' = [decoder EXCEPT !.pc = "report", !.err = "panic"]
    /\ DecoderUnchanged /\ UNCHANGED <<wire, buffer, body, timer, raw, emitted>>

\* Mutant: the channel has no bound.
SendRawUnbounded ==
    /\ decoder.pc = "emit" /\ decoder.pending # <<>>
    /\ raw' = Append(raw, Head(decoder.pending))
    /\ emitted' = Append(emitted, Head(decoder.pending))
    /\ decoder' = [decoder EXCEPT !.pending = Tail(@)]
    /\ DecoderUnchanged /\ UNCHANGED <<wire, buffer, body, timer>>

\* One decoded event goes to the relay.
SendRaw ==
    /\ decoder.pc = "emit" /\ decoder.pending # <<>> /\ Len(raw) < RawCap
    /\ raw' = Append(raw, Head(decoder.pending))
    /\ emitted' = Append(emitted, Head(decoder.pending))
    /\ decoder' = [decoder EXCEPT !.pending = Tail(@)]
    /\ DecoderUnchanged /\ UNCHANGED <<wire, buffer, body, timer>>

\* Anthropic's send gives up when the context is done.
SendGivesUp ==
    /\ decoder.pc = "emit" /\ decoder.pending # <<>>
    /\ call.provider = "anthropic" /\ CtxDone
    /\ decoder' = [decoder EXCEPT !.pc = "failed", !.err = "canceled", !.pending = <<>>]
    /\ DecoderUnchanged /\ UNCHANGED <<wire, buffer, body, timer, raw, emitted>>

\* The frame is done: the loop goes on, returns nil or returns an error.  The
\* Anthropic decoder returns the context's error in place of nil.
FrameDone ==
    /\ decoder.pc = "emit" /\ decoder.pending = <<>>
    /\ decoder' =
         CASE decoder.next = "more" -> [decoder EXCEPT !.pc = "check"]
           [] decoder.next = "fail" -> [decoder EXCEPT !.pc = "failed", !.err = "decode"]
           [] decoder.next = "end"  -> IF call.provider = "anthropic" /\ CtxDone
                                       THEN [decoder EXCEPT !.pc = "failed", !.err = "canceled"]
                                       ELSE [decoder EXCEPT !.pc = "stopWatcher"]
    /\ DecoderUnchanged /\ UNCHANGED <<wire, buffer, body, timer, raw, emitted>>

\* The context's error replaces the decoder's.
NameFailure ==
    /\ decoder.pc = "failed"
    /\ decoder' = [decoder EXCEPT !.pc = "report", !.err = IF CtxDone THEN "canceled" ELSE @]
    /\ DecoderUnchanged /\ UNCHANGED <<wire, buffer, body, timer, raw, emitted>>

\* emitRaw
ReportFailure ==
    /\ decoder.pc = "report" /\ Len(raw) < RawCap
    /\ raw' = Append(raw, ErrorEvent(decoder.err))
    /\ emitted' = Append(emitted, ErrorEvent(decoder.err))
    /\ decoder' = [decoder EXCEPT !.pc = "stopWatcher"]
    /\ DecoderUnchanged /\ UNCHANGED <<wire, buffer, body, timer>>

\* The deferred calls, in order: stop the watcher, close the body, close raw.
StopWatcher ==
    /\ decoder.pc = "stopWatcher"
    /\ decoder' = [decoder EXCEPT !.pc = "closeBody"]
    /\ DecoderUnchanged /\ UNCHANGED <<wire, buffer, body, timer, raw, emitted>>

\* Mutant: raw is closed without closing the body.
CloseBodySkipped ==
    /\ decoder.pc = "closeBody"
    /\ decoder' = [decoder EXCEPT !.pc = "closeRaw"]
    /\ timer' = StoppedTimer
    /\ DecoderUnchanged /\ UNCHANGED <<wire, buffer, body, raw, emitted>>

CloseBody ==
    /\ decoder.pc = "closeBody"
    /\ decoder' = [decoder EXCEPT !.pc = "closeRaw"]
    /\ body' = "closed" /\ timer' = StoppedTimer
    /\ DecoderUnchanged /\ UNCHANGED <<wire, buffer, raw, emitted>>

CloseRaw ==
    /\ decoder.pc = "closeRaw"
    /\ decoder' = [decoder EXCEPT !.pc = "ended"]
    /\ DecoderUnchanged /\ UNCHANGED <<wire, buffer, body, timer, raw, emitted>>

DecoderNext == \/ DecoderChecks \/ ReadData \/ ResetTimer \/ DecodeFrame \/ ReadFails
               \/ DecoderPanics \/ SendRaw \/ SendGivesUp \/ FrameDone \/ NameFailure
               \/ ReportFailure \/ StopWatcher \/ CloseBody \/ CloseRaw

-----------------------------------------------------------------------------
(* The watcher goroutine of CloseOnCancel. *)

\* Mutant: the watcher waits for the decoder only.
WatcherDeaf ==
    /\ watcher = "watching"
    /\ decoder.pc \in {"closeBody", "closeRaw", "ended"}
    /\ watcher' = "ended"
    /\ UNCHANGED <<call, ctx, wire, buffer, body, timer, decoder, raw, relay, out, owner, agg,
                   emitted>>

WatcherNext ==
    /\ watcher = "watching"
    /\ \/ /\ CtxDone
          /\ body' = "closed" /\ timer' = StoppedTimer
       \/ /\ decoder.pc \in {"closeBody", "closeRaw", "ended"}
          /\ UNCHANGED <<body, timer>>
    /\ watcher' = "ended"
    /\ UNCHANGED <<call, ctx, wire, buffer, decoder, raw, relay, out, owner, agg, emitted>>

-----------------------------------------------------------------------------
(* The relay goroutine of relayStream. *)

RelayUnchanged == UNCHANGED <<call, ctx, wire, buffer, body, timer, decoder, watcher, owner, agg,
                              emitted>>

RelayReceives ==
    /\ relay.pc = "receiving" /\ raw # <<>>
    /\ raw' = Tail(raw)
    /\ relay' = IF relay.draining /\ Head(raw).type # "error" THEN relay
                ELSE [relay EXCEPT !.pc = "holding", !.event = Head(raw)]
    /\ UNCHANGED out /\ RelayUnchanged

RelayLetsGo == [relay EXCEPT !.pc = "receiving", !.event = NoEvent]

RelaySends ==
    /\ relay.pc = "holding" /\ Len(out) < OutCap
    /\ out' = Append(out, relay.event)
    /\ relay' = RelayLetsGo
    /\ UNCHANGED raw /\ RelayUnchanged

\* Mutant: the relay goes on forwarding after it has dropped an event.
RelayDropsOne ==
    /\ relay.pc = "holding"
    /\ \/ relay.event.type # "error" /\ CtxDone
       \/ relay.event.type = "error" /\ (CtxDone \/ relay.draining) /\ Len(out) = OutCap
    /\ relay' = RelayLetsGo
    /\ UNCHANGED <<raw, out>> /\ RelayUnchanged

\* Mutant: a channel that is full is taken for a consumer that is gone.
RelayDropsWhenFull ==
    /\ relay.pc = "holding"
    /\ \/ relay.event.type # "error" /\ (CtxDone \/ Len(out) = OutCap)
       \/ relay.event.type = "error" /\ (CtxDone \/ relay.draining) /\ Len(out) = OutCap
    /\ relay' = [RelayLetsGo EXCEPT !.draining = @ \/ relay.event.type # "error"]
    /\ UNCHANGED <<raw, out>> /\ RelayUnchanged

\* case <-ctx.Done(): the event is dropped, and so is every later one but
\* errors.  An error, and any error while draining, is offered without waiting.
RelayDrops ==
    /\ relay.pc = "holding"
    /\ \/ relay.event.type # "error" /\ CtxDone
       \/ relay.event.type = "error" /\ (CtxDone \/ relay.draining) /\ Len(out) = OutCap
    /\ relay' = [RelayLetsGo EXCEPT !.draining = @ \/ relay.event.type # "error"]
    /\ UNCHANGED <<raw, out>> /\ RelayUnchanged

RelayEnds ==
    /\ relay.pc = "receiving" /\ raw = <<>> /\ decoder.pc = "ended"
    /\ relay' = [relay EXCEPT !.pc = "ended"]
    /\ UNCHANGED <<raw, out>> /\ RelayUnchanged

RelayNext == RelayReceives \/ RelaySends \/ RelayDrops \/ RelayEnds

-----------------------------------------------------------------------------
OwnerNext == Start \/ Retire \/ OwnerSeesCancel \/ OwnerReceives \/ OwnerSeesEnd \/ Release

Next == OwnerNext \/ CancelParent \/ TimerFires \/ DecoderNext \/ WatcherNext \/ RelayNext

\* Goroutines that can run do run, and a consumer that leaves runs its deferred
\* calls.  Nothing makes it pull the next event, and no timer needs to fire.
Fairness == /\ WF_vars(DecoderNext) /\ WF_vars(WatcherNext) /\ WF_vars(RelayNext)
            /\ WF_vars(Release)

Spec == Init /\ [][Next]_vars /\ Fairness
-----------------------------------------------------------------------------
(* Properties. *)

\* Types and the capacities of the two channels.
TypeInvariant ==
    /\ ctx \in {"live", "byParent", "byOwner"}
    /\ body \in {"open", "closed"}
    /\ timer \in [state : {"none", "armed", "idle"}, expired : BOOLEAN]
    /\ decoder.pc \in {"none", "check", "read", "reset", "emit", "failed", "report",
                       "stopWatcher", "closeBody", "closeRaw", "ended"}
    /\ decoder.next \in {"more", "end", "fail"}
    /\ watcher \in {"none", "watching", "ended"}
    /\ relay.pc \in {"none", "receiving", "holding", "ended"} /\ relay.draining \in BOOLEAN
    /\ owner.pc \in {"new", "retired", "ranging", "leaving", "left"}
    /\ owner.state \in {"notDrained", "completed", "aborted"}
    /\ owner.exit \in {"none", "start", "cancel", "error", "break", "end"}
    /\ Len(raw) <= RawCap /\ Len(out) <= OutCap

\* A consumer that observes the returned channel closing also observes the body
\* released, and the decoder gone (transport/stream.go:65).
BodyReleasedFirst == relay.pc = "ended" => body = "closed" /\ decoder.pc = "ended"

IsError(event) == event.type = "error"

\* The number of events emitted before the first error.
BeforeError ==
    LET errors == {i \in DOMAIN emitted : IsError(emitted[i])}
    IN  IF errors = {} THEN Len(emitted) ELSE (CHOOSE i \in errors : \A j \in errors : i <= j) - 1

\* The aggregate takes no notice of an error.
AbsorbPlain(aggregate, event) == IF IsError(event) THEN aggregate ELSE Absorb(aggregate, event)

\* The aggregate of what the first k events of a sequence say.
AggregateUpTo(events, k) == FoldLeft(AbsorbPlain, EmptyAggregate, SubSeq(events, 1, k))

AggregateOf(k) == AggregateUpTo(emitted, k)

AbsorbedUpTo(k) ==
    agg = IF owner.pc = "left" /\ owner.exit # "start" THEN FlushToolCalls(AggregateOf(k))
          ELSE AggregateOf(k)

\* Whatever is cancelled, broken off or timed out, the aggregate is that of a
\* prefix of what the decoder sent: no delta is missing in the middle, none is
\* reordered or repeated, and only under cancellation may one come from beyond
\* an error (transport/stream.go:103).
AggregateIsPrefix ==
    \E k \in 0 .. Len(emitted) : /\ ctx = "live" => k <= BeforeError
                                 /\ AbsorbedUpTo(k)

\* With a live context nothing is lost in silence: a range that reaches its end
\* has absorbed every event and nothing failed, and one that stops on an error
\* reports the first failure, after absorbing everything before it.
NoSilentLoss ==
    owner.pc = "leaving" /\ ctx = "live" =>
        /\ owner.exit = "end" =>
             decoder.pc = "ended" /\ BeforeError = Len(emitted) /\ agg = AggregateOf(Len(emitted))
        /\ owner.exit = "error" =>
             /\ BeforeError < Len(emitted) /\ owner.err = emitted[BeforeError + 1].cause
             /\ agg = AggregateOf(BeforeError)

\* A range that reached its end, of an answer whose whole form is given.
Answered == owner.pc = "leaving" /\ owner.exit = "end" /\ ctx = "live" /\ call.payload # <<>>

\* Where the terminal state of the stream departs from what Send returns.
AnswerDiffers(sent) == FieldsThatDiffer(Streamed(FlushToolCalls(agg)), Sent(sent))
UsageDiffers(sent)  == FieldsThatDiffer(agg.usage, sent.usage)

If(condition, fields) == IF condition THEN fields ELSE {}

\* The departures there are in an answer that the frames stream and payload p
\* holds whole.  Chat: Send looks for no sources, keeps no signature of a call
\* and takes a missing finish reason for unknown.  Anthropic: the stream
\* decodes no signature_delta, and leaves the empty input of a call without
\* fragments empty where Send has its two braces.  Responses: Send looks for no sources, the
\* stream for no images, and an incomplete answer ends the stream bare.
KnownAnswerDifferences(provider, frames, p) ==
    CASE provider = "chat" ->
           LET chunks == {f \in ToSet(frames) : f.kind = "chunk"}
           IN  If(\E f \in chunks : f.sources # <<>>, {"sources"})
               \cup If(\E f \in chunks : \E t \in ToSet(f.choice.calls) : t.sig # NoSig,
                       {"callSignatures"})
               \cup If(p.finish = "", {"reason", "raw"})
      [] provider = "anthropic" ->
           LET calls  == {f.index : f \in {g \in ToSet(frames) : g.kind = "blockStart"
                                                              /\ g.type = "tool_use"}}
               spelt  == {f.index : f \in {g \in ToSet(frames) : g.kind = "blockDelta"
                                                              /\ g.delta = "json"}}
           IN  If(\E b \in ToSet(p.content) : b.type = "thinking" /\ b.sig # NoSig,
                  {"thoughtSignatures"})
               \cup If(calls \ spelt # {}, {"calls"})
      [] provider = "responses" ->
           If(\E f \in ToSet(frames) : f.kind = "sources" /\ f.urls # <<>>, {"sources"})
           \cup If(\E i \in ToSet(p.output) : i.type = "image", {"files"})
           \cup If(p.status = "incomplete", {"messageID", "reason", "raw"})
      [] provider = "gemini" -> {}

\* The same of the counters.  Chat: Send infers a missing output count and reads
\* no thoughts count.  Anthropic: Send leaves the cached tokens out of the input
\* total.  Chat and Responses: only Send keeps the text count from going
\* negative; an incomplete Responses answer streams no usage at all.
KnownUsageDifferences(provider, sent, p) ==
    CASE provider = "chat" /\ p.usage # NoCounters ->
           LET u == p.usage[1]
               inferred == u.completion = 0 /\ u.total > u.prompt
               thoughts == u.reasoning = 0 /\ u.thoughts # 0
           IN  If(inferred, {"output", "text"}) \cup If(thoughts, {"reasoning", "text"})
               \cup If(u.reasoning > u.completion, {"text"})
      [] provider = "anthropic" -> If(p.usage.cached + p.usage.written # 0, {"input"})
      [] provider = "responses" /\ p.usage # NoCounters ->
           If(p.status = "incomplete", FieldsThatDiffer(sent.usage, NoUsage))
           \cup If(p.status # "incomplete" /\ p.usage[1].reasoning > p.usage[1].output, {"text"})
      [] OTHER -> {}

\* Apart from the departures named, all of which are there, a stream that is
\* ranged to its end says what Send says of the same answer: the same text,
\* reasoning, calls and counters, however the deltas were cut, interleaved and
\* repeated (llm/streaming_response.go:266, aikit/tool_call_draft.go:67).
StreamDiffersOnlyAsKnown ==
    Answered =>
        LET p    == call.payload[1]
            sent == Normalize(call.provider, p)
        IN  /\ AnswerDiffers(sent) = KnownAnswerDifferences(call.provider, call.frames, p)
            /\ UsageDiffers(sent) = KnownUsageDifferences(call.provider, sent, p)

\* A StreamingResponse "gives a streamed completion the same terminal state Send
\* returns" (llm/streaming_response.go:36).  The code breaks this: of the counters
\* of one answer, the chat decoder reads thoughts_token_count and Send does not.
StreamMatchesSend ==
    Answered => LET sent == Normalize(call.provider, call.payload[1])
                IN  AnswerDiffers(sent) = {} /\ UsageDiffers(sent) = {}

\* Leaving the range releases everything: the decoder, its watcher and the relay
\* all end, even against a server that stalls (llm/streaming_response.go:208).
StreamEnds ==
    owner.pc = "left" /\ decoder.pc # "none" ~>
        decoder.pc = "ended" /\ watcher = "ended" /\ relay.pc = "ended"

\* The reader "aborts if no data arrives within the given timeout"
\* (transport/timeout_reader.go:23): the timer does not close the body while the
\* decoder has data it cannot hand on.  The code breaks this: a slow consumer
\* fills both channels, the decoder stops reading, and the timer runs on.
TimeoutMeansSilence ==
    [][timer'.expired /\ ~ timer.expired /\ ctx = "live" =>
          ~ (decoder.pc = "emit" /\ decoder.pending # <<>> /\ Len(raw) = RawCap)]_vars
=============================================================================
