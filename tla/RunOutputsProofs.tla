--------------------------- MODULE RunOutputsProofs ---------------------------
(***************************************************************************)
(* That the Result counts the usage of every turn once, and that whatever  *)
(* ends a run the client gets paired blocks, one end and the usage of the  *)
(* turns, proved for every configuration.                                  *)
(*                                                                         *)
(* The Result is looked at through its meters: the steps it counts, the    *)
(* step that is open, and the three usages.  Only a step's start, a usage  *)
(* snapshot and a step's end move them, and the run emits those as the     *)
(* first event of a batch; until it is consumed the Result lags behind by  *)
(* exactly that event, and otherwise its account is the run's own.         *)
(*                                                                         *)
(* The wire adds what is in flight (FlightInv), and that the blocks the    *)
(* frames leave open are the ones the encoder believes open, which it has  *)
(* only within a step of the Result (AgUiInv, SdkInv).  The frames are     *)
(* looked at as they are made, because a transport that fails while the    *)
(* encoder goes on has got a prefix of them (SeenInv).                     *)
(***************************************************************************)
EXTENDS EncoderProofs

-----------------------------------------------------------------------------
(* The inductive invariant. *)

\* The events that leave the meters of the Result alone.
Neutral(event) == event.type \notin {"stepStart", "usage", "stepEnd", "error"}

AllNeutral(events) == IsSequence(events) /\ \A i \in DOMAIN events : Neutral(events[i])

\* A sequence of events in which only the first one may move the meters.
Led(events, first) ==
    events # <<>> /\ IsSequence(events) /\ Head(events) = first /\ AllNeutral(Tail(events))

ReducerOk(r) ==
    /\ DOMAIN r = {"transcript", "initial", "steps", "current", "currentUsage", "completedUsage",
                   "usage", "results", "pending", "sources", "files", "object", "messageID", "reason"}
    /\ r.steps \in Nat
    /\ "open" \in DOMAIN r.current /\ r.current.open \in BOOLEAN
    /\ r.currentUsage \in Usage /\ r.completedUsage \in Usage /\ r.usage \in Usage

SinkOk(s) ==
    /\ DOMAIN s = {"open", "broken", "failed", "done", "finishes", "wire", "seen"}
    /\ s.open \in BOOLEAN /\ s.finishes \in 0 .. 1
    /\ s.open => s.finishes = 0

TurnOk(t) ==
    /\ DOMAIN t = {"text", "reasoning", "usage", "fold", "messageID", "reason"}
    /\ t.usage \in Usage

BatchOk(calls) ==
    \A i \in DOMAIN calls :
        /\ DOMAIN calls[i] = {"call", "kind", "stage"}
        /\ calls[i].kind \in Kinds
        /\ calls[i].stage \in {"waiting", "announced", "decided", "committed"}

Types ==
    /\ config \in Configs
    /\ phase \in {"resuming", "between", "model", "tools", "closed"}
    /\ step \in 0 .. Len(config.turns)
    /\ phase = "model" => IsAnswer(rest)
    /\ TurnOk(turn) /\ BatchOk(batch)
    /\ spent \in Usage
    /\ ReducerOk(reducer) /\ SinkOk(sink)
    /\ reducer.steps + (IF reducer.current.open THEN 1 ELSE 0) <= step

\* At most the first event in flight moves the meters.
QueueInv == sink.open /\ queue # <<>> => Led(queue, Head(queue))

\* Where the Result stands within a step, and outside of one.
Within  == reducer.current.open /\ reducer.completedUsage = spent /\ reducer.steps = step - 1
Outside == ~ reducer.current.open /\ reducer.completedUsage = spent /\ reducer.usage = spent

UpToDate      == queue = <<>> \/ Neutral(Head(queue))
Pending(type) == queue # <<>> /\ Head(queue).type = type

Counted ==
    IF phase \in {"model", "tools"}
    THEN /\ Within /\ reducer.currentUsage = turn.usage
         /\ reducer.usage = AddUsage(spent, turn.usage)
    ELSE Outside /\ reducer.steps = step

CountedInv == UpToDate => Counted

\* What the Result has yet to learn from the first event.
PendingInv ==
    /\ Pending("stepStart") =>
         phase = "model" /\ Outside /\ reducer.steps = step - 1 /\ turn.usage = NoUsage
    /\ Pending("usage") =>
         phase = "model" /\ Within /\ Head(queue).usage = turn.usage
    /\ Pending("stepEnd") =>
         /\ phase \in {"between", "closed"} /\ reducer.current.open /\ reducer.steps = step - 1
         /\ AddUsage(reducer.completedUsage, reducer.currentUsage) = spent /\ reducer.usage = spent

IndInv == Types /\ QueueInv /\ (sink.open => CountedInv /\ PendingInv)

-----------------------------------------------------------------------------
(* The invariant of the frames and of the wire. *)

\* What is in flight: streamed events come alone and within the step they belong to, Done comes
\* last, and a run that is over has said so or failed.
FlightInv ==
    /\ \A i \in DOMAIN queue :
         /\ queue[i].type \in EventTypes
         /\ queue[i].type \in Streamed => Len(queue) = 1 /\ phase = "model" /\ reducer.current.open
         /\ queue[i].type = "done" => i = Len(queue) /\ phase = "closed"
    /\ phase = "closed" => IF queue = <<>> THEN sink.done ELSE queue[Len(queue)].type \in {"done", "error"}
    /\ sink.done => /\ phase = "closed" /\ ~ reducer.current.open
                    /\ queue = <<>> \/ Head(queue).type = "error"
    /\ Pending("usage") => MergeUsage(reducer.currentUsage, Head(queue).usage) = Head(queue).usage
    /\ reducer.current.open => reducer.usage = AddUsage(reducer.completedUsage, reducer.currentUsage)

\* The call of this id has an index that no call still to come shares.
HasIndex(id) ==
    \E index \in DOMAIN turn.fold : \A i \in DOMAIN rest :
        rest[i].type = "toolCall" /\ rest[i].id = id => rest[i].index = index

IdsInv ==
    phase = "model" =>
        /\ OwnIds(rest)
        /\ \A id \in enc.openTools : HasIndex(id)
        /\ Pending("toolCallStart") =>
             Head(queue).id \notin enc.openTools /\ (Head(queue).id # NoId => HasIndex(Head(queue).id))

AgUiInv ==
    /\ AgUiOk(enc)
    /\ FramesPair(sink.seen) /\ StillOpen(sink.seen, Len(sink.seen)) = AgUiBlocks(enc)
    /\ Terminals(sink.seen) = {}
    /\ AgUiBlocks(enc) # {} => reducer.current.open
    /\ enc.totalUsage = reducer.completedUsage
    /\ enc.stepUsage = IF reducer.current.open THEN reducer.currentUsage ELSE NoUsage
    /\ IdsInv

SdkInv ==
    /\ SdkOk(enc)
    /\ enc.text \/ enc.reasoning => reducer.current.open
    /\ enc.total = reducer.usage /\ enc.current = reducer.currentUsage
    /\ enc.finished = sink.done
    /\ IF sink.done THEN FinishIsLast(sink.seen, ChunkUsage(spent)) ELSE Terminals(sink.seen) = {}

\* What is written is what was made, up to the write that failed.
SeenInv ==
    /\ IsSequence(sink.wire) /\ IsSequence(sink.seen)
    /\ IsPrefix(sink.wire, sink.seen) /\ (~ sink.broken => sink.wire = sink.seen)
    /\ sink.open => sink.done \in BOOLEAN /\ ~ sink.failed /\ (IsPipe => ~ sink.broken)

WireInv ==
    /\ SeenInv
    /\ IF sink.open THEN FlightInv /\ (IF IsAgUi THEN AgUiInv ELSE SdkInv)
                    ELSE WireIsWellFormed /\ WireCountsUsageOnce

-----------------------------------------------------------------------------
(* Batches of events. *)

\* Events that are all neutral.
LEMMA NoneIsNeutral == AllNeutral(<<>>)
BY NoneIsSequence DEF AllNeutral

LEMMA OneIsNeutral ==
    ASSUME NEW e, Neutral(e)
    PROVE  AllNeutral(<<e>>)
<1>1. DOMAIN <<e>> = {1} /\ <<e>>[1] = e
  OBVIOUS
<1>2. QED BY <1>1, OneIsSequence DEF AllNeutral

LEMMA OptionIsNeutral ==
    ASSUME NEW condition, NEW e, Neutral(e)
    PROVE  AllNeutral(Option(condition, e))
<1>1. CASE condition
  BY <1>1, OneIsNeutral DEF Option
<1>2. CASE ~ condition
  BY <1>2, NoneIsNeutral DEF Option
<1>3. QED BY <1>1, <1>2

LEMMA NeutralConcat ==
    ASSUME NEW s, NEW t, AllNeutral(s), AllNeutral(t)
    PROVE  AllNeutral(s \o t)
<1>1. IsSequence(s) /\ IsSequence(t) /\ IsSequence(s \o t)
  BY ConcatIsSequence DEF AllNeutral
<1> PICK m, n, st : m = Len(s) /\ n = Len(t) /\ st = s \o t
  OBVIOUS
<1> m \in Nat /\ n \in Nat
  BY <1>1, SequenceShape
<1>2. /\ DOMAIN s = 1 .. m /\ DOMAIN t = 1 .. n /\ DOMAIN st = 1 .. m + n
      /\ \A i \in 1 .. m : st[i] = s[i]
      /\ \A i \in 1 .. n : st[m + i] = t[i]
  BY <1>1, SequenceShape, ConcatIsSequence
<1>3. ASSUME NEW i \in 1 .. m + n PROVE Neutral(st[i])
  <2>1. CASE i \in 1 .. m
    BY <1>2, <2>1 DEF AllNeutral
  <2>2. CASE i \notin 1 .. m
    <3>1. i - m \in 1 .. n /\ i = m + (i - m)
      BY <2>2
    <3>2. st[i] = t[i - m]
      BY <1>2, <3>1
    <3>3. QED BY <1>2, <3>1, <3>2 DEF AllNeutral
  <2>3. QED BY <2>1, <2>2
<1>4. QED BY <1>1, <1>2, <1>3 DEF AllNeutral

LEMMA NeutralTail ==
    ASSUME NEW s, AllNeutral(s), s # <<>>
    PROVE  Led(s, Head(s)) /\ Neutral(Head(s))
<1>1. /\ IsSequence(s) /\ IsSequence(Tail(s)) /\ Len(s) > 0 /\ Len(Tail(s)) = Len(s) - 1
      /\ Head(s) = s[1] /\ Len(s) \in Nat /\ DOMAIN s = 1 .. Len(s)
      /\ \A i \in 1 .. Len(s) - 1 : Tail(s)[i] = s[i + 1]
  BY TailIsSequence, SequenceShape DEF AllNeutral
<1>2. 1 \in DOMAIN s /\ \A i \in 1 .. Len(s) - 1 : i + 1 \in DOMAIN s
  BY <1>1
<1>3. DOMAIN Tail(s) = 1 .. Len(s) - 1
  BY <1>1, SequenceShape
<1>4. \A i \in DOMAIN Tail(s) : Neutral(Tail(s)[i])
  BY <1>1, <1>2, <1>3 DEF AllNeutral
<1>5. QED BY <1>1, <1>2, <1>4 DEF AllNeutral, Led

LEMMA LedByOne ==
    ASSUME NEW e
    PROVE  Led(<<e>>, e)
<1>1. <<e>> # <<>> /\ Head(<<e>>) = e /\ Tail(<<e>>) = <<>>
  OBVIOUS
<1>2. QED BY <1>1, OneIsSequence, NoneIsNeutral DEF Led

LEMMA LedConcat ==
    ASSUME NEW s, NEW t, NEW e, Led(s, e), AllNeutral(t)
    PROVE  Led(s \o t, e)
<1>1. IsSequence(s) /\ IsSequence(t) /\ IsSequence(s \o t) /\ s # <<>> /\ Head(s) = e
  BY ConcatIsSequence DEF Led, AllNeutral
<1> PICK m, n, st : m = Len(s) /\ n = Len(t) /\ st = s \o t
  OBVIOUS
<1> m \in Nat /\ n \in Nat /\ m > 0
  BY <1>1, SequenceShape, TailIsSequence
<1>2. /\ DOMAIN s = 1 .. m /\ DOMAIN t = 1 .. n /\ Len(st) = m + n
      /\ \A i \in 1 .. m : st[i] = s[i]
      /\ \A i \in 1 .. n : st[m + i] = t[i]
  BY <1>1, SequenceShape, ConcatIsSequence
<1>3. /\ st # <<>> /\ IsSequence(Tail(st)) /\ DOMAIN Tail(st) = 1 .. (m + n) - 1 /\ Head(st) = st[1]
      /\ \A i \in 1 .. (m + n) - 1 : Tail(st)[i] = st[i + 1]
  <2>1. st # <<>> /\ IsSequence(st)
    BY <1>1, <1>2, SequenceShape
  <2>2. /\ IsSequence(Tail(st)) /\ Len(Tail(st)) = Len(st) - 1 /\ Head(st) = st[1]
        /\ \A i \in 1 .. Len(st) - 1 : Tail(st)[i] = st[i + 1]
    BY <2>1, TailIsSequence
  <2>3. QED BY <1>2, <2>1, <2>2, SequenceShape
<1>4. /\ DOMAIN Tail(s) = 1 .. m - 1 /\ s[1] = e
      /\ \A i \in 1 .. m - 1 : Tail(s)[i] = s[i + 1] /\ Neutral(Tail(s)[i])
  <2>1. /\ IsSequence(Tail(s)) /\ Len(Tail(s)) = Len(s) - 1 /\ Head(s) = s[1]
        /\ \A i \in 1 .. Len(s) - 1 : Tail(s)[i] = s[i + 1]
    BY <1>1, TailIsSequence
  <2>2. DOMAIN Tail(s) = 1 .. m - 1
    BY <1>2, <2>1, SequenceShape
  <2>3. QED BY <1>1, <1>2, <2>1, <2>2 DEF Led, AllNeutral
<1>5. ASSUME NEW i \in 1 .. (m + n) - 1 PROVE Neutral(Tail(st)[i])
  <2>1. CASE i \in 1 .. m - 1
    <3>1. i + 1 \in 1 .. m
      BY <2>1
    <3>2. Tail(st)[i] = Tail(s)[i]
      BY <1>2, <1>3, <1>4, <2>1, <3>1
    <3>3. QED BY <1>4, <2>1, <3>2
  <2>2. CASE i \notin 1 .. m - 1
    <3>1. (i + 1) - m \in 1 .. n /\ i + 1 = m + ((i + 1) - m)
      BY <1>2, <2>2
    <3>2. Tail(st)[i] = t[(i + 1) - m]
      BY <1>2, <1>3, <3>1
    <3>3. QED BY <1>2, <3>1, <3>2 DEF AllNeutral
  <2>3. QED BY <2>1, <2>2
<1>6. st[1] = e
  BY <1>2, <1>4
<1>7. QED BY <1>1, <1>2, <1>3, <1>5, <1>6 DEF Led, AllNeutral

-----------------------------------------------------------------------------
(* The meters of the Result (agent/result.go). *)

SameMeters(r, s) ==
    /\ r.steps = s.steps /\ r.current.open = s.current.open
    /\ r.currentUsage = s.currentUsage /\ r.completedUsage = s.completedUsage /\ r.usage = s.usage

\* Assigning to another field leaves the meters alone.
LEMMA OtherFields ==
    ASSUME NEW r, NEW v, ReducerOk(r)
    PROVE  /\ ReducerOk(r) /\ SameMeters(r, r)
           /\ ReducerOk([r EXCEPT !.transcript = v]) /\ SameMeters([r EXCEPT !.transcript = v], r)
           /\ ReducerOk([r EXCEPT !.results = v]) /\ SameMeters([r EXCEPT !.results = v], r)
           /\ ReducerOk([r EXCEPT !.pending = v]) /\ SameMeters([r EXCEPT !.pending = v], r)
           /\ ReducerOk([r EXCEPT !.sources = v]) /\ SameMeters([r EXCEPT !.sources = v], r)
           /\ ReducerOk([r EXCEPT !.files = v]) /\ SameMeters([r EXCEPT !.files = v], r)
           /\ ReducerOk([r EXCEPT !.object = v]) /\ SameMeters([r EXCEPT !.object = v], r)
BY DEF ReducerOk, SameMeters

\* So does a change of the step that neither opens nor closes it.
LEMMA OtherStep ==
    ASSUME NEW r, NEW c, ReducerOk(r), "open" \in DOMAIN c, c.open = r.current.open
    PROVE  ReducerOk([r EXCEPT !.current = c]) /\ SameMeters([r EXCEPT !.current = c], r)
BY DEF ReducerOk, SameMeters

\* The handlers of an open step keep it open.
LEMMA CallHandlers ==
    ASSUME NEW c, NEW e, "open" \in DOMAIN c
    PROVE  /\ "open" \in DOMAIN StartToolCall(c, e) /\ StartToolCall(c, e).open = c.open
           /\ "open" \in DOMAIN AppendToolCall(c, e) /\ AppendToolCall(c, e).open = c.open
           /\ "open" \in DOMAIN ReadyToolCall(c, e) /\ ReadyToolCall(c, e).open = c.open
           /\ "open" \in DOMAIN MarkApproval(c, e) /\ MarkApproval(c, e).open = c.open
           /\ "open" \in DOMAIN AppendFile(c, e) /\ AppendFile(c, e).open = c.open
<1>1. "open" \in DOMAIN StartToolCall(c, e) /\ StartToolCall(c, e).open = c.open
  BY DEF StartToolCall
<1>2. "open" \in DOMAIN AppendToolCall(c, e) /\ AppendToolCall(c, e).open = c.open
  BY DEF AppendToolCall
<1>3. "open" \in DOMAIN ReadyToolCall(c, e) /\ ReadyToolCall(c, e).open = c.open
  BY <1>1 DEF ReadyToolCall
<1>4. "open" \in DOMAIN MarkApproval(c, e) /\ MarkApproval(c, e).open = c.open
  BY DEF MarkApproval
<1>5. "open" \in DOMAIN AppendFile(c, e) /\ AppendFile(c, e).open = c.open
  BY DEF AppendFile
<1>6. QED BY <1>1, <1>2, <1>3, <1>4, <1>5

LEMMA MetersChain ==
    ASSUME NEW r, NEW s, NEW t, SameMeters(r, s), SameMeters(s, t)
    PROVE  SameMeters(r, t)
BY DEF SameMeters

\* Whatever else a run reports - text, thinking, calls, results, approvals, sources, files -
\* moves no meter.
LEMMA ConsumeNeutral ==
    ASSUME NEW r, NEW e, ReducerOk(r), Neutral(e)
    PROVE  ReducerOk(Consume(r, e)) /\ SameMeters(Consume(r, e), r)
<1> DEFINE s == Consume(r, e)
           Kept == ReducerOk(s) /\ SameMeters(s, r)
<1> "open" \in DOMAIN r.current
  BY DEF ReducerOk
<1>1. CASE e.type \in StepOnly /\ ~ r.current.open
  BY <1>1, OtherFields DEF Consume
<1>2. CASE ~ (e.type \in StepOnly /\ ~ r.current.open)
  <2>1. CASE e.type = "text"
    <3>1. PICK c : c = [r.current EXCEPT !.text = r.current.text \o e.text,
                          !.content = AppendDelta(r.current.content, "text", e.text, NoSig)]
      OBVIOUS
    <3>2. s = [r EXCEPT !.current = c]
      BY <1>2, <2>1, <3>1 DEF Consume, ReducerOk
    <3>3. "open" \in DOMAIN c /\ c.open = r.current.open
      BY <3>1
    <3>4. QED BY <3>2, <3>3, OtherStep
  <2>2. CASE e.type = "reasoning"
    <3>1. PICK c : c = [r.current EXCEPT !.reasoning = r.current.reasoning \o e.text,
                          !.content = AppendDelta(r.current.content, "reasoning", e.text, e.sig)]
      OBVIOUS
    <3>2. s = [r EXCEPT !.current = c]
      BY <1>2, <2>2, <3>1 DEF Consume, ReducerOk
    <3>3. "open" \in DOMAIN c /\ c.open = r.current.open
      BY <3>1
    <3>4. QED BY <3>2, <3>3, OtherStep
  <2>3. CASE e.type = "toolCallStart"
    <3>1. s = [r EXCEPT !.current = StartToolCall(r.current, e)]
      BY <1>2, <2>3 DEF Consume
    <3>2. QED BY <3>1, CallHandlers, OtherStep
  <2>4. CASE e.type = "toolCallDelta"
    <3>1. s = [r EXCEPT !.current = AppendToolCall(r.current, e)]
      BY <1>2, <2>4 DEF Consume
    <3>2. QED BY <3>1, CallHandlers, OtherStep
  <2>5. CASE e.type = "ready"
    <3>1. s = [r EXCEPT !.current = ReadyToolCall(r.current, e)]
      BY <1>2, <2>5 DEF Consume
    <3>2. QED BY <3>1, CallHandlers, OtherStep
  <2>6. CASE e.type = "result"
    <3>1. s = ConsumeToolResult(r, e.result)
      BY <1>2, <2>6 DEF Consume
    <3>2. PICK v, w : v = Append(r.results, e.result) /\ w = RemoveApproval(r.pending, e.result.id)
      OBVIOUS
    <3>3. PICK one, kept : one = [r EXCEPT !.results = v] /\ kept = [one EXCEPT !.pending = w]
      OBVIOUS
    <3>4. kept = [r EXCEPT !.results = Append(@, e.result), !.pending = RemoveApproval(@, e.result.id)]
      BY <3>2, <3>3 DEF ReducerOk
    <3>5. /\ ReducerOk(kept) /\ SameMeters(kept, r)
      <4>1. ReducerOk(one) /\ SameMeters(one, r)
        BY <3>3, OtherFields
      <4>2. ReducerOk(kept) /\ SameMeters(kept, one)
        BY <3>3, <4>1, OtherFields
      <4>3. QED BY <4>1, <4>2, MetersChain
    <3>6. CASE r.current.open
      <4>1. kept.current = r.current /\ kept.current.open
        BY <3>3, <3>6, <3>5 DEF ReducerOk, SameMeters
      <4>2. s = [kept EXCEPT !.current = [kept.current EXCEPT !.results = Append(@, e.result)]]
        BY <3>1, <3>4, <3>6, <4>1 DEF ConsumeToolResult, ReducerOk
      <4>3. ReducerOk(s) /\ SameMeters(s, kept)
        <5>1. PICK c : c = [kept.current EXCEPT !.results = Append(@, e.result)]
          OBVIOUS
        <5>2. "open" \in DOMAIN c /\ c.open = kept.current.open
          BY <4>1, <5>1
        <5>3. QED BY <3>5, <4>2, <5>1, <5>2, OtherStep
      <4>4. QED BY <3>5, <4>3, MetersChain
    <3>7. CASE ~ r.current.open
      <4>1. s = [kept EXCEPT !.transcript = Append(@, ToolResultMessage(e.result))]
        BY <3>1, <3>4, <3>7 DEF ConsumeToolResult
      <4>2. ReducerOk(s) /\ SameMeters(s, kept)
        BY <3>5, <4>1, OtherFields
      <4>3. QED BY <3>5, <4>2, MetersChain
    <3>8. QED BY <3>6, <3>7
  <2>7. CASE e.type = "approvalRequest"
    <3>1. PICK v, c : /\ v = Append(r.pending, [id |-> e.id, approval |-> e.approval])
                      /\ c = IF r.current.open THEN MarkApproval(r.current, e) ELSE r.current
      OBVIOUS
    <3>2. s = [[r EXCEPT !.pending = v] EXCEPT !.current = c]
      BY <1>2, <2>7, <3>1 DEF Consume, ReducerOk
    <3>3. "open" \in DOMAIN c /\ c.open = r.current.open
      BY <3>1, CallHandlers
    <3>4. PICK one : one = [r EXCEPT !.pending = v]
      OBVIOUS
    <3>5. ReducerOk(one) /\ SameMeters(one, r)
      BY <3>4, OtherFields
    <3>6. ReducerOk(s) /\ SameMeters(s, one)
      <4>1. s = [one EXCEPT !.current = c]
        BY <3>2, <3>4
      <4>2. c.open = one.current.open
        BY <3>3, <3>5 DEF SameMeters
      <4>3. QED BY <3>3, <3>5, <4>1, <4>2, OtherStep
    <3>7. QED BY <3>5, <3>6, MetersChain
  <2>8. CASE e.type = "source"
    <3>1. s = [r EXCEPT !.sources = Append(r.sources, e.url)]
      BY <1>2, <2>8 DEF Consume
    <3>2. QED BY <3>1, OtherFields
  <2>9. CASE e.type = "file"
    <3>1. PICK v, c : /\ v = Append(r.files, e.data)
                      /\ c = IF r.current.open
                             THEN AppendFile(r.current, e) ELSE r.current
      OBVIOUS
    <3>2. s = [[r EXCEPT !.files = v] EXCEPT !.current = c]
      BY <1>2, <2>9, <3>1 DEF Consume, ReducerOk
    <3>3. "open" \in DOMAIN c /\ c.open = r.current.open
      BY <3>1, CallHandlers
    <3>4. PICK one : one = [r EXCEPT !.files = v]
      OBVIOUS
    <3>5. ReducerOk(one) /\ SameMeters(one, r)
      BY <3>4, OtherFields
    <3>6. ReducerOk(s) /\ SameMeters(s, one)
      <4>1. s = [one EXCEPT !.current = c]
        BY <3>2, <3>4
      <4>2. c.open = one.current.open
        BY <3>3, <3>5 DEF SameMeters
      <4>3. QED BY <3>3, <3>5, <4>1, <4>2, OtherStep
    <3>7. QED BY <3>5, <3>6, MetersChain
  <2>10. CASE e.type = "structuredOutput"
    <3>1. s = [r EXCEPT !.object = e.object]
      BY <1>2, <2>10 DEF Consume
    <3>2. QED BY <3>1, OtherFields
  <2>11. CASE e.type \notin {"text", "reasoning", "toolCallStart", "toolCallDelta", "ready", "result",
                             "approvalRequest", "source", "file", "structuredOutput"}
    <3>1. s = r
      BY <1>2, <2>11 DEF Consume, Neutral
    <3>2. QED BY <3>1, OtherFields
  <2>12. QED BY <2>1, <2>2, <2>3, <2>4, <2>5, <2>6, <2>7, <2>8, <2>9, <2>10, <2>11
<1>3. QED BY <1>1, <1>2

\* The three events that move them.
LEMMA ConsumeStepStart ==
    ASSUME NEW r, NEW e, ReducerOk(r), e.type = "stepStart"
    PROVE  /\ ReducerOk(Consume(r, e))
           /\ Consume(r, e).current.open /\ Consume(r, e).currentUsage = NoUsage
           /\ Consume(r, e).steps = r.steps /\ Consume(r, e).completedUsage = r.completedUsage
           /\ Consume(r, e).usage = r.usage
<1>1. Consume(r, e) = [r EXCEPT !.current = OpenStep, !.currentUsage = NoUsage]
  BY DEF Consume, StepOnly
<1>2. OpenStep.open /\ "open" \in DOMAIN OpenStep /\ OpenStep.open \in BOOLEAN
  BY DEF OpenStep
<1>3. QED BY <1>1, <1>2, NoUsageShape DEF ReducerOk

LEMMA ConsumeUsageEvent ==
    ASSUME NEW r, NEW e, ReducerOk(r), e.type = "usage", e.usage \in Usage
    PROVE  /\ ReducerOk(Consume(r, e))
           /\ Consume(r, e).current.open = r.current.open /\ Consume(r, e).currentUsage = e.usage
           /\ Consume(r, e).steps = r.steps /\ Consume(r, e).completedUsage = r.completedUsage
           /\ Consume(r, e).usage = AddUsage(r.completedUsage, e.usage)
<1>1. Consume(r, e) = [r EXCEPT !.currentUsage = e.usage, !.usage = AddUsage(r.completedUsage, e.usage)]
  BY DEF Consume, StepOnly, ConsumeUsage
<1>2. AddUsage(r.completedUsage, e.usage) \in Usage
  BY UsageAdds DEF ReducerOk
<1>3. QED BY <1>1, <1>2 DEF ReducerOk

LEMMA ConsumeStepEnd ==
    ASSUME NEW r, NEW e, ReducerOk(r), e.type = "stepEnd", r.current.open
    PROVE  /\ ReducerOk(Consume(r, e))
           /\ ~ Consume(r, e).current.open
           /\ Consume(r, e).steps = r.steps + 1 /\ Consume(r, e).usage = r.usage
           /\ Consume(r, e).completedUsage = AddUsage(r.completedUsage, r.currentUsage)
<1>1. Consume(r, e) = FinishStep(r, e)
  BY DEF Consume
<1>2. AddUsage(r.completedUsage, r.currentUsage) \in Usage
  BY UsageAdds DEF ReducerOk
<1>3. ~ NoStep.open /\ "open" \in DOMAIN NoStep /\ NoStep.open \in BOOLEAN
  BY DEF NoStep
<1>4. QED BY <1>1, <1>2, <1>3 DEF ReducerOk, FinishStep

-----------------------------------------------------------------------------
(* What the run emits. *)

LEMMA PairIsNeutral ==
    ASSUME NEW a, NEW b, Neutral(a), Neutral(b)
    PROVE  AllNeutral(<<a, b>>)
<1>1. <<a, b>> \in Seq({a, b}) /\ DOMAIN <<a, b>> = {1, 2} /\ <<a, b>>[1] = a /\ <<a, b>>[2] = b
  OBVIOUS
<1>2. IsSequence(<<a, b>>)
  BY <1>1, SequenceOverItself
<1>3. QED BY <1>1, <1>2 DEF AllNeutral

LEMMA TripleIsNeutral ==
    ASSUME NEW a, NEW b, NEW c, Neutral(a), Neutral(b), Neutral(c)
    PROVE  AllNeutral(<<a, b, c>>)
<1>1. /\ <<a, b, c>> \in Seq({a, b, c}) /\ DOMAIN <<a, b, c>> = {1, 2, 3}
      /\ <<a, b, c>>[1] = a /\ <<a, b, c>>[2] = b /\ <<a, b, c>>[3] = c
  OBVIOUS
<1>2. IsSequence(<<a, b, c>>)
  BY <1>1, SequenceOverItself
<1>3. QED BY <1>1, <1>2 DEF AllNeutral

\* What is emitted of a call, of an approval and of its result.
LEMMA CallStepsAreNeutral ==
    ASSUME NEW call, NEW result
    PROVE  /\ Neutral(ReadyStep(call)) /\ Neutral(ResultStep(result))
           /\ Neutral(ApprovalRequestStep(call)) /\ Neutral(OutputDeniedStep(call.id))
           /\ Neutral(CallStep("invalid", call.id, call.name, call.args, NoSig))
           /\ Neutral(CallStep("clientRequest", call.id, call.name, call.args, NoSig))
BY DEF Neutral, ReadyStep, ResultStep, ApprovalRequestStep, OutputDeniedStep, CallStep

LEMMA CallEventsAreNeutral ==
    ASSUME NEW call, NEW kind
    PROVE  /\ AllNeutral(CallEvents(call, kind)) /\ CallEvents(call, kind) # <<>>
           /\ AllNeutral(Tail(CallEvents(call, kind)))
<1>1. AllNeutral(CallEvents(call, kind)) /\ CallEvents(call, kind) # <<>>
  <2>1. CASE kind = "invalid"
    <3>1. CallEvents(call, kind) = <<CallStep("invalid", call.id, call.name, call.args, NoSig)>>
      BY <2>1 DEF CallEvents
    <3>2. QED BY <3>1, CallStepsAreNeutral, OneIsNeutral
  <2>2. CASE kind = "client"
    <3>1. CallEvents(call, kind) = <<ReadyStep(call), CallStep("clientRequest", call.id, call.name,
                                                               call.args, NoSig)>>
      BY <2>2 DEF CallEvents
    <3>2. QED BY <3>1, CallStepsAreNeutral, PairIsNeutral
  <2>3. CASE kind \in {"pending", "granted"}
    <3>1. CallEvents(call, kind) = <<ReadyStep(call), ApprovalRequestStep(call)>>
      BY <2>3 DEF CallEvents
    <3>2. QED BY <3>1, CallStepsAreNeutral, PairIsNeutral
  <2>4. CASE kind = "denied"
    <3>1. CallEvents(call, kind) = <<ReadyStep(call), ApprovalRequestStep(call), OutputDeniedStep(call.id)>>
      BY <2>4 DEF CallEvents
    <3>2. QED BY <3>1, CallStepsAreNeutral, TripleIsNeutral
  <2>5. CASE kind \notin {"invalid", "client", "pending", "granted", "denied"}
    <3>1. CallEvents(call, kind) = <<ReadyStep(call)>>
      BY <2>5 DEF CallEvents
    <3>2. QED BY <3>1, CallStepsAreNeutral, OneIsNeutral
  <2>6. QED BY <2>1, <2>2, <2>3, <2>4, <2>5
<1>2. QED BY <1>1, NeutralTail DEF Led

\* The next event of a provider's answer (agent/stream.go).
LEMMA AnswerEvent ==
    ASSUME NEW events, IsAnswer(events), events # <<>>
    PROVE  /\ Head(events).type \in {"text", "reasoning", "usage", "source", "file", "finish", "toolCall"}
           /\ Head(events).type = "usage" => Head(events).usage \in Usage
           /\ IsAnswer(Tail(events))
<1>1. IsSequence(events)
  BY DEF IsAnswer, IsSequence
<1>2. PICK m : m = Len(events)
  OBVIOUS
<1>3. /\ m \in Nat /\ m > 0 /\ DOMAIN events = 1 .. m /\ Head(events) = events[1]
      /\ IsSequence(Tail(events)) /\ DOMAIN Tail(events) = 1 .. m - 1
      /\ \A i \in 1 .. m - 1 : Tail(events)[i] = events[i + 1]
  BY <1>1, <1>2, SequenceShape, TailIsSequence
<1>4. 1 \in DOMAIN events /\ \A i \in DOMAIN Tail(events) : i + 1 \in DOMAIN events
  BY <1>3
<1>5. \A i \in DOMAIN Tail(events) : Tail(events)[i] = events[i + 1]
  BY <1>3
<1>6. QED BY <1>3, <1>4, <1>5 DEF IsAnswer, IsSequence

LEMMA AnswerEventEmits ==
    ASSUME NEW t, NEW e, TurnOk(t), e.type = "usage" => e.usage \in Usage,
           e.type \in {"text", "reasoning", "usage", "source", "file", "finish", "toolCall"}
    PROVE  /\ TurnOk(TurnAfter(t, e))
           /\ e.type = "usage" => StepEventsOf(t, e) = <<UsageStep(TurnAfter(t, e).usage)>>
           /\ e.type # "usage" => AllNeutral(StepEventsOf(t, e)) /\ TurnAfter(t, e).usage = t.usage
<1>1. CASE e.type = "usage"
  <2>1. TurnAfter(t, e) = [t EXCEPT !.usage = MergeUsage(t.usage, e.usage)]
    BY <1>1 DEF TurnAfter
  <2>2. MergeUsage(t.usage, e.usage) \in Usage
    BY <1>1, UsageAdds DEF TurnOk
  <2>3. TurnOk(TurnAfter(t, e)) /\ TurnAfter(t, e).usage = MergeUsage(t.usage, e.usage)
    BY <2>1, <2>2 DEF TurnOk
  <2>4. StepEventsOf(t, e) = <<UsageStep(MergeUsage(t.usage, e.usage))>>
    BY <1>1 DEF StepEventsOf
  <2>5. QED BY <1>1, <2>3, <2>4
<1>2. CASE e.type # "usage"
  <2>1. TurnOk(TurnAfter(t, e)) /\ TurnAfter(t, e).usage = t.usage
    BY <1>2 DEF TurnAfter, TurnOk
  <2>2. AllNeutral(StepEventsOf(t, e))
    <3>1. CASE e.type = "text"
      <4>1. StepEventsOf(t, e) = <<TextStep(e.text)>> /\ Neutral(TextStep(e.text))
        BY <3>1 DEF StepEventsOf, Neutral, TextStep
      <4>2. QED BY <4>1, OneIsNeutral
    <3>2. CASE e.type = "reasoning"
      <4>1. StepEventsOf(t, e) = <<ReasoningStep(e.text, e.sig)>> /\ Neutral(ReasoningStep(e.text, e.sig))
        BY <3>2 DEF StepEventsOf, Neutral, ReasoningStep
      <4>2. QED BY <4>1, OneIsNeutral
    <3>3. CASE e.type = "source"
      <4>1. StepEventsOf(t, e) = <<SourceStep(e.url)>> /\ Neutral(SourceStep(e.url))
        BY <3>3 DEF StepEventsOf, Neutral, SourceStep
      <4>2. QED BY <4>1, OneIsNeutral
    <3>4. CASE e.type = "file"
      <4>1. StepEventsOf(t, e) = <<FileStep(e.data)>> /\ Neutral(FileStep(e.data))
        BY <3>4 DEF StepEventsOf, Neutral, FileStep
      <4>2. QED BY <4>1, OneIsNeutral
    <3>5. CASE e.type = "finish"
      BY <3>5, NoneIsNeutral DEF StepEventsOf
    <3>6. CASE e.type = "toolCall"
      <4>1. PICK start, delta : /\ start = CallStep("toolCallStart", e.id, e.name, e.args, e.sig)
                                /\ delta = CallStep("toolCallDelta", e.id, "", e.args, NoSig)
        OBVIOUS
      <4>2. Neutral(start) /\ Neutral(delta)
        BY <4>1 DEF Neutral, CallStep
      <4>3. StepEventsOf(t, e) = IF IsNewCall(t.fold, e) THEN <<start>>
                                 ELSE Option(e.args # <<>>, delta)
        BY <3>6, <4>1 DEF StepEventsOf
      <4>4. QED BY <4>2, <4>3, OneIsNeutral, OptionIsNeutral
    <3>7. QED BY <1>2, <3>1, <3>2, <3>3, <3>4, <3>5, <3>6
  <2>3. QED BY <1>2, <2>1, <2>2
<1>3. QED BY <1>1, <1>2

-----------------------------------------------------------------------------
(* The steps of the run (agent/step.go). *)

\* Of the types, what a step of the run has to show.
LEMMA RunTypes ==
    ASSUME Types, UNCHANGED <<config, reducer, sink>>,
           phase' \in {"resuming", "between", "model", "tools", "closed"},
           step' \in 0 .. Len(config.turns), step <= step',
           phase' = "model" => IsAnswer(rest'),
           TurnOk(turn'), BatchOk(batch'), spent' \in Usage
    PROVE  Types'
<1>1. reducer.steps + (IF reducer.current.open THEN 1 ELSE 0) <= step'
  <2>1. /\ reducer.steps + (IF reducer.current.open THEN 1 ELSE 0) <= step
        /\ reducer.steps \in Nat
    BY DEF Types, ReducerOk
  <2>2. step \in Int /\ step' \in Int
    BY DEF Types
  <2>3. QED BY <2>1, <2>2
<1>2. ReducerOk(reducer) /\ SinkOk(sink) /\ config \in Configs
  BY DEF Types
<1>3. QED BY <1>1, <1>2 DEF Types

\* A step after which the consumer has nothing to catch up with.
LEMMA Quiet ==
    ASSUME Types', AllNeutral(queue'), Counted'
    PROVE  IndInv'
<1>1. queue' # <<>> => Led(queue', Head(queue')) /\ Neutral(Head(queue'))
  BY NeutralTail
<1>2. QueueInv'
  BY <1>1 DEF QueueInv
<1>3. CountedInv'
  BY DEF CountedInv
<1>4. PendingInv'
  BY <1>1 DEF PendingInv, Pending, Neutral
<1>5. QED BY <1>2, <1>3, <1>4 DEF IndInv

\* When the run moves, the consumer is up to date.
LEMMA RunMoves ==
    ASSUME IndInv, Running
    PROVE  Types /\ Counted /\ sink.open /\ Len(config.turns) \in Nat
<1>1. sink.open /\ queue = <<>> /\ Types
  BY DEF Running, IndInv
<1>2. Counted
  BY <1>1 DEF IndInv, CountedInv, UpToDate
<1>3. Len(config.turns) \in Nat
  BY <1>1, RunOutputsAssumption DEF Types
<1>4. QED BY <1>1, <1>2, <1>3

LEMMA ResumeCallStep ==
    ASSUME IndInv, ResumeCall
    PROVE  IndInv'
<1>1. Types /\ Counted /\ Len(config.turns) \in Nat /\ phase = "resuming"
  BY RunMoves DEF ResumeCall
<1>2. /\ UNCHANGED <<config, reducer, enc, sink, step, turn, batch, spent>>
      /\ phase' \in {"between", "resuming"}
  BY DEF ResumeCall, Emits
<1>3. AllNeutral(queue')
  <2>1. PICK answer, result : /\ answer = Head(rest)
                              /\ result = ResumedResult(answer.call, answer.approved)
    OBVIOUS
  <2>2. queue' = <<ResumedEvent(answer.call, answer.approved), ResultStep(result)>>
    BY <2>1 DEF ResumeCall, Emits
  <2>3. Neutral(ResumedEvent(answer.call, answer.approved)) /\ Neutral(ResultStep(result))
    BY CallStepsAreNeutral DEF ResumedEvent
  <2>4. QED BY <2>2, <2>3, PairIsNeutral
<1>4. Types'
  <2>1. step \in 0 .. Len(config.turns) /\ step <= step /\ TurnOk(turn) /\ BatchOk(batch) /\ spent \in Usage
    BY <1>1 DEF Types
  <2>2. QED BY <1>1, <1>2, <2>1, RunTypes
<1>5. Counted'
  BY <1>1, <1>2 DEF Counted, Within, Outside
<1>6. QED BY <1>3, <1>4, <1>5, Quiet

LEMMA BeginStepStep ==
    ASSUME IndInv, BeginStep
    PROVE  IndInv'
<1>1. /\ Types /\ Counted /\ Len(config.turns) \in Nat
      /\ phase = "between" /\ step < Len(config.turns)
  BY RunMoves DEF BeginStep
<1>2. /\ UNCHANGED <<config, reducer, enc, sink, history, spent>>
      /\ phase' = "model" /\ step' = step + 1 /\ rest' = config.turns[step + 1]
      /\ turn' = EmptyTurn /\ batch' = <<>> /\ queue' = <<StepStart(step)>>
  BY DEF BeginStep, Emits
<1>3. step \in Int /\ 0 <= step /\ step + 1 \in 0 .. Len(config.turns)
  BY <1>1 DEF Types
<1>4. IsAnswer(config.turns[step + 1])
  <2>1. config \in Configs /\ step + 1 \in 1 .. Len(config.turns)
    BY <1>1, <1>3 DEF Types
  <2>2. DOMAIN config.turns = 1 .. Len(config.turns)
    BY <2>1, RunOutputsAssumption
  <2>3. QED BY <2>1, <2>2, RunOutputsAssumption
<1>5. TurnOk(EmptyTurn) /\ EmptyTurn.usage = NoUsage
  BY NoUsageShape DEF TurnOk, EmptyTurn
<1>6. BatchOk(<<>>)
  BY DEF BatchOk
<1>7. Types'
  <2>1. spent \in Usage
    BY <1>1 DEF Types
  <2>2. QED BY <1>1, <1>2, <1>3, <1>4, <1>5, <1>6, <2>1, RunTypes
<1>8. Led(queue', StepStart(step)) /\ Head(queue') = StepStart(step) /\ queue' # <<>>
  BY <1>2, LedByOne DEF Led
<1>9. StepStart(step).type = "stepStart"
  BY DEF StepStart
<1>10. QueueInv' /\ CountedInv'
  BY <1>8, <1>9 DEF QueueInv, CountedInv, UpToDate, Neutral
<1>11. PendingInv'
  <2>1. Outside /\ reducer.steps = step
    BY <1>1 DEF Counted
  <2>2. Outside' /\ reducer'.steps = step' - 1 /\ turn'.usage = NoUsage
    BY <1>2, <1>3, <1>5, <2>1 DEF Outside
  <2>3. QED BY <1>2, <1>8, <1>9, <2>2 DEF PendingInv, Pending
<1>12. QED BY <1>7, <1>10, <1>11 DEF IndInv

LEMMA ReadStreamStep ==
    ASSUME IndInv, ReadStream
    PROVE  IndInv'
<1>1. Types /\ Counted /\ phase = "model" /\ rest # <<>> /\ Len(config.turns) \in Nat
  BY RunMoves DEF ReadStream
<1>2. PICK event : event = Head(rest)
  OBVIOUS
<1>3. /\ UNCHANGED <<config, reducer, enc, sink, phase, step, batch, history, spent>>
      /\ rest' = Tail(rest) /\ turn' = TurnAfter(turn, event) /\ queue' = StepEventsOf(turn, event)
  BY <1>2 DEF ReadStream, Emits
<1>4. /\ event.type \in {"text", "reasoning", "usage", "source", "file", "finish", "toolCall"}
      /\ event.type = "usage" => event.usage \in Usage
      /\ IsAnswer(rest') /\ TurnOk(turn)
  BY <1>1, <1>2, <1>3, AnswerEvent DEF Types
<1>5. /\ TurnOk(turn')
      /\ event.type = "usage" => queue' = <<UsageStep(turn'.usage)>>
      /\ event.type # "usage" => AllNeutral(queue') /\ turn'.usage = turn.usage
  BY <1>3, <1>4, AnswerEventEmits
<1>6. Types'
  <2>1. step \in 0 .. Len(config.turns) /\ step <= step /\ BatchOk(batch) /\ spent \in Usage
    BY <1>1 DEF Types
  <2>2. QED BY <1>1, <1>3, <1>4, <1>5, <2>1, RunTypes
<1>7. Within
  BY <1>1 DEF Counted
<1>8. CASE event.type = "usage"
  <2>1. PICK first : first = UsageStep(turn'.usage)
    OBVIOUS
  <2>2. first.type = "usage" /\ first.usage = turn'.usage
    BY <2>1 DEF UsageStep
  <2>3. Led(queue', first) /\ Head(queue') = first /\ queue' # <<>>
    BY <1>5, <1>8, <2>1, LedByOne DEF Led
  <2>4. QueueInv' /\ CountedInv'
    BY <2>2, <2>3 DEF QueueInv, CountedInv, UpToDate, Neutral
  <2>5. Within'
    BY <1>3, <1>7 DEF Within
  <2>6. PendingInv'
    BY <1>1, <1>3, <2>2, <2>3, <2>5 DEF PendingInv, Pending
  <2>7. QED BY <1>6, <2>4, <2>6 DEF IndInv
<1>9. CASE event.type # "usage"
  <2>1. Counted'
    BY <1>1, <1>3, <1>5, <1>9 DEF Counted, Within, Outside
  <2>2. QED BY <1>5, <1>6, <1>9, <2>1, Quiet
<1>10. QED BY <1>8, <1>9

LEMMA EndStepStep ==
    ASSUME IndInv, Running, phase \in {"model", "tools"}, NEW last \in BOOLEAN, EndStep(last)
    PROVE  IndInv'
<1>1. /\ Types /\ Counted /\ Len(config.turns) \in Nat
  BY RunMoves
<1>2. PICK end : end = StepEnd(step - 1, turn.messageID, turn.reason)
  OBVIOUS
<1>3. PICK object : object = StructuredOutput("object")
  OBVIOUS
<1>4. PICK structured : structured = (last /\ batch = <<>> /\ config.options.structuredStart)
  OBVIOUS
<1>5. /\ UNCHANGED <<config, reducer, enc, sink, step, rest, turn, batch, history>>
      /\ phase' \in {"between", "closed"} /\ spent' = AddUsage(spent, turn.usage)
      /\ queue' = (<<end>> \o Option(structured, object)) \o Option(last, Done)
  BY <1>2, <1>3, <1>4 DEF EndStep, Emits
<1>6. end.type = "stepEnd" /\ Neutral(object) /\ Neutral(Done)
  BY <1>2, <1>3 DEF StepEnd, StructuredOutput, Done, Neutral
<1>7. Led(queue', end)
  <2>1. Led(<<end>> \o Option(structured, object), end)
    BY <1>6, LedByOne, OptionIsNeutral, LedConcat
  <2>2. AllNeutral(Option(last, Done))
    BY <1>6, OptionIsNeutral
  <2>3. QED BY <1>5, <2>1, <2>2, LedConcat
<1>8. /\ Within /\ reducer.currentUsage = turn.usage /\ reducer.usage = AddUsage(spent, turn.usage)
  BY <1>1 DEF Counted
<1>9. Types'
  <2>1. /\ step \in 0 .. Len(config.turns) /\ step <= step /\ BatchOk(batch) /\ TurnOk(turn)
        /\ spent \in Usage /\ turn.usage \in Usage
    BY <1>1 DEF Types, TurnOk
  <2>2. AddUsage(spent, turn.usage) \in Usage
    BY <2>1, UsageAdds
  <2>3. QED BY <1>1, <1>5, <2>1, <2>2, RunTypes
<1>10. Head(queue') = end /\ queue' # <<>>
  BY <1>7 DEF Led
<1>11. QueueInv' /\ CountedInv'
  BY <1>6, <1>7, <1>10 DEF QueueInv, CountedInv, UpToDate, Neutral
<1>12. PendingInv'
  BY <1>5, <1>6, <1>8, <1>10 DEF PendingInv, Pending, Within
<1>13. QED BY <1>9, <1>11, <1>12 DEF IndInv

\* The steps that report text, calls and state, or nothing.
LEMMA SideStep ==
    ASSUME IndInv, Running, AllNeutral(queue'), UNCHANGED <<config, reducer, sink, step, turn, spent>>,
           phase \in {"model", "tools"}, phase' \in {"model", "tools"},
           phase' = "model" => phase = "model" /\ UNCHANGED rest,
           BatchOk(batch')
    PROVE  IndInv'
<1>1. Types /\ Counted /\ Len(config.turns) \in Nat
  BY RunMoves
<1>2. Types'
  <2>1. /\ step \in 0 .. Len(config.turns) /\ step <= step /\ TurnOk(turn) /\ spent \in Usage
        /\ phase = "model" => IsAnswer(rest)
    BY <1>1 DEF Types
  <2>2. QED BY <1>1, <2>1, RunTypes
<1>3. Counted'
  BY <1>1 DEF Counted, Within, Outside
<1>4. QED BY <1>2, <1>3, Quiet

\* Moving a call to its next stage.
LEMMA MovesOne ==
    ASSUME Types, NEW i \in DOMAIN batch,
           NEW stage \in {"announced", "decided", "committed"}, MoveTo(i, stage)
    PROVE  BatchOk(batch')
<1>1. BatchOk(batch)
  BY DEF Types
<1>2. batch' = [batch EXCEPT ![i] = [batch[i] EXCEPT !.stage = stage]]
  BY DEF MoveTo
<1>3. DOMAIN batch' = DOMAIN batch
  BY <1>2
<1>4. ASSUME NEW j \in DOMAIN batch
      PROVE  /\ DOMAIN batch'[j] = {"call", "kind", "stage"} /\ batch'[j].kind \in Kinds
             /\ batch'[j].stage \in {"waiting", "announced", "decided", "committed"}
  <2>1. CASE j = i
    <3>1. batch'[j] = [batch[i] EXCEPT !.stage = stage]
      BY <1>2, <2>1
    <3>2. QED BY <1>1, <3>1 DEF BatchOk
  <2>2. CASE j # i
    <3>1. batch'[j] = batch[j]
      BY <1>2, <2>2
    <3>2. QED BY <1>1, <3>1 DEF BatchOk
  <2>3. QED BY <2>1, <2>2
<1>5. QED BY <1>3, <1>4 DEF BatchOk

LEMMA CallToolsStep ==
    ASSUME IndInv, CallTools
    PROVE  IndInv'
<1>1. /\ Running /\ phase = "model" /\ phase' = "tools" /\ queue = <<>>
      /\ UNCHANGED <<config, step, rest, turn, spent, queue, reducer, enc, sink>>
  BY DEF CallTools, Running
<1>2. BatchOk(batch')
  <2>1. PICK kinds \in [DOMAIN Completed(turn.fold) -> Kinds] :
          batch' = [i \in DOMAIN Completed(turn.fold) |->
                      [call |-> Completed(turn.fold)[i], kind |-> kinds[i], stage |-> "waiting"]]
    BY DEF CallTools
  <2>2. QED BY <2>1 DEF BatchOk
<1>3. AllNeutral(queue')
  BY <1>1, NoneIsNeutral
<1>4. QED BY <1>1, <1>2, <1>3, SideStep

LEMMA AnnounceStep ==
    ASSUME IndInv, NEW i \in DOMAIN batch, Announce(i)
    PROVE  IndInv'
<1>1. /\ Running /\ phase = "tools" /\ MoveTo(i, "announced")
      /\ UNCHANGED <<config, reducer, sink, phase, step, rest, turn, spent>>
  BY DEF Announce, Emits
<1>2. PICK kind, call : kind = batch[i].kind /\ call = batch[i].call
  OBVIOUS
<1>3. AllNeutral(queue')
  <2>1. queue' = CASE kind = "invalid" -> <<>>
                   [] kind = "client"  -> CallEvents(call, kind)
                   [] OTHER            -> <<ReadyStep(call)>>
    BY <1>2 DEF Announce, Emits, Before
  <2>2. CASE kind = "invalid"
    BY <2>1, <2>2, NoneIsNeutral
  <2>3. CASE kind = "client"
    BY <2>1, <2>3, CallEventsAreNeutral
  <2>4. CASE kind \notin {"invalid", "client"}
    BY <2>1, <2>4, CallStepsAreNeutral, OneIsNeutral
  <2>5. QED BY <2>2, <2>3, <2>4
<1>4. BatchOk(batch')
  BY <1>1, MovesOne DEF IndInv
<1>5. QED BY <1>1, <1>3, <1>4, SideStep

LEMMA ApproveStep ==
    ASSUME IndInv, NEW i \in DOMAIN batch, Approve(i)
    PROVE  IndInv'
<1>1. /\ Running /\ phase = "tools" /\ MoveTo(i, "decided")
      /\ UNCHANGED <<config, reducer, sink, phase, step, rest, turn, spent>>
  BY DEF Approve, Emits
<1>2. PICK kind, call : kind = batch[i].kind /\ call = batch[i].call
  OBVIOUS
<1>3. AllNeutral(queue')
  <2>1. queue' = IF kind \in {"pending", "granted", "denied"} THEN Tail(CallEvents(call, kind)) ELSE <<>>
    BY <1>2 DEF Approve, Emits, Before
  <2>2. QED BY <2>1, CallEventsAreNeutral, NoneIsNeutral
<1>4. BatchOk(batch')
  BY <1>1, MovesOne DEF IndInv
<1>5. QED BY <1>1, <1>3, <1>4, SideStep

LEMMA CommitStep ==
    ASSUME IndInv, NEW i \in DOMAIN batch, Commit(i)
    PROVE  IndInv'
<1>1. /\ Running /\ phase = "tools" /\ MoveTo(i, "committed")
      /\ UNCHANGED <<config, reducer, sink, phase, step, rest, turn, spent>>
  BY DEF Commit, Emits
<1>2. PICK kind, call, result : /\ kind = batch[i].kind /\ call = batch[i].call
                                /\ result = ResultStep(CallResult(call, kind))
  OBVIOUS
<1>3. AllNeutral(queue')
  <2>1. queue' = (IF kind = "invalid" THEN CallEvents(call, kind) ELSE <<>>)
                 \o Option(~ Suspends(kind), result)
    BY <1>2 DEF Commit, Emits, Before
  <2>2. AllNeutral(IF kind = "invalid" THEN CallEvents(call, kind) ELSE <<>>)
    BY CallEventsAreNeutral, NoneIsNeutral
  <2>3. AllNeutral(Option(~ Suspends(kind), result))
    BY <1>2, CallStepsAreNeutral, OptionIsNeutral
  <2>4. QED BY <2>1, <2>2, <2>3, NeutralConcat
<1>4. BatchOk(batch')
  BY <1>1, MovesOne DEF IndInv
<1>5. QED BY <1>1, <1>3, <1>4, SideStep

LEMMA PublishStateStep ==
    ASSUME IndInv, PublishState
    PROVE  IndInv'
<1>1. /\ Running /\ phase = "model"
      /\ UNCHANGED <<config, reducer, sink, phase, step, rest, turn, batch, spent>>
  BY DEF PublishState, Emits, runVars
<1>2. PICK valid \in BOOLEAN : queue' = <<StatePatch(valid)>>
  BY DEF PublishState, Emits
<1>3. AllNeutral(queue')
  <2>1. Neutral(StatePatch(valid))
    BY DEF Neutral, StatePatch
  <2>2. QED BY <1>2, <2>1, OneIsNeutral
<1>4. BatchOk(batch')
  BY <1>1 DEF IndInv, Types
<1>5. QED BY <1>1, <1>3, <1>4, SideStep

LEMMA FailStep ==
    ASSUME IndInv, Fail
    PROVE  IndInv'
<1>1. Types /\ Len(config.turns) \in Nat
  BY RunMoves DEF Fail
<1>2. /\ phase' = "closed" /\ UNCHANGED <<config, reducer, enc, sink, step, rest, turn, batch, spent>>
      /\ queue' = <<[type |-> "error"]>>
  BY DEF Fail, Emits
<1>3. Types'
  <2>1. /\ step \in 0 .. Len(config.turns) /\ step <= step /\ BatchOk(batch) /\ TurnOk(turn)
        /\ spent \in Usage
    BY <1>1 DEF Types
  <2>2. QED BY <1>1, <1>2, <2>1, RunTypes
<1>4. PICK e : e = [type |-> "error"]
  OBVIOUS
<1>5. Led(queue', e) /\ Head(queue') = e /\ queue' # <<>> /\ e.type = "error"
  BY <1>2, <1>4, LedByOne DEF Led
<1>6. QueueInv' /\ CountedInv' /\ PendingInv'
  BY <1>5 DEF QueueInv, CountedInv, PendingInv, UpToDate, Pending, Neutral
<1>7. QED BY <1>3, <1>6 DEF IndInv

LEMMA RunStep == IndInv /\ RunNext => IndInv'
<1> SUFFICES ASSUME IndInv, RunNext PROVE IndInv'
  OBVIOUS
<1>1. CASE Answered
  <2>1. Running /\ phase \in {"model", "tools"} /\ EndStep(TRUE)
    BY <1>1 DEF Answered
  <2>2. QED BY <2>1, EndStepStep
<1>2. CASE ToolsDone
  <2>1. PICK last \in BOOLEAN : last = (\E i \in DOMAIN batch : Suspends(batch[i].kind))
    OBVIOUS
  <2>2. Running /\ phase \in {"model", "tools"} /\ EndStep(last)
    BY <1>2, <2>1 DEF ToolsDone
  <2>3. QED BY <2>2, EndStepStep
<1>3. QED BY <1>1, <1>2, ResumeCallStep, BeginStepStep, ReadStreamStep, CallToolsStep, AnnounceStep,
             ApproveStep, CommitStep, PublishStateStep, FailStep DEF RunNext

-----------------------------------------------------------------------------
(* The steps of the driver (uistream/pipe.go, ainode/adapter_stream.go). *)

LEMMA NotedKeeps ==
    ASSUME NEW event, SinkOk(sink)
    PROVE  SinkOk(Noted(event)) /\ Noted(event).open = sink.open
BY DEF SinkOk, Noted

LEMMA WrittenKeeps ==
    ASSUME NEW s, NEW frames, SinkOk(s)
    PROVE  SinkOk(Written(s, frames)) /\ Written(s, frames).open = s.open
BY DEF SinkOk, Written

\* Finishing once closes the stream.
LEMMA Closes ==
    ASSUME NEW s, NEW e, NEW failed, SinkOk(s), s.open, Closed(s, e, failed)
    PROVE  SinkOk(sink') /\ ~ sink'.open
<1>1. PICK frames : frames = Finish(e, failed).frames
  OBVIOUS
<1>2. PICK t : t = IF s.broken THEN [s EXCEPT !.seen = s.seen \o frames] ELSE Written(s, frames)
  OBVIOUS
<1>3. SinkOk(t) /\ t.open
  BY <1>2, WrittenKeeps DEF SinkOk
<1>4. sink' = [t EXCEPT !.open = FALSE, !.failed = failed, !.finishes = t.finishes + 1]
  BY <1>1, <1>2, <1>3 DEF Closed, SinkOk
<1>5. QED BY <1>3, <1>4 DEF SinkOk

\* The adapter goes on until the iterator's error.
LEMMA AdapterKeeps ==
    ASSUME NEW encoded, NEW event, NEW n, SinkOk(sink), sink.open, AdapterWrites(encoded, event, n)
    PROVE  SinkOk(sink') /\ (sink'.open <=> event.type # "error")
<1>1. PICK s, chunks : /\ s = Noted(event)
                       /\ chunks = [i \in DOMAIN encoded.frames |-> AdapterChunk(encoded.frames[i])]
  OBVIOUS
<1>2. SinkOk(s) /\ s.open
  BY <1>1, NotedKeeps
<1>3. PICK seen, wire, broken :
        sink' = [s EXCEPT !.seen = seen, !.wire = wire, !.broken = broken,
                          !.open = event.type # "error", !.failed = event.type = "error"]
  <2>1. sink' = [s EXCEPT !.seen   = s.seen \o chunks,
                          !.wire   = IF sink.broken THEN s.wire ELSE s.wire \o SubSeq(chunks, 1, n),
                          !.broken = s.broken \/ n < Len(chunks),
                          !.open   = event.type # "error",
                          !.failed = event.type = "error"]
    BY <1>1, <1>2 DEF AdapterWrites, SinkOk
  <2>2. QED BY <2>1, Zenon
<1>4. QED BY <1>2, <1>3 DEF SinkOk

\* An event is consumed: the Result catches up.
LEMMA Consumes ==
    ASSUME IndInv, NextEvent, Takes(Head(queue)), SinkOk(sink')
    PROVE  IndInv'
<1>1. PICK first : first = Head(queue)
  OBVIOUS
<1>2. /\ sink.open /\ queue # <<>> /\ first.type # "error" /\ Types
      /\ Led(queue, first) /\ CountedInv /\ PendingInv
  BY <1>1 DEF NextEvent, IndInv, QueueInv
<1>3. /\ UNCHANGED <<config, phase, step, rest, turn, batch, history, spent>>
      /\ queue' = Tail(queue) /\ reducer' = Consume(reducer, first)
  BY <1>1 DEF Takes, runVars
<1>4. AllNeutral(queue')
  BY <1>2, <1>3 DEF Led
<1>5. /\ ReducerOk(reducer) /\ reducer.steps \in Nat /\ step \in Int /\ turn.usage \in Usage /\ spent \in Usage
      /\ reducer.steps + (IF reducer.current.open THEN 1 ELSE 0) <= step
  BY <1>2 DEF Types, TurnOk, ReducerOk
<1>6. /\ ReducerOk(reducer') /\ Counted'
      /\ reducer'.steps + (IF reducer'.current.open THEN 1 ELSE 0) <= step
  <2>1. CASE Neutral(first)
    <3>1. ReducerOk(reducer') /\ SameMeters(reducer', reducer)
      BY <1>3, <1>5, <2>1, ConsumeNeutral
    <3>2. Counted
      BY <1>1, <1>2, <2>1 DEF CountedInv, UpToDate
    <3>3. Counted'
      BY <1>3, <3>1, <3>2 DEF Counted, Within, Outside, SameMeters
    <3>4. QED BY <1>5, <3>1, <3>3 DEF SameMeters
  <2>2. CASE first.type = "stepStart"
    <3>1. phase = "model" /\ Outside /\ reducer.steps = step - 1 /\ turn.usage = NoUsage
      BY <1>1, <1>2, <2>2 DEF PendingInv, Pending
    <3>2. /\ ReducerOk(reducer') /\ reducer'.current.open /\ reducer'.currentUsage = NoUsage
          /\ reducer'.steps = reducer.steps /\ reducer'.completedUsage = reducer.completedUsage
          /\ reducer'.usage = reducer.usage
      BY <1>3, <1>5, <2>2, ConsumeStepStart
    <3>3. AddUsage(spent, turn.usage) = spent
      BY <1>5, <3>1, UsageAdds
    <3>4. Counted'
      BY <1>3, <3>1, <3>2, <3>3 DEF Counted, Within, Outside
    <3>5. reducer'.steps + 1 <= step
      BY <1>5, <3>1, <3>2
    <3>6. QED BY <3>2, <3>4, <3>5
  <2>3. CASE first.type = "usage"
    <3>1. phase = "model" /\ Within /\ first.usage = turn.usage
      BY <1>1, <1>2, <2>3 DEF PendingInv, Pending
    <3>2. /\ ReducerOk(reducer') /\ reducer'.current.open = reducer.current.open
          /\ reducer'.currentUsage = first.usage
          /\ reducer'.steps = reducer.steps /\ reducer'.completedUsage = reducer.completedUsage
          /\ reducer'.usage = AddUsage(reducer.completedUsage, first.usage)
      BY <1>3, <1>5, <2>3, <3>1, ConsumeUsageEvent
    <3>3. Counted'
      BY <1>3, <3>1, <3>2 DEF Counted, Within
    <3>4. QED BY <1>5, <3>2, <3>3
  <2>4. CASE first.type = "stepEnd"
    <3>1. /\ phase \in {"between", "closed"} /\ reducer.current.open /\ reducer.steps = step - 1
          /\ AddUsage(reducer.completedUsage, reducer.currentUsage) = spent /\ reducer.usage = spent
      BY <1>1, <1>2, <2>4 DEF PendingInv, Pending
    <3>2. /\ ReducerOk(reducer') /\ ~ reducer'.current.open
          /\ reducer'.steps = reducer.steps + 1 /\ reducer'.usage = reducer.usage
          /\ reducer'.completedUsage = AddUsage(reducer.completedUsage, reducer.currentUsage)
      BY <1>3, <1>5, <2>4, <3>1, ConsumeStepEnd
    <3>3. reducer'.steps = step
      BY <1>5, <3>1, <3>2
    <3>4. Counted'
      BY <1>3, <3>1, <3>2, <3>3 DEF Counted, Outside
    <3>5. QED BY <1>5, <3>2, <3>3, <3>4
  <2>5. QED BY <1>2, <2>1, <2>2, <2>3, <2>4 DEF Neutral
<1>7. Types'
  BY <1>2, <1>3, <1>6 DEF Types
<1>8. QED BY <1>4, <1>6, <1>7, Quiet

\* The stream ends: nothing is promised of what was in flight.
LEMMA StreamEnds ==
    ASSUME IndInv, UNCHANGED <<config, runVars, reducer>>, SinkOk(sink'), ~ sink'.open
    PROVE  IndInv'
<1>1. Types'
  <2>1. UNCHANGED <<config, phase, step, rest, turn, batch, history, spent, reducer>>
    BY DEF runVars
  <2>2. QED BY <2>1 DEF IndInv, Types
<1>2. QED BY <1>1 DEF IndInv, QueueInv

LEMMA SinkStep == IndInv /\ SinkNext => IndInv'
<1> SUFFICES ASSUME IndInv, SinkNext PROVE IndInv'
  OBVIOUS
<1>0. SinkOk(sink)
  BY DEF IndInv, Types
<1>1. CASE PipeEvent
  <2>1. NextEvent /\ Takes(Head(queue)) /\ sink.open
    BY <1>1 DEF PipeEvent, NextEvent
  <2>2. PICK event, encoded : event = Head(queue) /\ encoded = Encode(enc, event)
    OBVIOUS
  <2>3. CASE encoded.ok
    <3>1. sink' = Written(Noted(event), encoded.frames)
      BY <1>1, <2>2, <2>3 DEF PipeEvent
    <3>2. SinkOk(sink')
      BY <1>0, <3>1, NotedKeeps, WrittenKeeps
    <3>3. QED BY <2>1, <3>2, Consumes
  <2>4. CASE ~ encoded.ok
    <3>1. Closed(sink, encoded.enc, TRUE)
      BY <1>1, <2>2, <2>4 DEF PipeEvent
    <3>2. QED BY <1>0, <2>1, <3>1, Closes, Consumes
  <2>5. QED BY <2>3, <2>4
<1>2. CASE PipeWriteFails
  <2>1. NextEvent /\ Takes(Head(queue)) /\ sink.open
    BY <1>2 DEF PipeWriteFails, NextEvent
  <2>2. PICK event, encoded : event = Head(queue) /\ encoded = Encode(enc, event)
    OBVIOUS
  <2>3. PICK n \in 0 .. Len(encoded.frames) - 1 :
          Closed([Written(Noted(event), SubSeq(encoded.frames, 1, n)) EXCEPT !.broken = TRUE],
                 encoded.enc, TRUE)
    BY <1>2, <2>2 DEF PipeWriteFails
  <2>4. PICK s, t : /\ s = Written(Noted(event), SubSeq(encoded.frames, 1, n))
                    /\ t = [s EXCEPT !.broken = TRUE]
    OBVIOUS
  <2>5. SinkOk(s) /\ s.open
    BY <1>0, <2>1, <2>4, NotedKeeps, WrittenKeeps
  <2>6. SinkOk(t) /\ t.open
    BY <2>4, <2>5 DEF SinkOk
  <2>7. SinkOk(sink')
    BY <2>3, <2>4, <2>6, Closes
  <2>8. QED BY <2>1, <2>7, Consumes
<1>3. CASE PipeCancelled
  <2>1. NextEvent /\ Takes(Head(queue)) /\ sink.open /\ Closed(sink, enc, TRUE)
    BY <1>3 DEF PipeCancelled, NextEvent
  <2>2. QED BY <1>0, <2>1, Closes, Consumes
<1>4. CASE PipeError
  <2>1. sink.open /\ Closed(sink, enc, TRUE) /\ UNCHANGED <<config, runVars, reducer>>
    BY <1>4 DEF PipeError
  <2>2. QED BY <1>0, <2>1, Closes, StreamEnds
<1>5. CASE PipeEnds
  <2>1. sink.open /\ UNCHANGED <<config, runVars, reducer>>
    BY <1>5 DEF PipeEnds
  <2>2. PICK cancelled \in BOOLEAN : Closed(sink, enc, cancelled)
    BY <1>5 DEF PipeEnds
  <2>3. QED BY <1>0, <2>1, <2>2, Closes, StreamEnds
<1>6. CASE AdapterEvent
  <2>1. NextEvent /\ Takes(Head(queue)) /\ sink.open
    BY <1>6 DEF AdapterEvent, NextEvent
  <2>2. PICK event, encoded : event = Head(queue) /\ encoded = Encode(enc, event)
    OBVIOUS
  <2>3. PICK n \in 0 .. Len(encoded.frames) : AdapterWrites(encoded, event, n)
    BY <1>6, <2>2 DEF AdapterEvent
  <2>4. QED BY <1>0, <2>1, <2>3, AdapterKeeps, Consumes
<1>7. CASE AdapterError
  <2>1. sink.open /\ UNCHANGED <<config, runVars, reducer>> /\ Head(queue).type = "error"
    BY <1>7 DEF AdapterError
  <2>2. PICK event, encoded, n : event = Head(queue) /\ AdapterWrites(encoded, event, n)
    BY <1>7 DEF AdapterError
  <2>3. SinkOk(sink') /\ ~ sink'.open
    BY <1>0, <2>1, <2>2, AdapterKeeps
  <2>4. QED BY <2>1, <2>3, StreamEnds
<1>8. CASE AdapterEnds
  <2>1. sink' = [sink EXCEPT !.open = FALSE] /\ UNCHANGED <<config, runVars, reducer>>
    BY <1>8 DEF AdapterEnds
  <2>2. SinkOk(sink') /\ ~ sink'.open
    BY <1>0, <2>1 DEF SinkOk
  <2>3. QED BY <2>1, <2>2, StreamEnds
<1>9. QED BY <1>1, <1>2, <1>3, <1>4, <1>5, <1>6, <1>7, <1>8 DEF SinkNext

-----------------------------------------------------------------------------
(* The theorems about the account of the Result. *)

LEMMA Initially == Init => IndInv
<1> SUFFICES ASSUME Init PROVE IndInv
  OBVIOUS
<1>1. /\ config \in Configs /\ phase \in {"resuming", "between"} /\ step = 0 /\ turn = EmptyTurn
      /\ batch = <<>> /\ spent = NoUsage /\ queue = <<>> /\ reducer = NewReducer(history)
  BY DEF Init
<1>2. PICK frames : sink = NewSink(frames)
  BY DEF Init
<1>3. SinkOk(sink)
  BY <1>2 DEF SinkOk, NewSink
<1>4. /\ ReducerOk(reducer) /\ reducer.steps = 0 /\ ~ reducer.current.open
      /\ reducer.completedUsage = NoUsage /\ reducer.usage = NoUsage
  BY <1>1, NoUsageShape DEF ReducerOk, NewReducer, NoStep
<1>5. TurnOk(turn) /\ BatchOk(batch) /\ spent \in Usage
  <2>1. TurnOk(EmptyTurn)
    BY NoUsageShape DEF TurnOk, EmptyTurn
  <2>2. BatchOk(<<>>)
    BY DEF BatchOk
  <2>3. QED BY <1>1, <2>1, <2>2, NoUsageShape
<1>6. Len(config.turns) \in Nat
  BY <1>1, RunOutputsAssumption
<1>7. Types
  BY <1>1, <1>3, <1>4, <1>5, <1>6 DEF Types
<1>8. QueueInv /\ PendingInv /\ CountedInv
  BY <1>1, <1>4 DEF QueueInv, PendingInv, Pending, CountedInv, Counted, Outside
<1>9. QED BY <1>7, <1>8 DEF IndInv

\* A run and its consumer never disagree on the meters by more than the event in flight.
THEOREM Invariance == Spec => []IndInv
<1>1. ASSUME IndInv, [Next]_vars PROVE IndInv'
  <2>1. CASE UNCHANGED vars
    <3>1. UNCHANGED <<config, phase, step, rest, turn, batch, history, spent, queue, reducer, sink>>
      BY <2>1 DEF vars, runVars
    <3>2. Types' /\ QueueInv'
      BY <1>1, <3>1 DEF IndInv, Types, QueueInv
    <3>3. (sink.open => CountedInv /\ PendingInv)'
      BY <1>1, <3>1 DEF IndInv, CountedInv, UpToDate, Counted, Within, Outside, PendingInv, Pending
    <3>4. QED BY <3>2, <3>3 DEF IndInv
  <2>2. QED BY <1>1, <2>1, RunStep, SinkStep DEF Next
<1>2. QED BY <1>1, Initially, PTL DEF Spec

\* Shapes and bounds hold in every run: the Result never counts a step that was not begun
\* (agent/result.go:325), and an encoder is finished at most once (uistream/pipe.go:44).
THEOREM RunOutputsTyped == Spec => []TypeInvariant
<1>1. ASSUME IndInv PROVE TypeInvariant
  <2>1. reducer.steps \in 0 .. step
    <3>1. /\ reducer.steps \in Nat /\ step \in Int
          /\ reducer.steps + (IF reducer.current.open THEN 1 ELSE 0) <= step
      BY <1>1 DEF IndInv, Types, ReducerOk
    <3>2. QED BY <3>1
  <2>2. QED BY <1>1, <2>1 DEF TypeInvariant, IndInv, Types, ReducerOk, SinkOk, BatchOk
<1>2. QED BY <1>1, Invariance, PTL

\* However turns report their usage - in growing snapshots, in several or not at all - and
\* however the run ends, the Result counts every turn once (agent/result.go:282).
THEOREM UsageIsCountedOnce == Spec => []ResultCountsUsageOnce
<1>1. ASSUME IndInv PROVE ResultCountsUsageOnce
  <2> SUFFICES ASSUME Running
               PROVE  reducer.usage = AddUsage(spent, IF phase \in {"model", "tools"} THEN turn.usage
                                                      ELSE NoUsage)
    BY DEF ResultCountsUsageOnce
  <2>1. Counted /\ spent \in Usage
    BY <1>1, RunMoves DEF Types
  <2>2. CASE phase \in {"model", "tools"}
    BY <2>1, <2>2 DEF Counted
  <2>3. CASE phase \notin {"model", "tools"}
    <3>1. reducer.usage = spent
      BY <2>1, <2>3 DEF Counted, Outside
    <3>2. AddUsage(spent, NoUsage) = spent
      BY <2>1, UsageAdds
    <3>3. QED BY <2>3, <3>1, <3>2
  <2>4. QED BY <2>2, <2>3
<1>2. QED BY <1>1, Invariance, PTL

-----------------------------------------------------------------------------
(* The ends of the stream (uistream/pipe.go, ainode/adapter_stream.go). *)

\* Pipe's deferred Finish.
LEMMA ClosedSink ==
    ASSUME NEW s, NEW e, NEW failed, SinkOk(s), s.open, Closed(s, e, failed),
           NEW frames, frames = Finish(e, failed).frames
    PROVE  /\ ~ sink'.open /\ (sink'.failed <=> failed) /\ (sink'.done <=> s.done) /\ sink'.finishes = 1
           /\ (sink'.broken <=> s.broken) /\ sink'.seen = s.seen \o frames
           /\ sink'.wire = IF s.broken THEN s.wire ELSE s.wire \o frames
           /\ enc' = Finish(e, failed).enc
<1>1. PICK t : t = IF s.broken THEN [s EXCEPT !.seen = s.seen \o frames] ELSE Written(s, frames)
  OBVIOUS
<1>2. s.finishes = 0
  BY DEF SinkOk
<1>3. /\ SinkOk(t) /\ t.done = s.done /\ t.finishes = 0 /\ t.broken = s.broken /\ t.seen = s.seen \o frames
      /\ t.wire = IF s.broken THEN s.wire ELSE s.wire \o frames
  BY <1>1, <1>2 DEF SinkOk, Written
<1>4. sink' = [t EXCEPT !.open = FALSE, !.failed = failed, !.finishes = t.finishes + 1]
  BY <1>1, <1>3 DEF Closed, SinkOk
<1>5. enc' = Finish(e, failed).enc
  BY DEF Closed
<1>6. QED BY <1>3, <1>4, <1>5 DEF SinkOk

LEMMA ClosedWire ==
    ASSUME NEW s, NEW e, NEW failed, SinkOk(s), s.open, ~ s.broken, s.wire = s.seen, Closed(s, e, failed),
           NEW frames, frames = Finish(e, failed).frames, NEW whole, whole = s.seen \o frames
    PROVE  sink'.seen = whole /\ sink'.wire = whole
<1>1. sink'.seen = whole
  BY ClosedSink
<1>2. sink'.wire = whole
  BY ClosedSink
<1>3. QED BY <1>1, <1>2

\* A stream that ends after a write that failed: what was written is what is asked about.
LEMMA BrokenCloses ==
    ASSUME NEW s, NEW e, NEW failed, SinkOk(s), s.open, s.broken, Closed(s, e, failed),
           IsSequence(s.wire), IsSequence(s.seen), IsPrefix(s.wire, s.seen), UNCHANGED config,
           IsSequence(Finish(e, failed).frames),
           IF IsAgUi THEN FramesPair(s.wire) ELSE Finish(e, failed).enc.violations \cap BlockCodes = {}
    PROVE  WireInv'
<1>1. PICK frames : frames = Finish(e, failed).frames
  OBVIOUS
<1>2. /\ ~ sink'.open /\ sink'.finishes = 1 /\ sink'.broken /\ sink'.seen = s.seen \o frames
      /\ sink'.wire = s.wire /\ enc' = Finish(e, failed).enc
  BY <1>1, ClosedSink
<1>3. IsSequence(sink'.seen) /\ IsSequence(sink'.wire) /\ IsPrefix(sink'.wire, sink'.seen)
  BY <1>1, <1>2, ConcatIsSequence, PrefixGrows
<1>4. SeenInv'
  BY <1>2, <1>3 DEF SeenInv
<1>5. IF IsAgUi THEN FramesPair(sink'.wire) ELSE enc'.violations \cap BlockCodes = {}
  BY <1>2
<1>6. IsAgUi' <=> IsAgUi
  BY DEF IsAgUi
<1>7. WireIsWellFormed'
  BY <1>2, <1>3, <1>5, <1>6 DEF WireIsWellFormed
<1>8. WireCountsUsageOnce'
  BY <1>2 DEF WireCountsUsageOnce
<1>9. QED BY <1>2, <1>4, <1>7, <1>8 DEF WireInv

\* An AG-UI run ends.
LEMMA UiCloses ==
    ASSUME NEW s, NEW e, NEW failed \in BOOLEAN, SinkOk(s), s.open, ~ s.broken, Closed(s, e, failed),
           IsAgUi, UNCHANGED <<config, spent>>, s.wire = s.seen, IsSequence(s.seen),
           FramesPair(s.seen), StillOpen(s.seen, Len(s.seen)) = AgUiBlocks(e), Terminals(s.seen) = {},
           AgUiOk(e), ~ failed => AddUsage(e.totalUsage, e.stepUsage) = spent
    PROVE  WireInv'
<1>1. PICK r, frames, seen : r = Ui!AgUiFinish(e, failed) /\ frames = r.frames /\ seen = s.seen \o frames
  OBVIOUS
<1>2. frames = Finish(e, failed).frames
  BY <1>1 DEF Finish
<1>3. /\ ~ sink'.open /\ (sink'.failed <=> failed) /\ sink'.finishes = 1
      /\ ~ sink'.broken /\ sink'.seen = seen /\ sink'.wire = seen
  <2>1. ~ sink'.open /\ sink'.finishes = 1
    BY <1>2, ClosedSink
  <2>2. sink'.seen = seen
    BY <1>1, <1>2, ClosedSink
  <2>3. sink'.wire = seen
    BY <1>1, <1>2, ClosedSink
  <2>4. (sink'.failed <=> failed) /\ ~ sink'.broken
    BY <1>2, ClosedSink, Zenon
  <2>5. QED BY <2>1, <2>2, <2>3, <2>4
<1>4. /\ UiEnding(frames, AgUiBlocks(e))
      /\ ~ failed => UiUsageIs(frames, Ui!UsagePayload(AddUsage(e.totalUsage, e.stepUsage)))
  BY <1>1, UiFinishes
<1>5. /\ IsSequence(frames) /\ Len(frames) \in Nat /\ Len(frames) > 0
      /\ frames[Len(frames)].type \in AgUiTerminals /\ Terminals(frames) = {Len(frames)}
      /\ \A i \in DOMAIN frames : frames[i].type \notin Sdk!BlockTypes
      /\ Walk(AgUiBlocks(e), frames, {})
  BY <1>4, UiTerminals DEF UiEnding
<1>6. FramesPair(seen)
  BY <1>1, <1>5, PairedGrows
<1>7. PICK last : last = Len(s.seen) + Len(frames)
  OBVIOUS
<1>8. /\ IsSequence(seen) /\ Len(seen) = last /\ last \in Nat /\ seen[last] = frames[Len(frames)]
      /\ Terminals(seen) = {last}
  <2>1. Len(s.seen) \in Nat /\ Len(frames) \in 1 .. Len(frames)
    BY <1>5, SequenceShape
  <2>2. IsSequence(seen) /\ Len(seen) = last
    BY <1>1, <1>5, <1>7, ConcatIsSequence
  <2>5. seen[last] = frames[Len(frames)]
    <3>1. PICK w : w = s.seen
      OBVIOUS
    <3>2. \A i \in 1 .. Len(frames) : (w \o frames)[Len(w) + i] = frames[i]
      BY <1>5, <3>1, ConcatIsSequence
    <3>3. QED BY <1>1, <1>7, <2>1, <3>1, <3>2
  <2>3. Terminals(seen) = {} \cup {Len(s.seen) + i : i \in {Len(frames)}}
    BY <1>1, <1>5, TerminalsOfConcat
  <2>4. QED BY <1>5, <1>7, <2>1, <2>2, <2>3, <2>5
<1>9. Last(seen).type \in AgUiTerminals /\ Cardinality(Terminals(seen)) = 1 /\ Max(Terminals(seen)) = last
  BY <1>5, <1>8, Counting, MaxOfOne DEF Last
<1>10. ~ failed => seen[last].usage = Ui!UsagePayload(spent)
  BY <1>4, <1>8 DEF UiUsageIs
<1>11. IsAgUi' /\ spent' = spent
  BY DEF IsAgUi
<1>12. IsPrefix(seen, seen)
  BY <1>8, PrefixOfItself
<1>13. SeenInv'
  BY <1>3, <1>8, <1>12 DEF SeenInv
<1>14. WireIsWellFormed'
  BY <1>3, <1>6, <1>9, <1>11, <1>12 DEF WireIsWellFormed
<1>15. WireCountsUsageOnce'
  <2>1. ~ failed => seen[Max(Terminals(seen))].usage = Ui!UsagePayload(spent)
    BY <1>9, <1>10
  <2>2. sink'.wire[Max(Terminals(sink'.wire))] = seen[Max(Terminals(seen))]
    BY <1>3
  <2>3. QED BY <1>3, <1>11, <2>1, <2>2 DEF WireCountsUsageOnce
<1>16. QED BY <1>3, <1>13, <1>14, <1>15 DEF WireInv

\* How often and where a run that is ended by a finish chunk is ended.
SaysDone(seen) == IsSequence(seen) /\ Last(seen).type = "[DONE]"

EndedOnce(seen, usage) ==
    /\ Cardinality(Terminals(seen)) = 1
    /\ seen[Max(Terminals(seen))].usage = usage

LEMMA FinishCounts ==
    ASSUME NEW w, NEW frames, NEW usage, IsSequence(w), IsSequence(frames), FinishIsLast(frames, usage),
           NEW seen, seen = w \o frames
    PROVE  /\ SaysDone(seen)
           /\ \A i : Terminals(w) = {i} => Cardinality(Terminals(seen)) = 2
           /\ Terminals(w) = {} => EndedOnce(seen, usage)
<1>1. PICK last : last = Len(seen) - 1
  OBVIOUS
<1>2. EndedLast(seen, w, usage)
  BY FinishComesLast
<1>3. IsSequence(seen) /\ Len(seen) \in Nat /\ Len(seen) >= 2
  BY <1>2 DEF EndedLast
<1>4. Terminals(seen) = Terminals(w) \cup {last} /\ last \notin Terminals(w)
  BY <1>1, <1>2 DEF EndedLast
<1>5. seen[last].usage = usage
  BY <1>1, <1>2 DEF EndedLast
<1>6. Last(seen).type = "[DONE]"
  BY <1>2 DEF EndedLast, Last
<1>7. ASSUME NEW i, Terminals(w) = {i} PROVE Cardinality(Terminals(seen)) = 2
  <2>1. Terminals(seen) = {i} \cup {last} /\ i # last
    BY <1>4, <1>7
  <2>2. Cardinality({i} \cup {last}) = 2
    BY <2>1, Counting
  <2>3. QED BY <2>1, <2>2
<1>8. ASSUME Terminals(w) = {}
      PROVE  EndedOnce(seen, usage)
  <2>1. Terminals(seen) = {last} /\ last \in Nat
    BY <1>1, <1>3, <1>4, <1>8
  <2>2. Cardinality(Terminals(seen)) = 1 /\ Max(Terminals(seen)) = last
    BY <2>1, Counting, MaxOfOne
  <2>3. QED BY <1>5, <2>2 DEF EndedOnce
<1>9. QED BY <1>3, <1>6, <1>7, <1>8 DEF SaysDone

\* What is asked of an AI SDK run whose stream is closed and whole.
LEMMA SdkWhole ==
    ASSUME ~ IsAgUi, UNCHANGED <<config, spent>>, ~ sink'.open, IsPipe => sink'.finishes = 1,
           NEW seen, sink'.wire = seen, sink'.seen = seen, enc'.violations \cap BlockCodes = {},
           SaysDone(seen),
           Cardinality(Terminals(seen)) = IF sink'.done /\ sink'.failed THEN 2 ELSE 1,
           sink'.failed \/ seen[Max(Terminals(seen))].usage = ChunkUsage(spent)
    PROVE  WireInv'
<1>1. /\ ~ IsAgUi' /\ spent' = spent /\ (IsPipe' <=> IsPipe)
  BY DEF IsAgUi, IsPipe
<1>2. IsPrefix(seen, seen)
  BY PrefixOfItself DEF SaysDone
<1>3. SeenInv'
  BY <1>2 DEF SeenInv, SaysDone
<1>4. WireIsWellFormed'
  BY <1>1, <1>2 DEF WireIsWellFormed, SaysDone
<1>5. WireCountsUsageOnce'
  <2>1. sink'.wire[Max(Terminals(sink'.wire))] = seen[Max(Terminals(seen))]
    OBVIOUS
  <2>2. QED BY <1>1, <2>1 DEF WireCountsUsageOnce, ChunkUsage
<1>6. QED BY <1>3, <1>4, <1>5 DEF WireInv

\* The pipe's Finish, after a Done or without one.
EndedBy(seen, done, failed, usage) ==
    /\ SaysDone(seen)
    /\ Cardinality(Terminals(seen)) = IF done /\ failed THEN 2 ELSE 1
    /\ failed \/ seen[Max(Terminals(seen))].usage = usage

LEMMA SdkEnds ==
    ASSUME NEW failed \in BOOLEAN, NEW done \in BOOLEAN, NEW e, SdkOk(e), e.finished = done,
           ~ failed => done /\ ~ e.text /\ ~ e.reasoning,
           NEW w, IsSequence(w), NEW usage,
           IF done THEN FinishIsLast(w, usage) ELSE Terminals(w) = {},
           NEW r, r = Sdk!AiSdkFinish(e, failed), NEW seen, seen = w \o r.frames
    PROVE  SdkOk(r.enc) /\ EndedBy(seen, done, failed, usage)
<1>1. SdkOk(r.enc) /\ (~ failed /\ done => r.frames = <<>>) /\ (failed => \E u : Ending(r.frames, u))
  BY SdkFinishes
<1>2. CASE failed
  <2>1. PICK frames, u : frames = r.frames /\ Ending(frames, u)
    BY <1>1, <1>2
  <2>2. IsSequence(frames) /\ FinishIsLast(frames, u) /\ seen = w \o frames
    BY <2>1, SdkTerminals
  <2>3. SaysDone(seen)
    BY <2>2, FinishCounts
  <2>4. CASE done
    <3>1. PICK i : Terminals(w) = {i}
      BY <2>4 DEF FinishIsLast
    <3>2. Cardinality(Terminals(seen)) = 2
      BY <2>2, <3>1, FinishCounts
    <3>3. QED BY <1>1, <1>2, <2>3, <2>4, <3>2 DEF EndedBy
  <2>5. CASE ~ done
    <3>1. EndedOnce(seen, u)
      BY <2>2, <2>5, FinishCounts
    <3>2. QED BY <1>1, <1>2, <2>3, <2>5, <3>1 DEF EndedBy, EndedOnce
  <2>6. QED BY <2>4, <2>5
<1>3. CASE ~ failed
  <2>1. done /\ r.frames = <<>> /\ FinishIsLast(w, usage) /\ seen = w
    BY <1>1, <1>3, NothingAdded
  <2>2. PICK none : none = <<>>
    OBVIOUS
  <2>3. IsSequence(none) /\ w = none \o w /\ Terminals(none) = {}
    BY <2>2, NoneIsSequence, NothingAdded DEF Terminals
  <2>4. SaysDone(w)
    BY <2>1, <2>3, FinishCounts
  <2>5. EndedOnce(w, usage)
    BY <2>1, <2>3, FinishCounts
  <2>6. QED BY <1>1, <1>3, <2>1, <2>4, <2>5 DEF EndedBy, EndedOnce
<1>4. QED BY <1>2, <1>3

\* An AI SDK run ends in the pipe.
LEMMA SdkCloses ==
    ASSUME NEW s, NEW e, NEW failed \in BOOLEAN, SinkOk(s), s.open, ~ s.broken, s.done \in BOOLEAN,
           Closed(s, e, failed), ~ IsAgUi, UNCHANGED <<config, spent>>, s.wire = s.seen, IsSequence(s.seen),
           SdkOk(e), e.finished = s.done, ~ failed => s.done /\ ~ e.text /\ ~ e.reasoning,
           IF s.done THEN FinishIsLast(s.seen, ChunkUsage(spent)) ELSE Terminals(s.seen) = {}
    PROVE  WireInv'
<1>1. PICK r, frames, seen : r = Sdk!AiSdkFinish(e, failed) /\ frames = r.frames /\ seen = s.seen \o frames
  OBVIOUS
<1>2. r = Finish(e, failed) /\ frames = Finish(e, failed).frames
  BY <1>1 DEF Finish
<1>3. sink'.seen = seen /\ sink'.wire = seen
  BY <1>1, <1>2, ClosedWire
<1>4. ~ sink'.open /\ sink'.finishes = 1 /\ enc' = r.enc
  BY <1>2, ClosedSink
<1>5. (sink'.failed <=> failed) /\ (sink'.done <=> s.done)
  BY <1>2, ClosedSink, Zenon
<1>6. PICK w, done, usage : w = s.seen /\ done = s.done /\ usage = ChunkUsage(spent)
  OBVIOUS
<1>7. /\ done \in BOOLEAN /\ e.finished = done /\ (~ failed => done /\ ~ e.text /\ ~ e.reasoning)
      /\ IsSequence(w) /\ (IF done THEN FinishIsLast(w, usage) ELSE Terminals(w) = {})
      /\ seen = w \o r.frames
  BY <1>1, <1>6
<1>8. SdkOk(r.enc) /\ EndedBy(seen, done, failed, usage)
  BY <1>1, <1>7, SdkEnds
<1>9. enc'.violations \cap BlockCodes = {}
  BY <1>4, <1>8 DEF SdkOk
<1>10. SaysDone(seen)
  BY <1>8 DEF EndedBy
<1>11. Cardinality(Terminals(seen)) = IF sink'.done /\ sink'.failed THEN 2 ELSE 1
  BY <1>5, <1>6, <1>8 DEF EndedBy
<1>12. sink'.failed \/ seen[Max(Terminals(seen))].usage = ChunkUsage(spent)
  BY <1>5, <1>6, <1>8 DEF EndedBy
<1>13. QED BY <1>3, <1>4, <1>9, <1>10, <1>11, <1>12, SdkWhole

-----------------------------------------------------------------------------
(* What the properties ask of a stream that is still open. *)

LEMMA WireHolds ==
    ASSUME SinkOk(sink), WireInv
    PROVE  WireIsWellFormed /\ WireCountsUsageOnce
<1>1. CASE ~ sink.open
  BY <1>1 DEF WireInv
<1>2. CASE sink.open
  <2> PICK wire, seen : wire = sink.wire /\ seen = sink.seen
    OBVIOUS
  <2>1. /\ IsSequence(wire) /\ IsSequence(seen) /\ IsPrefix(wire, seen)
        /\ (~ sink.broken => wire = seen) /\ sink.finishes = 0
    BY <1>2 DEF WireInv, SeenInv, SinkOk
  <2>2. \E x : Terminals(seen) \in SUBSET {x}
    BY <1>2 DEF WireInv, AgUiInv, SdkInv, FinishIsLast
  <2>3. Cardinality(Terminals(wire)) <= 1
    <3>1. PICK x : Terminals(seen) \in SUBSET {x}
      BY <2>2
    <3>2. Terminals(wire) \in SUBSET {x}
      BY <2>1, <3>1, PrefixTerminals
    <3>3. QED BY <3>2, Counting
  <2>4. IF IsAgUi THEN FramesPair(wire) ELSE enc.violations \cap BlockCodes = {}
    <3>1. CASE IsAgUi
      <4>1. FramesPair(seen)
        BY <1>2, <3>1 DEF WireInv, AgUiInv
      <4>2. QED BY <2>1, <3>1, <4>1, PairPrefix
    <3>2. CASE ~ IsAgUi
      BY <1>2, <3>2 DEF WireInv, SdkInv, SdkOk
    <3>3. QED BY <3>1, <3>2
  <2>5. WireIsWellFormed
    BY <1>2, <2>1, <2>3, <2>4 DEF WireIsWellFormed
  <2>6. WireCountsUsageOnce
    BY <1>2 DEF WireCountsUsageOnce
  <2>7. QED BY <2>5, <2>6
<1>3. QED BY <1>1, <1>2

-----------------------------------------------------------------------------
(* The wire while the run moves (agent/step.go). *)

PlainTypes == CallTypes \cup {"stepStart", "stepEnd", "source", "file", "stateDelta", "structuredOutput"}

\* When the run moves, everything it has emitted is on the wire.
LEMMA RunIsSeen ==
    ASSUME IndInv, WireInv, Running
    PROVE  /\ FlightInv /\ SeenInv /\ SinkOk(sink) /\ ReducerOk(reducer) /\ sink.open /\ queue = <<>>
           /\ IF IsAgUi THEN AgUiInv ELSE SdkInv
           /\ phase = "closed" => sink.done
           /\ sink.done => phase = "closed" /\ ~ reducer.current.open
           /\ reducer.current.open => reducer.usage = AddUsage(reducer.completedUsage, reducer.currentUsage)
<1>1. /\ FlightInv /\ SeenInv /\ sink.open /\ queue = <<>> /\ (IF IsAgUi THEN AgUiInv ELSE SdkInv)
  BY DEF Running, WireInv
<1>2. SinkOk(sink) /\ ReducerOk(reducer)
  BY DEF IndInv, Types
<1>3. QED BY <1>1, <1>2 DEF FlightInv

\* A step of the run writes nothing.
LEMMA RunKeeps ==
    ASSUME IndInv, WireInv, Running, UNCHANGED <<config, reducer, enc, sink>>,
           FlightInv', IsAgUi => IdsInv', sink.done => spent' = spent
    PROVE  WireInv'
<1>1. sink.open /\ SeenInv /\ (IF IsAgUi THEN AgUiInv ELSE SdkInv)
  BY RunIsSeen
<1>2. (IsAgUi' <=> IsAgUi) /\ (IsPipe' <=> IsPipe)
  BY DEF IsAgUi, IsPipe
<1>3. SeenInv'
  BY <1>1, <1>2 DEF SeenInv
<1>4. CASE IsAgUi
  <2>1. AgUiInv'
    BY <1>1, <1>4 DEF AgUiInv
  <2>2. QED BY <1>1, <1>2, <1>3, <1>4, <2>1 DEF WireInv
<1>5. CASE ~ IsAgUi
  <2>1. sink.done => ChunkUsage(spent)' = ChunkUsage(spent)
    BY <1>2 DEF ChunkUsage
  <2>2. SdkInv'
    BY <1>1, <1>5, <2>1 DEF SdkInv
  <2>3. QED BY <1>1, <1>2, <1>3, <1>5, <2>2 DEF WireInv
<1>6. QED BY <1>4, <1>5

LEMMA HeadIsFirst ==
    ASSUME NEW s, IsSequence(s), s # <<>>
    PROVE  Head(s) = s[1] /\ 1 \in DOMAIN s
<1>1. Head(s) = s[1] /\ Len(s) > 0 /\ Len(s) \in Nat /\ DOMAIN s = 1 .. Len(s)
  BY TailIsSequence, SequenceShape
<1>2. QED BY <1>1

LEMMA PlainIsNothingElse ==
    /\ PlainTypes \subseteq EventTypes /\ CallTypes \subseteq PlainTypes
    /\ \A type \in PlainTypes : type \notin Streamed /\ type \notin {"done", "usage", "error"}
BY DEF PlainTypes, CallTypes, EventTypes, Streamed

\* A step that reports nothing of the answer, and does not end the run.
LEMMA PlainStep ==
    ASSUME IndInv, WireInv, Running, UNCHANGED <<config, reducer, enc, sink>>,
           Typed(queue', PlainTypes), phase # "closed", phase' # "closed", IsAgUi => IdsInv'
    PROVE  WireInv'
<1>1. /\ ~ sink.done
      /\ reducer.current.open => reducer.usage = AddUsage(reducer.completedUsage, reducer.currentUsage)
  BY RunIsSeen
<1>2. \A i \in DOMAIN queue' : /\ queue'[i].type \in EventTypes /\ queue'[i].type \notin Streamed
                               /\ queue'[i].type # "done" /\ queue'[i].type # "usage"
  BY PlainIsNothingElse DEF Typed
<1>3. queue' # <<>> => Head(queue').type # "usage"
  <2>1. SUFFICES ASSUME queue' # <<>> PROVE Head(queue').type # "usage"
    OBVIOUS
  <2>2. PICK q : q = queue'
    OBVIOUS
  <2>3. IsSequence(q) /\ q # <<>>
    BY <2>1, <2>2 DEF Typed
  <2>4. Head(q) = q[1] /\ 1 \in DOMAIN q
    BY <2>3, HeadIsFirst
  <2>5. QED BY <1>2, <2>2, <2>4
<1>4. FlightInv'
  BY <1>1, <1>2, <1>3 DEF FlightInv, Pending
<1>5. QED BY <1>1, <1>4, RunKeeps

LEMMA TypedTail ==
    ASSUME NEW s, NEW types, Typed(s, types), s # <<>>
    PROVE  Typed(Tail(s), types)
<1>1. IsSequence(s)
  BY DEF Typed
<1>2. /\ IsSequence(Tail(s)) /\ Len(s) \in Nat /\ DOMAIN s = 1 .. Len(s) /\ DOMAIN Tail(s) = 1 .. Len(s) - 1
      /\ \A i \in 1 .. Len(s) - 1 : Tail(s)[i] = s[i + 1]
  BY <1>1, TailIsSequence, SequenceShape
<1>3. ASSUME NEW i \in DOMAIN Tail(s) PROVE Tail(s)[i].type \in types
  <2>1. Tail(s)[i] = s[i + 1] /\ i + 1 \in DOMAIN s
    BY <1>2
  <2>2. QED BY <2>1 DEF Typed
<1>4. QED BY <1>2, <1>3 DEF Typed

LEMMA TypedPair ==
    ASSUME NEW a, NEW b, NEW types, a.type \in types, b.type \in types
    PROVE  Typed(<<a, b>>, types)
<1>1. <<a, b>> = <<a>> \o <<b>>
  BY PairIsConcat
<1>2. QED BY <1>1, TypedOne, TypedConcat

\* What is emitted of a call.
LEMMA CallStepTypes ==
    ASSUME NEW call, NEW result
    PROVE  /\ ReadyStep(call).type \in CallTypes /\ ResultStep(result).type \in CallTypes
           /\ ApprovalRequestStep(call).type \in CallTypes /\ OutputDeniedStep(call.id).type \in CallTypes
           /\ CallStep("invalid", call.id, call.name, call.args, NoSig).type \in CallTypes
           /\ CallStep("clientRequest", call.id, call.name, call.args, NoSig).type \in CallTypes
BY DEF CallTypes, ReadyStep, ResultStep, ApprovalRequestStep, OutputDeniedStep, CallStep

LEMMA CallEventTypes ==
    ASSUME NEW call, NEW kind
    PROVE  Typed(CallEvents(call, kind), CallTypes)
<1>1. CASE kind = "invalid"
  BY <1>1, CallStepTypes, TypedOne DEF CallEvents
<1>2. CASE kind = "client"
  BY <1>2, CallStepTypes, TypedPair DEF CallEvents
<1>3. CASE kind \in {"pending", "granted"}
  BY <1>3, CallStepTypes, TypedPair DEF CallEvents
<1>4. CASE kind = "denied"
  <2>1. PICK a, b, c : a = ReadyStep(call) /\ b = ApprovalRequestStep(call) /\ c = OutputDeniedStep(call.id)
    OBVIOUS
  <2>2. CallEvents(call, kind) = <<a, b, c>>
    BY <1>4, <2>1 DEF CallEvents
  <2>3. <<a, b, c>> = <<a, b>> \o <<c>>
    OBVIOUS
  <2>4. a.type \in CallTypes /\ b.type \in CallTypes /\ c.type \in CallTypes
    BY <2>1, CallStepTypes
  <2>5. QED BY <2>2, <2>3, <2>4, TypedOne, TypedPair, TypedConcat
<1>5. CASE kind \notin {"invalid", "client", "pending", "granted", "denied"}
  BY <1>5, CallStepTypes, TypedOne DEF CallEvents
<1>6. QED BY <1>1, <1>2, <1>3, <1>4, <1>5

\* The events of a call that are plain are plain events.
LEMMA CallsArePlain ==
    ASSUME NEW s, Typed(s, CallTypes)
    PROVE  Typed(s, PlainTypes)
BY PlainIsNothingElse, TypedMore

LEMMA ResumeCallSeen ==
    ASSUME IndInv, WireInv, ResumeCall
    PROVE  WireInv'
<1>1. /\ Running /\ phase # "closed" /\ phase' \notin {"closed", "model"}
      /\ UNCHANGED <<config, reducer, enc, sink>>
  BY DEF ResumeCall, Emits
<1>2. Typed(queue', CallTypes)
  <2>1. PICK answer, result : /\ answer = Head(rest)
                              /\ result = ResumedResult(answer.call, answer.approved)
    OBVIOUS
  <2>2. queue' = <<ResumedEvent(answer.call, answer.approved), ResultStep(result)>>
    BY <2>1 DEF ResumeCall, Emits
  <2>3. /\ ResumedEvent(answer.call, answer.approved).type \in CallTypes
        /\ ResultStep(result).type \in CallTypes
    BY CallStepTypes DEF ResumedEvent
  <2>4. QED BY <2>2, <2>3, TypedPair
<1>3. IdsInv'
  BY <1>1 DEF IdsInv
<1>4. QED BY <1>1, <1>2, <1>3, CallsArePlain, PlainStep

\* The steps between an answer and the end of its calls.
LEMMA CallsSeen ==
    ASSUME IndInv, WireInv, Running, UNCHANGED <<config, reducer, enc, sink>>,
           phase # "closed", phase' = "tools", Typed(queue', CallTypes)
    PROVE  WireInv'
<1>1. IdsInv'
  BY DEF IdsInv
<1>2. QED BY <1>1, CallsArePlain, PlainStep

LEMMA CallToolsSeen ==
    ASSUME IndInv, WireInv, CallTools
    PROVE  WireInv'
<1>1. /\ Running /\ phase = "model" /\ phase' = "tools" /\ queue' = <<>>
      /\ UNCHANGED <<config, reducer, enc, sink>>
  BY DEF CallTools, Running
<1>2. QED BY <1>1, TypedNone, CallsSeen

LEMMA AnnounceSeen ==
    ASSUME IndInv, WireInv, NEW i \in DOMAIN batch, Announce(i)
    PROVE  WireInv'
<1>1. /\ Running /\ phase = "tools" /\ phase' = "tools" /\ UNCHANGED <<config, reducer, enc, sink>>
  BY DEF Announce, Emits
<1>2. PICK kind, call : kind = batch[i].kind /\ call = batch[i].call
  OBVIOUS
<1>3. Typed(queue', CallTypes)
  <2>1. queue' = CASE kind = "invalid" -> <<>>
                   [] kind = "client"  -> CallEvents(call, kind)
                   [] OTHER            -> <<ReadyStep(call)>>
    BY <1>2 DEF Announce, Emits, Before
  <2>2. CASE kind = "invalid"
    BY <2>1, <2>2, TypedNone
  <2>3. CASE kind = "client"
    BY <2>1, <2>3, CallEventTypes
  <2>4. CASE kind \notin {"invalid", "client"}
    BY <2>1, <2>4, CallStepTypes, TypedOne
  <2>5. QED BY <2>2, <2>3, <2>4
<1>4. QED BY <1>1, <1>3, CallsSeen

LEMMA ApproveSeen ==
    ASSUME IndInv, WireInv, NEW i \in DOMAIN batch, Approve(i)
    PROVE  WireInv'
<1>1. /\ Running /\ phase = "tools" /\ phase' = "tools" /\ UNCHANGED <<config, reducer, enc, sink>>
  BY DEF Approve, Emits
<1>2. PICK kind, call : kind = batch[i].kind /\ call = batch[i].call
  OBVIOUS
<1>3. Typed(queue', CallTypes)
  <2>1. queue' = IF kind \in {"pending", "granted", "denied"} THEN Tail(CallEvents(call, kind)) ELSE <<>>
    BY <1>2 DEF Approve, Emits, Before
  <2>2. Typed(Tail(CallEvents(call, kind)), CallTypes)
    BY CallEventTypes, CallEventsAreNeutral, TypedTail
  <2>3. QED BY <2>1, <2>2, TypedNone
<1>4. QED BY <1>1, <1>3, CallsSeen

LEMMA CommitSeen ==
    ASSUME IndInv, WireInv, NEW i \in DOMAIN batch, Commit(i)
    PROVE  WireInv'
<1>1. /\ Running /\ phase = "tools" /\ phase' = "tools" /\ UNCHANGED <<config, reducer, enc, sink>>
  BY DEF Commit, Emits
<1>2. PICK kind, call, result : /\ kind = batch[i].kind /\ call = batch[i].call
                                /\ result = ResultStep(CallResult(call, kind))
  OBVIOUS
<1>3. Typed(queue', CallTypes)
  <2>1. PICK before, after : /\ before = (IF kind = "invalid" THEN CallEvents(call, kind) ELSE <<>>)
                             /\ after = Option(~ Suspends(kind), result)
    OBVIOUS
  <2>2. queue' = before \o after
    BY <1>2, <2>1 DEF Commit, Emits, Before
  <2>3. Typed(before, CallTypes)
    BY <2>1, CallEventTypes, TypedNone
  <2>4. Typed(after, CallTypes)
    BY <1>2, <2>1, CallStepTypes, TypedOption
  <2>5. QED BY <2>2, <2>3, <2>4, TypedConcat
<1>4. QED BY <1>1, <1>3, CallsSeen

LEMMA PublishStateSeen ==
    ASSUME IndInv, WireInv, PublishState
    PROVE  WireInv'
<1>1. /\ Running /\ phase = "model" /\ phase' = "model" /\ IsAgUi
      /\ UNCHANGED <<config, reducer, enc, sink, rest, turn>>
  BY DEF PublishState, Emits, runVars
<1>2. PICK valid, patch : queue' = <<patch>> /\ patch = StatePatch(valid)
  BY DEF PublishState, Emits
<1>3. patch.type = "stateDelta"
  BY <1>2 DEF StatePatch
<1>4. Typed(queue', PlainTypes)
  BY <1>2, <1>3, TypedOne DEF PlainTypes
<1>5. Head(queue').type # "toolCallStart"
  BY <1>2, <1>3
<1>6. IdsInv
  BY <1>1, RunIsSeen DEF AgUiInv
<1>7. IdsInv'
  BY <1>1, <1>5, <1>6 DEF IdsInv, HasIndex, Pending
<1>8. QED BY <1>1, <1>4, <1>7, PlainStep

\* The run fails, perhaps after Done.
LEMMA FailSeen ==
    ASSUME IndInv, WireInv, Fail
    PROVE  WireInv'
<1>1. /\ Running /\ phase' = "closed" /\ UNCHANGED <<config, reducer, enc, sink, spent>>
      /\ queue' = <<[type |-> "error"]>>
  BY DEF Fail, Emits
<1>2. PICK e : e = [type |-> "error"]
  OBVIOUS
<1>3. /\ DOMAIN queue' = {1} /\ queue'[1] = e /\ Len(queue') = 1 /\ Head(queue') = e /\ queue' # <<>>
      /\ e.type = "error"
  BY <1>1, <1>2
<1>4. e.type \in EventTypes /\ e.type \notin Streamed
  BY <1>3 DEF EventTypes, Streamed
<1>5. /\ sink.done => ~ reducer.current.open
      /\ reducer.current.open => reducer.usage = AddUsage(reducer.completedUsage, reducer.currentUsage)
  BY <1>1, RunIsSeen
<1>6. FlightInv'
  BY <1>1, <1>3, <1>4, <1>5 DEF FlightInv, Pending
<1>7. IdsInv'
  BY <1>1 DEF IdsInv
<1>8. QED BY <1>1, <1>6, <1>7, RunKeeps

\* A step of the run ends, and with the last one the run.
LEMMA EndStepSeen ==
    ASSUME IndInv, WireInv, Running, phase \in {"model", "tools"}, NEW last \in BOOLEAN, EndStep(last)
    PROVE  WireInv'
<1>1. PICK end, object, structured, plain :
        /\ end = StepEnd(step - 1, turn.messageID, turn.reason) /\ object = StructuredOutput("object")
        /\ structured = (last /\ batch = <<>> /\ config.options.structuredStart)
        /\ plain = <<end>> \o Option(structured, object)
  OBVIOUS
<1>2. /\ UNCHANGED <<config, reducer, enc, sink>>
      /\ phase' = (IF last THEN "closed" ELSE "between")
      /\ queue' = plain \o Option(last, Done)
  BY <1>1 DEF EndStep, Emits
<1>3. Typed(plain, PlainTypes)
  <2>1. end.type \in PlainTypes /\ object.type \in PlainTypes
    BY <1>1 DEF StepEnd, StructuredOutput, PlainTypes
  <2>2. QED BY <1>1, <2>1, TypedOne, TypedOption, TypedConcat
<1>4. IdsInv'
  BY <1>2 DEF IdsInv
<1>5. CASE ~ last
  <2>1. Option(last, Done) = <<>>
    BY <1>5, SameOption
  <2>2. queue' = plain
    BY <1>2, <1>3, <2>1, NothingAdded DEF Typed
  <2>3. QED BY <1>2, <1>3, <1>4, <1>5, <2>2, PlainStep
<1>6. CASE last
  <2>1. PICK done, m : done = Done /\ m = Len(plain)
    OBVIOUS
  <2>2. done.type = "done"
    BY <2>1 DEF Done
  <2>3. queue' = plain \o <<done>> /\ phase' = "closed"
    BY <1>2, <1>6, <2>1, SameOption
  <2>4. /\ IsSequence(plain) /\ m \in Nat /\ m > 0 /\ DOMAIN plain = 1 .. m /\ plain[1] = end
    <3>1. IsSequence(<<end>>) /\ Len(<<end>>) = 1 /\ 1 \in 1 .. 1 /\ <<end>>[1] = end
      BY OneIsSequence
    <3>2. IsSequence(Option(structured, object))
      <4>1. CASE structured
        BY <4>1, OneIsSequence DEF Option
      <4>2. CASE ~ structured
        BY <4>2, NoneIsSequence DEF Option
      <4>3. QED BY <4>1, <4>2
    <3>3. Len(Option(structured, object)) \in Nat
      BY <3>2, SequenceShape
    <3>4. plain[1] = end /\ m = 1 + Len(Option(structured, object))
      BY <1>1, <2>1, <3>1, <3>2, ConcatIsSequence
    <3>5. IsSequence(plain)
      BY <1>3 DEF Typed
    <3>6. Len(plain) \in Nat /\ DOMAIN plain = 1 .. Len(plain)
      BY <3>5, SequenceShape
    <3>7. m \in Nat /\ m > 0
      BY <3>3, <3>4
    <3>8. QED BY <2>1, <3>4, <3>5, <3>6, <3>7
  <2>5. /\ IsSequence(queue') /\ Len(queue') = m + 1 /\ DOMAIN queue' = 1 .. m + 1 /\ queue' # <<>>
        /\ queue'[m + 1] = done
    <3>1. IsSequence(queue') /\ Len(queue') = m + 1 /\ queue'[m + 1] = done
      BY <2>1, <2>3, <2>4, LastOfConcat
    <3>2. QED BY <2>4, <3>1, SequenceShape
  <2>6. \A i \in 1 .. m : queue'[i] = plain[i]
    <3>1. IsSequence(<<done>>)
      BY OneIsSequence
    <3>2. \A i \in 1 .. m : (plain \o <<done>>)[i] = plain[i]
      BY <2>1, <2>4, <3>1, ConcatIsSequence
    <3>3. QED BY <2>3, <3>2
  <2>7. ASSUME NEW i \in DOMAIN queue'
        PROVE  /\ queue'[i].type \in EventTypes /\ queue'[i].type \notin Streamed
               /\ queue'[i].type = "done" => i = m + 1
    <3>1. CASE i = m + 1
      BY <2>2, <2>5, <3>1 DEF EventTypes, Streamed
    <3>2. CASE i # m + 1
      <4>1. i \in 1 .. m
        BY <2>4, <2>5, <3>2
      <4>2. queue'[i].type \in PlainTypes
        BY <1>3, <2>4, <2>6, <4>1 DEF Typed
      <4>3. QED BY <4>2, PlainIsNothingElse
    <3>3. QED BY <3>1, <3>2
  <2>8. Head(queue').type # "usage"
    <3>1. 1 \in 1 .. m /\ Head(queue') = queue'[1]
      BY <2>4, <2>5, HeadIsFirst
    <3>2. Head(queue').type = "stepEnd"
      BY <1>1, <2>4, <2>6, <3>1 DEF StepEnd
    <3>3. QED BY <3>2
  <2>9. /\ ~ sink.done
        /\ reducer.current.open => reducer.usage = AddUsage(reducer.completedUsage, reducer.currentUsage)
    BY RunIsSeen
  <2>10. FlightInv'
    BY <1>2, <2>2, <2>3, <2>5, <2>7, <2>8, <2>9 DEF FlightInv, Pending
  <2>11. QED BY <1>2, <1>4, <2>9, <2>10, RunKeeps
<1>7. QED BY <1>5, <1>6

\* A step of the run begins: no call is open, and the provider keeps its promise.
LEMMA BeginStepSeen ==
    ASSUME IndInv, WireInv, BeginStep
    PROVE  WireInv'
<1>1. /\ Running /\ phase = "between" /\ step < Len(config.turns)
      /\ phase' = "model" /\ rest' = config.turns[step + 1] /\ queue' = <<StepStart(step)>>
      /\ UNCHANGED <<config, reducer, enc, sink>>
  BY DEF BeginStep, Emits
<1>2. PICK start : start = StepStart(step)
  OBVIOUS
<1>9. start.type = "stepStart"
  BY <1>2 DEF StepStart
<1>3. Typed(queue', PlainTypes)
  BY <1>1, <1>2, <1>9, TypedOne DEF PlainTypes
<1>4. OwnIds(rest')
  <2>1. Types /\ Len(config.turns) \in Nat
    BY <1>1, RunMoves
  <2>2. config \in Configs /\ step + 1 \in 1 .. Len(config.turns)
    BY <1>1, <2>1 DEF Types
  <2>3. DOMAIN config.turns = 1 .. Len(config.turns)
    BY <2>2, RunOutputsAssumption
  <2>4. QED BY <1>1, <2>2, <2>3, ProviderAssumption
<1>5. ASSUME IsAgUi PROVE enc.openTools = {}
  <2>1. Counted /\ AgUiInv
    BY <1>1, <1>5, RunMoves, RunIsSeen
  <2>2. ~ reducer.current.open
    BY <1>1, <2>1 DEF Counted, Outside
  <2>3. AgUiBlocks(enc) = {}
    BY <2>1, <2>2 DEF AgUiInv
  <2>4. QED BY <2>3 DEF AgUiBlocks
<1>6. Head(queue').type # "toolCallStart"
  BY <1>1, <1>2, <1>9
<1>7. IsAgUi => IdsInv'
  BY <1>1, <1>4, <1>5, <1>6 DEF IdsInv, Pending
<1>8. QED BY <1>1, <1>3, <1>7, PlainStep

-----------------------------------------------------------------------------
(* The wire while the model answers (agent/stream.go). *)

\* Of a promise about the calls to come, the rest still holds when one has come.
LEMMA LaterIds ==
    ASSUME NEW events, IsSequence(events), events # <<>>, OwnIds(events)
    PROVE  /\ OwnIds(Tail(events))
           /\ \A i \in DOMAIN Tail(events) : \E k \in DOMAIN events : Tail(events)[i] = events[k]
           /\ \A i \in DOMAIN Tail(events) :
                /\ Head(events).type = "toolCall" /\ Head(events).id # NoId
                /\ Tail(events)[i].type = "toolCall" /\ Tail(events)[i].id = Head(events).id
                => Tail(events)[i].index = Head(events).index
<1> PICK m, later : m = Len(events) /\ later = Tail(events)
  OBVIOUS
<1>1. /\ m \in Nat /\ m > 0 /\ DOMAIN events = 1 .. m /\ Head(events) = events[1]
      /\ DOMAIN later = 1 .. m - 1 /\ \A i \in 1 .. m - 1 : later[i] = events[i + 1]
  BY TailIsSequence, SequenceShape
<1>2. \A i \in DOMAIN later : i + 1 \in DOMAIN events /\ later[i] = events[i + 1]
  BY <1>1
<1>3. 1 \in DOMAIN events
  BY <1>1
<1>4. OwnIds(later)
  BY <1>2 DEF OwnIds
<1>5. \A i \in DOMAIN later : \E k \in DOMAIN events : later[i] = events[k]
  BY <1>2
<1>6. ASSUME NEW i \in DOMAIN later, events[1].type = "toolCall", events[1].id # NoId,
             later[i].type = "toolCall", later[i].id = events[1].id
      PROVE  later[i].index = events[1].index
  BY <1>2, <1>3, <1>6 DEF OwnIds
<1>7. QED BY <1>1, <1>4, <1>5, <1>6

\* The fold knows the index of every call it was given (aikit/tool_call_fold.go).
LEMMA FoldGrows ==
    ASSUME NEW t, NEW e, TurnOk(t), NEW u, u = TurnAfter(t, e)
    PROVE  /\ \A index \in DOMAIN t.fold : index \in DOMAIN u.fold
           /\ e.type = "toolCall" => e.index \in DOMAIN u.fold
<1>1. CASE e.type = "toolCall"
  <2>1. u.fold = AddDelta(t.fold, e)
    BY <1>1 DEF TurnAfter, TurnOk
  <2>2. DOMAIN AddDelta(t.fold, e) = DOMAIN t.fold \cup {e.index}
    BY DEF AddDelta
  <2>3. QED BY <2>1, <2>2
<1>2. CASE e.type # "toolCall"
  <2>1. u.fold = t.fold
    BY <1>2 DEF TurnAfter, TurnOk
  <2>2. QED BY <1>2, <2>1
<1>3. QED BY <1>1, <1>2

\* One event of an answer, or none, is in flight.
AtMostOne(events, e) == events = <<>> \/ events = <<e>>

\* What an event of the answer is sent as.
LEMMA AnswerSent ==
    ASSUME NEW t, NEW e,
           e.type \in {"text", "reasoning", "usage", "source", "file", "finish", "toolCall"},
           NEW sent, sent = StepEventsOf(t, e)
    PROVE  \E one :
             /\ AtMostOne(sent, one)
             /\ one.type \in Streamed \cup {"usage", "source", "file"}
             /\ one.type = "usage" => one.usage = MergeUsage(t.usage, e.usage) /\ e.type = "usage"
             /\ one.type = "toolCallStart" => e.type = "toolCall" /\ one.id = e.id /\ IsNewCall(t.fold, e)
<1>1. CASE e.type = "text"
  <2>1. PICK one : one = TextStep(e.text)
    OBVIOUS
  <2>2. one.type = "text" /\ AtMostOne(sent, one)
    BY <1>1, <2>1 DEF TextStep, StepEventsOf, AtMostOne
  <2>3. QED BY <2>2 DEF Streamed
<1>2. CASE e.type = "reasoning"
  <2>1. PICK one : one = ReasoningStep(e.text, e.sig)
    OBVIOUS
  <2>2. one.type = "reasoning" /\ AtMostOne(sent, one)
    BY <1>2, <2>1 DEF ReasoningStep, StepEventsOf, AtMostOne
  <2>3. QED BY <2>2 DEF Streamed
<1>3. CASE e.type = "usage"
  <2>1. PICK one : one = UsageStep(MergeUsage(t.usage, e.usage))
    OBVIOUS
  <2>2. one.type = "usage" /\ one.usage = MergeUsage(t.usage, e.usage)
    BY <2>1 DEF UsageStep
  <2>3. AtMostOne(sent, one)
    BY <1>3, <2>1 DEF StepEventsOf, AtMostOne
  <2>4. QED BY <1>3, <2>2, <2>3
<1>4. CASE e.type = "source"
  <2>1. PICK one : one = SourceStep(e.url)
    OBVIOUS
  <2>2. one.type = "source" /\ AtMostOne(sent, one)
    BY <1>4, <2>1 DEF SourceStep, StepEventsOf, AtMostOne
  <2>3. QED BY <2>2
<1>5. CASE e.type = "file"
  <2>1. PICK one : one = FileStep(e.data)
    OBVIOUS
  <2>2. one.type = "file" /\ AtMostOne(sent, one)
    BY <1>5, <2>1 DEF FileStep, StepEventsOf, AtMostOne
  <2>3. QED BY <2>2
<1>6. CASE e.type = "finish"
  <2>1. PICK one : one = SourceStep("")
    OBVIOUS
  <2>2. one.type = "source" /\ AtMostOne(sent, one)
    BY <1>6, <2>1 DEF SourceStep, StepEventsOf, AtMostOne
  <2>3. QED BY <2>2
<1>7. CASE e.type = "toolCall"
  <2>1. PICK start, delta : /\ start = CallStep("toolCallStart", e.id, e.name, e.args, e.sig)
                            /\ delta = CallStep("toolCallDelta", e.id, "", e.args, NoSig)
    OBVIOUS
  <2>2. start.type = "toolCallStart" /\ start.id = e.id /\ delta.type = "toolCallDelta"
    BY <2>1 DEF CallStep
  <2>3. sent = IF IsNewCall(t.fold, e) THEN <<start>> ELSE Option(e.args # <<>>, delta)
    BY <1>7, <2>1 DEF StepEventsOf
  <2>4. CASE IsNewCall(t.fold, e)
    <3>1. AtMostOne(sent, start)
      BY <2>3, <2>4 DEF AtMostOne
    <3>2. QED BY <1>7, <2>2, <2>4, <3>1 DEF Streamed
  <2>5. CASE ~ IsNewCall(t.fold, e)
    <3>1. AtMostOne(sent, delta)
      BY <2>3, <2>5 DEF AtMostOne, Option
    <3>2. QED BY <2>2, <3>1 DEF Streamed
  <2>6. QED BY <2>4, <2>5
<1>8. QED BY <1>1, <1>2, <1>3, <1>4, <1>5, <1>6, <1>7

\* The next event of the answer is sent.
LEMMA ReadStreamSeen ==
    ASSUME IndInv, WireInv, ReadStream
    PROVE  WireInv'
<1>1. PICK event : event = Head(rest)
  OBVIOUS
<1>2. /\ Running /\ phase = "model" /\ phase' = "model" /\ rest # <<>>
      /\ UNCHANGED <<config, reducer, enc, sink, spent>>
      /\ rest' = Tail(rest) /\ turn' = TurnAfter(turn, event) /\ queue' = StepEventsOf(turn, event)
  BY <1>1 DEF ReadStream, Emits
<1>3. Types /\ Within /\ reducer.currentUsage = turn.usage /\ TurnOk(turn) /\ turn.usage \in Usage
  BY <1>2, RunMoves DEF Counted, Types, TurnOk
<1>4. /\ event.type \in {"text", "reasoning", "usage", "source", "file", "finish", "toolCall"}
      /\ event.type = "usage" => event.usage \in Usage
      /\ IsSequence(rest)
  BY <1>1, <1>2, <1>3, AnswerEvent DEF Types, IsAnswer, IsSequence
<1>5. PICK one : /\ AtMostOne(queue', one)
                 /\ one.type \in Streamed \cup {"usage", "source", "file"}
                 /\ one.type = "usage" => one.usage = MergeUsage(turn.usage, event.usage) /\ event.type = "usage"
                 /\ one.type = "toolCallStart" =>
                      event.type = "toolCall" /\ one.id = event.id /\ IsNewCall(turn.fold, event)
  BY <1>2, <1>4, AnswerSent
<1>6. one.type \in EventTypes /\ one.type # "done"
  BY <1>5 DEF EventTypes, Streamed
<1>7. /\ ~ sink.done /\ reducer.current.open
      /\ reducer.usage = AddUsage(reducer.completedUsage, reducer.currentUsage)
  BY <1>2, <1>3, RunIsSeen DEF Within
<1>8. queue' = <<>> \/ (DOMAIN queue' = {1} /\ queue'[1] = one /\ Len(queue') = 1 /\ Head(queue') = one)
  BY <1>5 DEF AtMostOne
<1>9. one.type = "usage" => MergeUsage(reducer.currentUsage, one.usage) = one.usage
  BY <1>3, <1>4, <1>5, MergesOnce
<1>10. FlightInv'
  <2>1. \A i \in DOMAIN queue' : i = 1 /\ queue'[i] = one /\ Len(queue') = 1
    BY <1>8
  <2>2. queue' # <<>> => Head(queue') = one
    BY <1>8
  <2>3. QED BY <1>2, <1>6, <1>7, <1>9, <2>1, <2>2 DEF FlightInv, Pending
<1>11. ASSUME IsAgUi PROVE IdsInv'
  <2>1. /\ OwnIds(rest) /\ \A id \in enc.openTools : HasIndex(id)
    BY <1>2, <1>11, RunIsSeen DEF AgUiInv, IdsInv
  <2>2. PICK later : later = rest'
    OBVIOUS
  <2>3. /\ OwnIds(later)
        /\ \A i \in DOMAIN later : \E k \in DOMAIN rest : later[i] = rest[k]
        /\ \A i \in DOMAIN later :
             /\ event.type = "toolCall" /\ event.id # NoId
             /\ later[i].type = "toolCall" /\ later[i].id = event.id
             => later[i].index = event.index
    BY <1>1, <1>2, <1>4, <2>1, <2>2, LaterIds
  <2>4. /\ \A index \in DOMAIN turn.fold : index \in DOMAIN turn'.fold
        /\ event.type = "toolCall" => event.index \in DOMAIN turn'.fold
    BY <1>2, <1>3, FoldGrows
  <2>5. ASSUME NEW id \in enc.openTools PROVE HasIndex(id)'
    <3>1. PICK index \in DOMAIN turn.fold :
            \A i \in DOMAIN rest : rest[i].type = "toolCall" /\ rest[i].id = id => rest[i].index = index
      BY <2>1 DEF HasIndex
    <3>2. \A i \in DOMAIN later : later[i].type = "toolCall" /\ later[i].id = id => later[i].index = index
      BY <2>3, <3>1
    <3>3. QED BY <2>2, <2>4, <3>2 DEF HasIndex
  <2>6. ASSUME one.type = "toolCallStart" PROVE one.id \notin enc.openTools
    <3>1. SUFFICES ASSUME one.id \in enc.openTools PROVE FALSE
      OBVIOUS
    <3>2. PICK index \in DOMAIN turn.fold :
            \A i \in DOMAIN rest : rest[i].type = "toolCall" /\ rest[i].id = one.id => rest[i].index = index
      BY <2>1, <3>1 DEF HasIndex
    <3>3. event = rest[1] /\ 1 \in DOMAIN rest
      BY <1>1, <1>2, <1>4, HeadIsFirst
    <3>4. event.index = index
      BY <1>5, <2>6, <3>2, <3>3
    <3>5. QED BY <1>5, <2>6, <3>4 DEF IsNewCall
  <2>7. ASSUME one.type = "toolCallStart", one.id # NoId PROVE HasIndex(one.id)'
    <3>1. event.type = "toolCall" /\ event.id = one.id /\ event.index \in DOMAIN turn'.fold
      BY <1>5, <2>4, <2>7
    <3>2. \A i \in DOMAIN later : later[i].type = "toolCall" /\ later[i].id = one.id
                                    => later[i].index = event.index
      BY <2>3, <2>7, <3>1
    <3>3. QED BY <2>2, <3>1, <3>2 DEF HasIndex
  <2>8. queue' # <<>> => Head(queue') = one
    BY <1>8
  <2>9. QED BY <1>2, <2>2, <2>3, <2>5, <2>6, <2>7, <2>8 DEF IdsInv, Pending
<1>12. QED BY <1>2, <1>7, <1>10, <1>11, RunKeeps

LEMMA RunSeen ==
    ASSUME IndInv, WireInv, RunNext
    PROVE  WireInv'
<1>1. CASE Answered
  <2>1. Running /\ phase \in {"model", "tools"} /\ EndStep(TRUE)
    BY <1>1 DEF Answered
  <2>2. QED BY <2>1, EndStepSeen
<1>2. CASE ToolsDone
  <2>1. PICK last \in BOOLEAN : last = (\E i \in DOMAIN batch : Suspends(batch[i].kind))
    OBVIOUS
  <2>2. Running /\ phase \in {"model", "tools"} /\ EndStep(last)
    BY <1>2, <2>1 DEF ToolsDone
  <2>3. QED BY <2>2, EndStepSeen
<1>3. QED BY <1>1, <1>2, ResumeCallSeen, BeginStepSeen, ReadStreamSeen, CallToolsSeen, AnnounceSeen,
             ApproveSeen, CommitSeen, PublishStateSeen, FailSeen DEF RunNext

-----------------------------------------------------------------------------
(* An event is taken. *)

\* What is known of the event when it is taken.
Arrives(event) ==
    /\ sink.open /\ ~ sink.done /\ SinkOk(sink) /\ ReducerOk(reducer)
    /\ event.type \in EventTypes /\ event.type # "error"
    /\ event.type \in Streamed => reducer.current.open
    /\ event.type = "usage" =>
         /\ event.usage \in Usage /\ reducer.current.open
         /\ MergeUsage(reducer.currentUsage, event.usage) = event.usage
    /\ event.type = "stepStart" => ~ reducer.current.open /\ reducer.usage = reducer.completedUsage
    /\ event.type = "stepEnd" => reducer.current.open
    /\ event.type = "done" =>
         ~ reducer.current.open /\ reducer.usage = spent /\ phase = "closed" /\ Tail(queue) = <<>>

LEMMA NextArrives ==
    ASSUME IndInv, WireInv, NextEvent, NEW event, event = Head(queue)
    PROVE  Arrives(event)
<1>1. sink.open /\ queue # <<>> /\ event.type # "error"
  BY DEF NextEvent
<1>2. /\ FlightInv /\ Types /\ Led(queue, event) /\ CountedInv /\ PendingInv /\ SinkOk(sink) /\ ReducerOk(reducer)
  BY <1>1 DEF WireInv, IndInv, QueueInv, Types
<1>3. IsSequence(queue) /\ event = queue[1] /\ 1 \in DOMAIN queue
  BY <1>1, <1>2, HeadIsFirst DEF Led
<1>4. /\ event.type \in EventTypes /\ (event.type \in Streamed => reducer.current.open)
      /\ event.type = "done" => Len(queue) = 1 /\ phase = "closed"
  BY <1>2, <1>3 DEF FlightInv
<1>5. ~ sink.done
  BY <1>1, <1>2 DEF FlightInv
<1>6. ASSUME event.type = "usage"
      PROVE  /\ event.usage \in Usage /\ reducer.current.open
             /\ MergeUsage(reducer.currentUsage, event.usage) = event.usage
  <2>1. Pending("usage")
    BY <1>1, <1>6 DEF Pending
  <2>2. Within /\ event.usage = turn.usage
    BY <1>2, <2>1 DEF PendingInv
  <2>3. QED BY <1>2, <2>1, <2>2 DEF Within, Types, TurnOk, FlightInv
<1>7. ASSUME event.type = "stepStart" PROVE ~ reducer.current.open /\ reducer.usage = reducer.completedUsage
  <2>1. Outside
    BY <1>1, <1>2, <1>7 DEF PendingInv, Pending
  <2>2. QED BY <2>1 DEF Outside
<1>8. ASSUME event.type = "stepEnd" PROVE reducer.current.open
  BY <1>1, <1>2, <1>8 DEF PendingInv, Pending
<1>9. ASSUME event.type = "done"
      PROVE  ~ reducer.current.open /\ reducer.usage = spent /\ Tail(queue) = <<>>
  <2>1. Counted
    BY <1>2, <1>9 DEF CountedInv, UpToDate, Neutral
  <2>2. ~ reducer.current.open /\ reducer.usage = spent
    BY <1>4, <1>9, <2>1 DEF Counted, Outside
  <2>3. IsSequence(Tail(queue)) /\ Len(Tail(queue)) = 0
    BY <1>1, <1>3, <1>4, <1>9, TailIsSequence
  <2>4. QED BY <2>2, <2>3, SequenceShape
<1>10. QED BY <1>1, <1>2, <1>4, <1>5, <1>6, <1>7, <1>8, <1>9 DEF Arrives

\* What the Result makes of it.
MetersMove(r, q, event) ==
    /\ ReducerOk(q)
    /\ event.type = "stepStart" =>
         /\ q.current.open /\ q.currentUsage = NoUsage
         /\ q.completedUsage = r.completedUsage /\ q.usage = r.usage
    /\ event.type = "usage" =>
         /\ q.current.open = r.current.open /\ q.currentUsage = event.usage
         /\ q.completedUsage = r.completedUsage /\ q.usage = AddUsage(r.completedUsage, event.usage)
    /\ event.type = "stepEnd" =>
         /\ ~ q.current.open /\ q.currentUsage = r.currentUsage
         /\ q.completedUsage = AddUsage(r.completedUsage, r.currentUsage) /\ q.usage = r.usage
    /\ event.type \notin {"stepStart", "usage", "stepEnd"} => SameMeters(q, r)

LEMMA ResultMoves ==
    ASSUME NEW event, Arrives(event), NEW q, q = Consume(reducer, event)
    PROVE  MetersMove(reducer, q, event)
<1> PICK r : r = reducer
  OBVIOUS
<1>1. ReducerOk(r) /\ event.type # "error"
  BY DEF Arrives
<1>2. CASE event.type = "stepStart"
  BY <1>1, <1>2, ConsumeStepStart DEF MetersMove
<1>3. CASE event.type = "usage"
  BY <1>1, <1>3, ConsumeUsageEvent DEF MetersMove, Arrives
<1>4. CASE event.type = "stepEnd"
  <2>1. r.current.open
    BY <1>4 DEF Arrives
  <2>2. q.currentUsage = r.currentUsage
    <3>1. q = FinishStep(r, event)
      BY <1>4, <2>1 DEF Consume
    <3>2. QED BY <1>1, <3>1 DEF FinishStep, ReducerOk
  <2>3. QED BY <1>1, <1>4, <2>1, <2>2, ConsumeStepEnd DEF MetersMove
<1>5. CASE event.type \notin {"stepStart", "usage", "stepEnd"}
  <2>1. Neutral(event)
    BY <1>1, <1>5 DEF Neutral
  <2>2. QED BY <1>1, <1>5, <2>1, ConsumeNeutral DEF MetersMove
<1>6. QED BY <1>2, <1>3, <1>4, <1>5

\* The run's side of the step.
LEMMA FlightGoesOn ==
    ASSUME IndInv, WireInv, NextEvent, NEW event, event = Head(queue), Takes(event),
           sink'.done <=> (sink.done \/ event.type = "done")
    PROVE  FlightInv'
<1>1. Arrives(event) /\ MetersMove(reducer, reducer', event)
  BY NextArrives, ResultMoves DEF Takes
<1>2. sink.open /\ queue # <<>> /\ UNCHANGED <<phase, spent>> /\ queue' = Tail(queue)
  BY DEF NextEvent, Takes, runVars
<1>3. FlightInv /\ Led(queue, event)
  BY <1>2 DEF WireInv, IndInv, QueueInv
<1>4. PICK m, later : m = Len(queue) /\ later = Tail(queue)
  OBVIOUS
<1>5. /\ m \in Nat /\ m > 0 /\ DOMAIN queue = 1 .. m /\ DOMAIN later = 1 .. m - 1 /\ Len(later) = m - 1
      /\ \A i \in 1 .. m - 1 : later[i] = queue[i + 1]
      /\ IsSequence(later) /\ event = queue[1]
  BY <1>2, <1>3, <1>4, TailIsSequence, SequenceShape DEF Led
<1>6. ASSUME NEW i \in DOMAIN later
      PROVE  /\ later[i].type \in EventTypes /\ later[i].type \notin Streamed
             /\ later[i].type = "done" => i = Len(later) /\ phase = "closed"
  <2>1. i + 1 \in DOMAIN queue /\ later[i] = queue[i + 1] /\ i \in 1 .. m - 1 /\ m # 1
    BY <1>5
  <2>2. /\ later[i].type \in EventTypes /\ later[i].type \notin Streamed
        /\ later[i].type = "done" => i + 1 = m /\ phase = "closed"
    BY <1>3, <1>4, <2>1 DEF FlightInv
  <2>3. QED BY <1>5, <2>1, <2>2
<1>7. ASSUME phase = "closed"
      PROVE  IF later = <<>> THEN sink'.done ELSE later[Len(later)].type \in {"done", "error"}
  <2>1. queue[m].type \in {"done", "error"}
    BY <1>2, <1>3, <1>4, <1>7 DEF FlightInv
  <2>2. CASE later = <<>>
    <3>1. m = 1
      BY <1>5, <2>2, SequenceShape
    <3>2. event.type = "done"
      BY <1>1, <1>5, <2>1, <3>1 DEF Arrives
    <3>3. QED BY <2>2, <3>2
  <2>3. CASE later # <<>>
    <3>1. m - 1 \in 1 .. m - 1 /\ (m - 1) + 1 = m
      BY <1>5, <2>3, SequenceShape
    <3>2. later[m - 1] = queue[m]
      BY <1>5, <3>1
    <3>3. QED BY <1>5, <2>1, <2>3, <3>2
  <2>4. QED BY <2>2, <2>3
<1>8. ASSUME sink'.done PROVE phase = "closed" /\ ~ reducer'.current.open /\ later = <<>>
  <2>1. event.type = "done"
    BY <1>1, <1>8 DEF Arrives
  <2>2. phase = "closed" /\ ~ reducer.current.open /\ later = <<>>
    BY <1>1, <1>4, <2>1 DEF Arrives
  <2>3. reducer'.current.open = reducer.current.open
    BY <1>1, <2>1 DEF MetersMove, SameMeters
  <2>4. QED BY <2>2, <2>3
<1>9. later # <<>> => Head(later).type # "usage"
  BY <1>3, <1>4, NeutralTail DEF Led, Neutral
<1>10. reducer'.current.open => reducer'.usage = AddUsage(reducer'.completedUsage, reducer'.currentUsage)
  <2>1. reducer.current.open => reducer.usage = AddUsage(reducer.completedUsage, reducer.currentUsage)
    BY <1>3 DEF FlightInv
  <2>2. CASE event.type = "stepStart"
    <3>1. reducer.completedUsage \in Usage
      BY <1>1 DEF Arrives, ReducerOk
    <3>2. AddUsage(reducer.completedUsage, NoUsage) = reducer.completedUsage
      BY <3>1, NoUsageShape, UsageAdds
    <3>3. QED BY <1>1, <2>2, <3>2 DEF Arrives, MetersMove
  <2>3. CASE event.type = "usage"
    BY <1>1, <2>3 DEF MetersMove
  <2>4. CASE event.type = "stepEnd"
    BY <1>1, <2>4 DEF MetersMove
  <2>5. CASE event.type \notin {"stepStart", "usage", "stepEnd"}
    BY <1>1, <2>1, <2>5 DEF MetersMove, SameMeters
  <2>6. QED BY <2>2, <2>3, <2>4, <2>5
<1>11. QED BY <1>2, <1>4, <1>6, <1>7, <1>8, <1>9, <1>10 DEF FlightInv, Pending

\* The calls that are open are known by their index, also after one more was opened.
LEMMA IdsGoOn ==
    ASSUME IndInv, WireInv, IsAgUi, NextEvent, NEW event, event = Head(queue), Takes(event),
           \A id \in enc'.openTools :
             id \in enc.openTools \/ (event.type = "toolCallStart" /\ id = event.id /\ id # NoId)
    PROVE  IdsInv'
<1>1. /\ sink.open /\ queue # <<>> /\ UNCHANGED <<phase, rest, turn>> /\ queue' = Tail(queue)
  BY DEF NextEvent, Takes, runVars
<1>2. FlightInv /\ IdsInv /\ Led(queue, event)
  BY <1>1 DEF WireInv, AgUiInv, IndInv, QueueInv
<1>3. queue' # <<>> => Head(queue').type # "toolCallStart"
  <2>1. SUFFICES ASSUME queue' # <<>> PROVE Head(queue').type # "toolCallStart"
    OBVIOUS
  <2>2. PICK m, later : m = Len(queue) /\ later = Tail(queue)
    OBVIOUS
  <2>3. /\ m \in Nat /\ m > 0 /\ DOMAIN queue = 1 .. m /\ Len(later) = m - 1 /\ IsSequence(later) /\ later # <<>>
        /\ \A i \in 1 .. m - 1 : later[i] = queue[i + 1]
    BY <1>1, <1>2, <2>1, <2>2, TailIsSequence, SequenceShape DEF Led
  <2>4. Head(later) = later[1] /\ m > 1
    BY <2>3, HeadIsFirst, SequenceShape
  <2>5. Head(later) = queue[2] /\ 2 \in DOMAIN queue /\ m # 1
    BY <2>3, <2>4
  <2>6. Head(later).type \notin Streamed
    BY <1>2, <2>2, <2>5 DEF FlightInv
  <2>7. QED BY <1>1, <2>2, <2>6 DEF Streamed
<1>4. ASSUME NEW id \in enc'.openTools, phase = "model" PROVE HasIndex(id)
  <2>1. CASE id \in enc.openTools
    BY <1>2, <1>4, <2>1 DEF IdsInv
  <2>2. CASE event.type = "toolCallStart" /\ id = event.id /\ id # NoId
    <3>1. Pending("toolCallStart") /\ Head(queue).id = id /\ Head(queue).id # NoId
      BY <1>1, <2>2 DEF Pending
    <3>2. QED BY <1>2, <1>4, <3>1 DEF IdsInv
  <2>3. QED BY <2>1, <2>2
<1>5. \A id \in enc'.openTools : phase = "model" => HasIndex(id)'
  BY <1>1, <1>4 DEF HasIndex
<1>6. QED BY <1>1, <1>2, <1>3, <1>5 DEF IdsInv, Pending

-----------------------------------------------------------------------------
(* The wire while the pipe moves (uistream/pipe.go). *)

\* The sink once the frames of an event are written.
WrittenTo(t, event, frames) ==
    /\ SinkOk(t) /\ t.open = sink.open /\ t.failed = sink.failed /\ t.broken = sink.broken
    /\ t.seen = sink.seen \o frames /\ t.wire = sink.wire \o frames
    /\ (t.done <=> (sink.done \/ event.type = "done")) /\ t.done \in BOOLEAN

LEMMA WrittenSink ==
    ASSUME NEW event, SinkOk(sink), NEW frames, NEW t, t = Written(Noted(event), frames)
    PROVE  WrittenTo(t, event, frames)
<1>1. PICK s : s = Noted(event)
  OBVIOUS
<1>2. SinkOk(s) /\ s = [sink EXCEPT !.done = sink.done \/ event.type = "done"]
  BY <1>1, NotedKeeps DEF Noted, SinkOk
<1>3. t = [s EXCEPT !.wire = s.wire \o frames, !.seen = s.seen \o frames]
  BY <1>1 DEF Written
<1>4. SinkOk(t)
  BY <1>1, <1>2, WrittenKeeps
<1>5. t.done = (sink.done \/ event.type = "done")
  BY <1>2, <1>3 DEF SinkOk
<1>6. (t.done <=> (sink.done \/ event.type = "done")) /\ t.done \in BOOLEAN
  BY <1>5, Zenon
<1>7. /\ t.open = sink.open /\ t.failed = sink.failed /\ t.broken = sink.broken
      /\ t.seen = sink.seen \o frames /\ t.wire = sink.wire \o frames
  BY <1>2, <1>3 DEF SinkOk
<1>8. QED BY <1>4, <1>6, <1>7 DEF WrittenTo

\* What an open stream that is not broken is.
LEMMA PipeIsOpen ==
    ASSUME IndInv, WireInv, IsPipe, sink.open
    PROVE  /\ SinkOk(sink) /\ ReducerOk(reducer) /\ ~ sink.broken /\ ~ sink.failed /\ sink.done \in BOOLEAN
           /\ sink.wire = sink.seen /\ IsSequence(sink.seen) /\ FlightInv
           /\ IF IsAgUi THEN AgUiInv ELSE SdkInv
BY DEF IndInv, Types, WireInv, SeenInv

\* The events fit the AG-UI encoder.
LEMMA UiMovesNext ==
    ASSUME IndInv, WireInv, IsAgUi, NextEvent, NEW event, event = Head(queue), NEW r, r = Encode(enc, event)
    PROVE  UiMoves(enc, event, r)
<1>1. Arrives(event)
  BY NextArrives
<1>2. AgUiInv /\ FlightInv /\ Led(queue, event) /\ queue # <<>>
  BY DEF NextEvent, WireInv, IndInv, QueueInv
<1>3. event.type = "stepStart" => AgUiBlocks(enc) = {}
  BY <1>1, <1>2 DEF Arrives, AgUiInv
<1>4. ASSUME event.type = "toolCallStart" PROVE event.id \notin enc.openTools
  <2>1. event = queue[1] /\ 1 \in DOMAIN queue
    BY <1>2, HeadIsFirst DEF Led
  <2>2. phase = "model" /\ Pending("toolCallStart")
    BY <1>2, <1>4, <2>1 DEF FlightInv, Streamed, Pending
  <2>3. QED BY <1>2, <2>2 DEF AgUiInv, IdsInv
<1>5. /\ AgUiOk(enc) /\ event.type \in EventTypes \ {"error"}
      /\ event.type = "usage" => event.usage \in Usage
  BY <1>1, <1>2 DEF AgUiInv, Arrives
<1>6. r = Ui!AgUiEncode(enc, event)
  BY DEF Encode
<1>7. QED BY <1>3, <1>4, <1>5, <1>6, UiEncodes

\* The AG-UI encoder and the Result move together.
LEMMA UiMetersAgree ==
    ASSUME NEW r, NEW q, NEW event, Arrives(event), AgUiInv, UiMoves(enc, event, r), MetersMove(reducer, q, event)
    PROVE  /\ AgUiBlocks(r.enc) # {} => q.current.open
           /\ r.enc.totalUsage = q.completedUsage
           /\ r.enc.stepUsage = IF q.current.open THEN q.currentUsage ELSE NoUsage
<1> PICK e, d : e = enc /\ d = r.enc
  OBVIOUS
<1>1. /\ AgUiBlocks(e) # {} => reducer.current.open
      /\ e.totalUsage = reducer.completedUsage
      /\ e.stepUsage = IF reducer.current.open THEN reducer.currentUsage ELSE NoUsage
  BY DEF AgUiInv
<1>2. CASE event.type = "stepStart"
  BY <1>1, <1>2 DEF Arrives, UiMoves, MetersMove
<1>3. CASE event.type = "usage"
  <2>1. reducer.current.open /\ MergeUsage(reducer.currentUsage, event.usage) = event.usage
    BY <1>3 DEF Arrives
  <2>2. d.totalUsage = reducer.completedUsage /\ d.stepUsage = event.usage
    BY <1>1, <1>3, <2>1 DEF UiMoves
  <2>3. QED BY <1>3, <2>1, <2>2 DEF MetersMove
<1>4. CASE event.type = "stepEnd"
  <2>1. reducer.current.open
    BY <1>4 DEF Arrives
  <2>2. /\ d.totalUsage = AddUsage(reducer.completedUsage, reducer.currentUsage) /\ d.stepUsage = NoUsage
        /\ AgUiBlocks(d) = {}
    BY <1>1, <1>4, <2>1 DEF UiMoves
  <2>3. QED BY <1>4, <2>2 DEF MetersMove
<1>5. CASE event.type \notin {"stepStart", "usage", "stepEnd"}
  <2>1. q.current.open = reducer.current.open /\ q.currentUsage = reducer.currentUsage
        /\ q.completedUsage = reducer.completedUsage
    BY <1>5 DEF MetersMove, SameMeters
  <2>2. d.totalUsage = e.totalUsage /\ d.stepUsage = e.stepUsage
    BY <1>5 DEF UiMoves
  <2>3. AgUiBlocks(d) # {} => reducer.current.open
    <3>1. CASE event.type \in Streamed
      BY <3>1 DEF Arrives
    <3>2. CASE event.type \notin Streamed
      BY <1>1, <3>2 DEF UiMoves
    <3>3. QED BY <3>1, <3>2
  <2>4. QED BY <1>1, <2>1, <2>2, <2>3
<1>6. QED BY <1>2, <1>3, <1>4, <1>5

\* An event is written in AG-UI.
LEMMA UiGoesOn ==
    ASSUME IndInv, WireInv, IsAgUi, IsPipe, NextEvent, NEW event, event = Head(queue), Takes(event),
           NEW r, r = Encode(enc, event), enc' = r.enc, sink' = Written(Noted(event), r.frames)
    PROVE  WireInv'
<1>1. Arrives(event) /\ MetersMove(reducer, reducer', event) /\ UiMoves(enc, event, r)
  BY NextArrives, ResultMoves, UiMovesNext DEF Takes
<1>2. SinkOk(sink) /\ sink.open
  BY <1>1 DEF Arrives
<1>3. PICK frames, seen, w : frames = r.frames /\ w = sink.seen /\ seen = w \o frames
  OBVIOUS
<1>4. /\ ~ sink.broken /\ ~ sink.failed /\ sink.wire = w /\ IsSequence(w) /\ AgUiInv
  BY <1>2, <1>3, PipeIsOpen
<1>5. WrittenTo(sink', event, frames)
  BY <1>2, <1>3, WrittenSink
<1>6. /\ sink'.open /\ ~ sink'.failed /\ ~ sink'.broken /\ sink'.seen = seen /\ sink'.wire = seen
      /\ sink'.done \in BOOLEAN
  BY <1>2, <1>3, <1>4, <1>5 DEF WrittenTo
<1>7. FlightInv'
  BY <1>5, FlightGoesOn DEF WrittenTo
<1>8. IdsInv'
  BY <1>1, IdsGoOn DEF UiMoves
<1>9. /\ AgUiOk(r.enc) /\ Walk(AgUiBlocks(enc), frames, AgUiBlocks(r.enc)) /\ Typed(frames, AgUiTypes)
  BY <1>1, <1>3 DEF UiMoves
<1>10. /\ FramesPair(w) /\ StillOpen(w, Len(w)) = AgUiBlocks(enc) /\ Terminals(w) = {}
  BY <1>3, <1>4 DEF AgUiInv
<1>11. IsSequence(seen) /\ Terminals(seen) = {}
  BY <1>3, <1>4, <1>9, <1>10, QuietFrames, QuietTypes
<1>12. FramesPair(seen) /\ StillOpen(seen, Len(seen)) = AgUiBlocks(r.enc)
  <2>1. \A i \in DOMAIN frames : frames[i].type \notin Sdk!BlockTypes
    BY <1>9, UiFrames DEF Typed
  <2>2. PICK after : after = AgUiBlocks(r.enc)
    OBVIOUS
  <2>3. Walk(StillOpen(w, Len(w)), frames, after)
    BY <1>9, <1>10, <2>2
  <2>4. FramesPair(w \o frames) /\ StillOpen(w \o frames, Len(w \o frames)) = after
    BY <1>4, <1>10, <2>1, <2>3, PairedGrows
  <2>5. QED BY <1>3, <2>2, <2>4
<1>13. /\ AgUiBlocks(r.enc) # {} => reducer'.current.open
       /\ r.enc.totalUsage = reducer'.completedUsage
       /\ r.enc.stepUsage = IF reducer'.current.open THEN reducer'.currentUsage ELSE NoUsage
  <2>1. PICK q : q = reducer'
    OBVIOUS
  <2>2. QED BY <1>1, <1>4, <2>1, UiMetersAgree
<1>14. IsAgUi' /\ (IsPipe' <=> IsPipe)
  BY DEF IsAgUi, IsPipe, Takes
<1>15. SeenInv'
  BY <1>6, <1>11, PrefixOfItself DEF SeenInv
<1>16. AgUiInv'
  BY <1>6, <1>8, <1>9, <1>11, <1>12, <1>13 DEF AgUiInv
<1>17. QED BY <1>6, <1>7, <1>14, <1>15, <1>16 DEF WireInv

-----------------------------------------------------------------------------
(* The AI SDK's chunks, written by the pipe or by the adapter. *)

\* What an event makes of the encoder, and of what it sends.
SdkMoves(event, r, q) ==
    /\ r.ok /\ SdkOk(r.enc)
    /\ (r.enc.finished <=> (sink.done \/ event.type = "done")) /\ r.enc.finished \in BOOLEAN
    /\ r.enc.text \/ r.enc.reasoning => q.current.open
    /\ r.enc.total = q.usage /\ r.enc.current = q.currentUsage
    /\ event.type # "done" => Typed(r.frames, SdkTypes)
    /\ event.type = "done" => Ending(r.frames, [spent EXCEPT !.toolUse = 0])

LEMMA SdkMovesNext ==
    ASSUME NEW event, Arrives(event), SdkInv, FlightInv, sink.done \in BOOLEAN,
           NEW q, MetersMove(reducer, q, event), NEW r, r = Sdk!AiSdkEncode(enc, event)
    PROVE  SdkMoves(event, r, q)
<1> PICK e, d : e = enc /\ d = r.enc
  OBVIOUS
<1>1. /\ SdkOk(e) /\ (e.text \/ e.reasoning => reducer.current.open) /\ e.finished = sink.done
      /\ e.total = reducer.usage /\ e.current = reducer.currentUsage
  BY DEF SdkInv
<1>2. event.type \in {"stepStart", "done"} => ~ e.text /\ ~ e.reasoning
  BY <1>1 DEF Arrives
<1>3. /\ r.ok /\ SdkOk(d) /\ d.finished = (e.finished \/ event.type = "done")
      /\ event.type # "done" => Typed(r.frames, SdkTypes)
      /\ event.type = "done" => Ending(r.frames, [e.total EXCEPT !.toolUse = 0])
      /\ event.type \notin {"text", "reasoning"} => Quieter(e, d)
      /\ event.type = "stepEnd" => ~ d.text /\ ~ d.reasoning
      /\ event.type = "usage" =>
           /\ d.total = [f \in Counters |-> e.total[f] + event.usage[f] - e.current[f]]
           /\ d.current = event.usage
      /\ event.type = "stepStart" => d.total = e.total /\ d.current = NoUsage
      /\ event.type \notin {"usage", "stepStart"} => SameTotals(e, d)
  BY <1>1, <1>2, SdkEncodes DEF Arrives
<1>4. (d.finished <=> (sink.done \/ event.type = "done")) /\ d.finished \in BOOLEAN
  BY <1>1, <1>3, Zenon
<1>5. event.type = "done" => Ending(r.frames, [spent EXCEPT !.toolUse = 0])
  BY <1>1, <1>3 DEF Arrives
<1>6. /\ d.text \/ d.reasoning => q.current.open
      /\ d.total = q.usage /\ d.current = q.currentUsage
  <2>1. CASE event.type = "stepStart"
    BY <1>1, <1>3, <2>1 DEF MetersMove
  <2>2. CASE event.type = "stepEnd"
    BY <1>1, <1>3, <2>2 DEF MetersMove, SameTotals
  <2>3. CASE event.type = "usage"
    <3>1. /\ reducer.current.open /\ reducer.usage = AddUsage(reducer.completedUsage, reducer.currentUsage)
          /\ reducer.completedUsage \in Usage /\ reducer.currentUsage \in Usage /\ event.usage \in Usage
      BY <2>3 DEF Arrives, FlightInv, ReducerOk
    <3>2. d.total = AddUsage(reducer.completedUsage, event.usage)
      BY <1>1, <1>3, <2>3, <3>1, ReplacesSnapshot
    <3>3. QED BY <1>3, <2>3, <3>1, <3>2 DEF MetersMove
  <2>4. CASE event.type \notin {"stepStart", "usage", "stepEnd"}
    <3>1. SameMeters(q, reducer) /\ SameTotals(e, d)
      BY <1>3, <2>4 DEF MetersMove
    <3>2. event.type \in {"text", "reasoning"} => reducer.current.open
      BY DEF Arrives, Streamed
    <3>3. d.text \/ d.reasoning => reducer.current.open
      BY <1>1, <1>3, <3>2 DEF Quieter
    <3>4. QED BY <1>1, <3>1, <3>3 DEF SameMeters, SameTotals
  <2>5. QED BY <2>1, <2>2, <2>3, <2>4
<1>7. QED BY <1>3, <1>4, <1>5, <1>6 DEF SdkMoves

\* Chunks that end the run if the event does.
Says(chunks, event) ==
    IF event.type = "done" THEN IsSequence(chunks) /\ FinishIsLast(chunks, ChunkUsage(spent))
                           ELSE Typed(chunks, SdkTypes)

LEMMA PipeSays ==
    ASSUME IsPipe, NEW event, NEW r, NEW q, SdkMoves(event, r, q)
    PROVE  Says(r.frames, event)
<1>1. ChunkUsage(spent) = [spent EXCEPT !.toolUse = 0]
  BY DEF ChunkUsage
<1>2. CASE event.type = "done"
  <2>1. Ending(r.frames, ChunkUsage(spent))
    BY <1>1, <1>2 DEF SdkMoves
  <2>2. IsSequence(r.frames) /\ FinishIsLast(r.frames, ChunkUsage(spent))
    BY <2>1, SdkTerminals
  <2>3. QED BY <1>2, <2>2 DEF Says
<1>3. CASE event.type # "done"
  BY <1>3 DEF SdkMoves, Says
<1>4. QED BY <1>2, <1>3

\* The adapter changes the usage of the finish chunk and nothing else.
LEMMA ChunkIsSame ==
    ASSUME NEW f, f.type # "finish" \/ \E usage : IsFinish(f, usage)
    PROVE  /\ AdapterChunk(f).type = f.type
           /\ f.type = "finish" =>
                AdapterChunk(f).usage = IF enc.total.total = 0 THEN NoUsage ELSE [enc.total EXCEPT !.toolUse = 0]
BY DEF AdapterChunk, IsFinish

LEMMA MappedIsSequence ==
    ASSUME NEW s, IsSequence(s), NEW chunks, chunks = [i \in DOMAIN s |-> AdapterChunk(s[i])]
    PROVE  /\ IsSequence(chunks) /\ DOMAIN chunks = DOMAIN s /\ Len(chunks) = Len(s) /\ Len(s) \in Nat
           /\ \A i \in DOMAIN s : chunks[i] = AdapterChunk(s[i])
<1>1. Len(s) \in Nat /\ DOMAIN s = 1 .. Len(s)
  BY SequenceShape
<1>2. DOMAIN chunks = 1 .. Len(s) /\ \A i \in 1 .. Len(s) : chunks[i] = AdapterChunk(s[i])
  BY <1>1
<1>3. IsSequence(chunks)
  <2>1. PICK n, S : n = Len(s) /\ S = {AdapterChunk(s[i]) : i \in DOMAIN s}
    OBVIOUS
  <2>2. chunks = [i \in 1 .. n |-> AdapterChunk(s[i])] /\ \A i \in 1 .. n : AdapterChunk(s[i]) \in S
    BY <1>1, <2>1
  <2>3. chunks \in Seq(S)
    BY <1>1, <2>1, <2>2
  <2>4. QED BY <2>3, SequenceOverItself
<1>4. Len(chunks) = Len(s)
  <2>1. PICK n, k : n = Len(s) /\ k = Len(chunks)
    OBVIOUS
  <2>2. n \in Nat /\ k \in Nat /\ 1 .. n = 1 .. k
    BY <1>1, <1>2, <1>3, <2>1, SequenceShape
  <2>3. n = k
    <3>1. n \in 1 .. n \/ n = 0
      BY <2>2
    <3>2. k \in 1 .. k \/ k = 0
      BY <2>2
    <3>3. n <= k
      BY <2>2, <3>1
    <3>4. k <= n
      BY <2>2, <3>2
    <3>5. QED BY <2>2, <3>3, <3>4
  <2>4. QED BY <2>1, <2>3
<1>5. QED BY <1>1, <1>2, <1>3, <1>4

AdapterUsage == IF enc.total.total = 0 THEN NoUsage ELSE [enc.total EXCEPT !.toolUse = 0]

LEMMA AdapterFinishes ==
    ASSUME NEW frames, NEW usage, Ending(frames, usage),
           NEW chunks, chunks = [i \in DOMAIN frames |-> AdapterChunk(frames[i])]
    PROVE  IsSequence(chunks) /\ FinishIsLast(chunks, AdapterUsage) /\ Len(chunks) = Len(frames)
<1>1. IsSequence(frames) /\ FinishIsLast(frames, usage) /\ LastIsFinish(frames)
  BY SdkTerminals
<1>2. PICK n : n = Len(frames)
  OBVIOUS
<1>3. /\ n \in Nat /\ n >= 2 /\ DOMAIN frames = 1 .. n /\ Terminals(frames) = {n - 1}
      /\ frames[n].type = "[DONE]" /\ \E u : IsFinish(frames[n - 1], u)
  BY <1>1, <1>2, SequenceShape DEF FinishIsLast, LastIsFinish
<1>4. /\ IsSequence(chunks) /\ DOMAIN chunks = 1 .. n /\ Len(chunks) = n
      /\ \A i \in 1 .. n : chunks[i] = AdapterChunk(frames[i])
  BY <1>1, <1>2, <1>3, MappedIsSequence
<1>5. ASSUME NEW i \in 1 .. n PROVE frames[i].type # "finish" \/ \E u : IsFinish(frames[i], u)
  <2>1. CASE i = n - 1
    BY <1>3, <2>1
  <2>2. CASE i # n - 1
    <3>1. i \notin Terminals(frames)
      BY <1>3, <2>2
    <3>2. QED BY <1>3, <3>1 DEF Terminals
  <2>3. QED BY <2>1, <2>2
<1>6. ASSUME NEW i \in 1 .. n PROVE chunks[i].type = frames[i].type
  BY <1>4, <1>5, ChunkIsSame
<1>7. Terminals(chunks) = {n - 1}
  <2>1. Terminals(chunks) = Terminals(frames)
    BY <1>3, <1>4, <1>6 DEF Terminals
  <2>2. QED BY <1>3, <2>1
<1>8. n \in 1 .. n /\ n - 1 \in 1 .. n
  BY <1>3
<1>9. chunks[n].type = "[DONE]"
  BY <1>3, <1>6, <1>8
<1>10. chunks[n - 1].usage = AdapterUsage
  <2>1. PICK f : f = frames[n - 1]
    OBVIOUS
  <2>2. \E u : IsFinish(f, u)
    BY <1>3, <2>1
  <2>3. f.type = "finish" /\ AdapterChunk(f).usage = AdapterUsage
    BY <2>2, ChunkIsSame DEF IsFinish, AdapterUsage
  <2>4. QED BY <1>4, <1>8, <2>1, <2>3
<1>11. QED BY <1>2, <1>3, <1>4, <1>7, <1>9, <1>10 DEF FinishIsLast

LEMMA AdapterSays ==
    ASSUME ~ IsPipe, NEW event, Arrives(event), SdkInv, NEW r, NEW q, SdkMoves(event, r, q),
           NEW chunks, chunks = [i \in DOMAIN r.frames |-> AdapterChunk(r.frames[i])]
    PROVE  Says(chunks, event) /\ Len(chunks) = Len(r.frames)
<1>1. PICK frames : frames = r.frames
  OBVIOUS
<1>2. CASE event.type = "done"
  <2>1. enc.total = spent
    BY <1>2 DEF Arrives, SdkInv
  <2>2. AdapterUsage = ChunkUsage(spent)
    BY <2>1 DEF AdapterUsage, ChunkUsage
  <2>3. Ending(frames, [spent EXCEPT !.toolUse = 0])
    BY <1>1, <1>2 DEF SdkMoves
  <2>4. IsSequence(chunks) /\ FinishIsLast(chunks, AdapterUsage) /\ Len(chunks) = Len(frames)
    BY <1>1, <2>3, AdapterFinishes
  <2>5. QED BY <1>1, <1>2, <2>2, <2>4 DEF Says
<1>3. CASE event.type # "done"
  <2>1. Typed(frames, SdkTypes)
    BY <1>1, <1>3 DEF SdkMoves
  <2>2. /\ IsSequence(chunks) /\ DOMAIN chunks = DOMAIN frames /\ Len(chunks) = Len(frames)
        /\ \A i \in DOMAIN frames : chunks[i] = AdapterChunk(frames[i])
    BY <1>1, <2>1, MappedIsSequence DEF Typed
  <2>3. ASSUME NEW i \in DOMAIN frames PROVE chunks[i].type = frames[i].type
    <3>1. frames[i].type \in SdkTypes /\ "finish" \in TerminalTypes
      BY <2>1 DEF Typed, TerminalTypes
    <3>2. frames[i].type # "finish"
      BY <3>1, QuietTypes
    <3>3. QED BY <2>2, <3>2, ChunkIsSame
  <2>4. Typed(chunks, SdkTypes)
    BY <2>1, <2>2, <2>3 DEF Typed
  <2>5. QED BY <1>1, <1>3, <2>2, <2>4 DEF Says
<1>4. QED BY <1>2, <1>3

\* After them the run is ended, once, if the event ended it.
LEMMA ChunksFollow ==
    ASSUME NEW w, IsSequence(w), Terminals(w) = {}, NEW event, NEW chunks, Says(chunks, event),
           NEW seen, seen = w \o chunks
    PROVE  /\ IsSequence(seen) /\ IsSequence(chunks)
           /\ IF event.type = "done" THEN FinishIsLast(seen, ChunkUsage(spent)) ELSE Terminals(seen) = {}
<1>1. CASE event.type = "done"
  <2>1. PICK usage : usage = ChunkUsage(spent)
    OBVIOUS
  <2>2. IsSequence(chunks) /\ FinishIsLast(chunks, usage)
    BY <1>1, <2>1 DEF Says
  <2>3. EndedLast(seen, w, usage)
    BY <2>2, FinishComesLast
  <2>4. FinishIsLast(seen, usage) /\ IsSequence(seen)
    BY <2>3 DEF EndedLast, FinishIsLast
  <2>5. QED BY <1>1, <2>1, <2>2, <2>4
<1>2. CASE event.type # "done"
  <2>1. Typed(chunks, SdkTypes)
    BY <1>2 DEF Says
  <2>2. IsSequence(seen) /\ Terminals(seen) = {}
    BY <2>1, QuietFrames, QuietTypes
  <2>3. QED BY <1>2, <2>1, <2>2 DEF Typed
<1>3. QED BY <1>1, <1>2

-----------------------------------------------------------------------------
(* The pipe's steps. *)

\* Chunks of an event are added to what the client is sent.
SdkSink(event, chunks) ==
    /\ sink'.open /\ ~ sink'.failed /\ (sink'.done <=> (sink.done \/ event.type = "done"))
    /\ sink'.done \in BOOLEAN /\ sink'.seen = sink.seen \o chunks
    /\ IsSequence(sink'.wire) /\ IsPrefix(sink'.wire, sink'.seen)
    /\ (~ sink'.broken => sink'.wire = sink'.seen) /\ (IsPipe => ~ sink'.broken)

LEMMA SdkGoesOn ==
    ASSUME IndInv, WireInv, ~ IsAgUi, NextEvent, NEW event, event = Head(queue), Takes(event),
           NEW r, SdkMoves(event, r, reducer'), enc' = r.enc,
           NEW chunks, Says(chunks, event), SdkSink(event, chunks)
    PROVE  WireInv'
<1>1. Arrives(event)
  BY NextArrives
<1>2. SdkInv /\ sink.open /\ ~ sink.done /\ IsSequence(sink.seen)
  BY <1>1 DEF WireInv, SeenInv, Arrives
<1>3. PICK w, seen : w = sink.seen /\ seen = w \o chunks
  OBVIOUS
<1>4. Terminals(w) = {} /\ IsSequence(w)
  BY <1>2, <1>3 DEF SdkInv
<1>5. /\ IsSequence(seen)
      /\ IF event.type = "done" THEN FinishIsLast(seen, ChunkUsage(spent)) ELSE Terminals(seen) = {}
  BY <1>3, <1>4, ChunksFollow
<1>6. /\ ~ IsAgUi' /\ (IsPipe' <=> IsPipe) /\ spent' = spent
  BY DEF IsAgUi, IsPipe, Takes, runVars
<1>7. ChunkUsage(spent)' = ChunkUsage(spent)
  BY <1>6 DEF ChunkUsage
<1>8. FlightInv'
  BY FlightGoesOn DEF SdkSink
<1>9. sink'.seen = seen /\ sink'.open /\ (sink'.done <=> event.type = "done")
  BY <1>2, <1>3 DEF SdkSink
<1>10. SeenInv'
  BY <1>5, <1>6, <1>9 DEF SeenInv, SdkSink
<1>11. SdkInv'
  <2>1. enc'.finished = sink'.done
    <3>1. (enc'.finished <=> sink'.done) /\ enc'.finished \in BOOLEAN /\ sink'.done \in BOOLEAN
      BY DEF SdkMoves, SdkSink
    <3>2. QED BY <3>1, Zenon
  <2>2. /\ SdkOk(enc') /\ (enc'.text \/ enc'.reasoning => reducer'.current.open)
        /\ enc'.total = reducer'.usage /\ enc'.current = reducer'.currentUsage
    BY DEF SdkMoves
  <2>3. IF sink'.done THEN FinishIsLast(sink'.seen, ChunkUsage(spent)) ELSE Terminals(sink'.seen) = {}
    BY <1>5, <1>9
  <2>4. QED BY <1>7, <2>1, <2>2, <2>3 DEF SdkInv
<1>12. QED BY <1>6, <1>8, <1>9, <1>10, <1>11 DEF WireInv

\* The events fit the AI SDK encoder.
LEMMA SdkFits ==
    ASSUME IndInv, WireInv, ~ IsAgUi, NextEvent, NEW event, event = Head(queue), Takes(event),
           NEW r, r = Encode(enc, event)
    PROVE  SdkMoves(event, r, reducer')
<1>1. Arrives(event) /\ MetersMove(reducer, reducer', event)
  BY NextArrives, ResultMoves DEF Takes
<1>2. SdkInv /\ FlightInv /\ sink.done \in BOOLEAN
  BY <1>1 DEF WireInv, SeenInv, Arrives
<1>3. r = Sdk!AiSdkEncode(enc, event)
  BY DEF Encode
<1>4. PICK q : q = reducer'
  OBVIOUS
<1>5. QED BY <1>1, <1>2, <1>3, <1>4, SdkMovesNext

\* The stream ends between two events.
LEMMA PipeCloses ==
    ASSUME IndInv, WireInv, IsPipe, sink.open, UNCHANGED <<config, spent>>, NEW failed \in BOOLEAN,
           Closed(sink, enc, failed), ~ failed => RunIsOver
    PROVE  WireInv'
<1> PICK s, e : s = sink /\ e = enc
  OBVIOUS
<1>1. /\ SinkOk(s) /\ ~ s.broken /\ s.done \in BOOLEAN /\ s.open /\ Closed(s, e, failed)
      /\ s.wire = s.seen /\ IsSequence(s.seen) /\ FlightInv
      /\ IF IsAgUi THEN AgUiInv ELSE SdkInv
  BY PipeIsOpen
<1>2. ASSUME ~ failed
      PROVE  /\ s.done /\ ~ reducer.current.open
             /\ reducer.completedUsage = spent /\ spent \in Usage
  <2>1. phase = "closed" /\ queue = <<>>
    BY <1>2 DEF RunIsOver
  <2>2. Counted /\ spent \in Usage
    BY <2>1 DEF IndInv, CountedInv, UpToDate, Types
  <2>3. Outside
    BY <2>1, <2>2 DEF Counted
  <2>4. QED BY <1>1, <2>1, <2>2, <2>3 DEF FlightInv, Outside
<1>3. CASE IsAgUi
  <2>1. /\ FramesPair(s.seen) /\ StillOpen(s.seen, Len(s.seen)) = AgUiBlocks(e) /\ Terminals(s.seen) = {}
        /\ AgUiOk(e) /\ e.totalUsage = reducer.completedUsage
        /\ e.stepUsage = IF reducer.current.open THEN reducer.currentUsage ELSE NoUsage
    BY <1>1, <1>3 DEF AgUiInv
  <2>2. ~ failed => AddUsage(e.totalUsage, e.stepUsage) = spent
    BY <1>2, <2>1, UsageAdds, NoUsageShape
  <2>3. QED BY <1>1, <1>3, <2>1, <2>2, UiCloses
<1>4. CASE ~ IsAgUi
  <2>1. /\ SdkOk(e) /\ (e.text \/ e.reasoning => reducer.current.open) /\ e.finished = s.done
        /\ IF s.done THEN FinishIsLast(s.seen, ChunkUsage(spent)) ELSE Terminals(s.seen) = {}
    BY <1>1, <1>4 DEF SdkInv
  <2>2. ~ failed => s.done /\ ~ e.text /\ ~ e.reasoning
    BY <1>2, <2>1
  <2>3. QED BY <1>1, <1>4, <2>1, <2>2, SdkCloses
<1>5. QED BY <1>3, <1>4

LEMMA PipeEventSeen ==
    ASSUME IndInv, WireInv, PipeEvent
    PROVE  WireInv'
<1>1. PICK event, r : event = Head(queue) /\ r = Encode(enc, event)
  OBVIOUS
<1>2. IsPipe /\ NextEvent /\ Takes(event) /\ sink.open
  BY <1>1 DEF PipeEvent, NextEvent
<1>3. UNCHANGED <<config, spent>>
  BY <1>2 DEF Takes, runVars
<1>4. CASE r.ok
  <2>1. enc' = r.enc /\ sink' = Written(Noted(event), r.frames)
    BY <1>1, <1>4 DEF PipeEvent
  <2>2. CASE IsAgUi
    BY <1>1, <1>2, <2>1, <2>2, UiGoesOn
  <2>3. CASE ~ IsAgUi
    <3>1. SdkMoves(event, r, reducer')
      BY <1>1, <1>2, <2>3, SdkFits
    <3>2. PICK q, chunks : q = reducer' /\ chunks = r.frames
      OBVIOUS
    <3>3. Says(chunks, event)
      BY <1>2, <3>1, <3>2, PipeSays
    <3>4. /\ SinkOk(sink) /\ ~ sink.broken /\ ~ sink.failed /\ sink.wire = sink.seen /\ IsSequence(sink.seen)
      BY <1>2, PipeIsOpen
    <3>5. WrittenTo(sink', event, chunks)
      BY <2>1, <3>2, <3>4, WrittenSink
    <3>6. IsSequence(chunks)
      BY <3>3 DEF Says, Typed
    <3>7. IsSequence(sink.seen \o chunks)
      BY <3>4, <3>6, ConcatIsSequence
    <3>8. SdkSink(event, chunks)
      BY <1>2, <3>4, <3>5, <3>7, PrefixOfItself DEF SdkSink, WrittenTo
    <3>9. QED BY <1>1, <1>2, <2>1, <2>3, <3>1, <3>3, <3>8, SdkGoesOn
  <2>4. QED BY <2>2, <2>3
<1>5. CASE ~ r.ok
  <2>1. Closed(sink, r.enc, TRUE)
    BY <1>1, <1>5 DEF PipeEvent
  <2>2. IsAgUi
    <3>1. ~ IsAgUi => SdkMoves(event, r, reducer')
      BY <1>1, <1>2, SdkFits
    <3>2. QED BY <1>5, <3>1 DEF SdkMoves
  <2>3. UiMoves(enc, event, r)
    BY <1>1, <1>2, <2>2, UiMovesNext
  <2>4. r.enc = enc
    BY <1>5, <2>3 DEF UiMoves
  <2>5. QED BY <1>2, <1>3, <2>1, <2>4, PipeCloses
<1>6. QED BY <1>4, <1>5

\* A write that fails in the middle of the frames of an event.
LEMMA PipeWriteFailsSeen ==
    ASSUME IndInv, WireInv, PipeWriteFails
    PROVE  WireInv'
<1>1. PICK event, r : event = Head(queue) /\ r = Encode(enc, event)
  OBVIOUS
<1>2. IsPipe /\ NextEvent /\ Takes(event) /\ sink.open
  BY <1>1 DEF PipeWriteFails, NextEvent
<1>3. PICK n \in 0 .. Len(r.frames) - 1 :
        Closed([Written(Noted(event), SubSeq(r.frames, 1, n)) EXCEPT !.broken = TRUE], r.enc, TRUE)
  BY <1>1 DEF PipeWriteFails
<1>4. PICK frames, part, w, t, s, e :
        /\ frames = r.frames /\ part = SubSeq(frames, 1, n) /\ w = sink.seen /\ t = Written(Noted(event), part)
        /\ s = [t EXCEPT !.broken = TRUE] /\ e = r.enc
  OBVIOUS
<1>5. Closed(s, e, TRUE)
  BY <1>3, <1>4
<1>6. SinkOk(sink) /\ sink.wire = w /\ IsSequence(w) /\ (IF IsAgUi THEN AgUiInv ELSE SdkInv)
  BY <1>2, <1>4, PipeIsOpen
<1>7. WrittenTo(t, event, part)
  BY <1>4, <1>6, WrittenSink
<1>8. /\ SinkOk(s) /\ s.open /\ s.broken /\ s.wire = w \o part /\ s.seen = w \o part
  BY <1>2, <1>4, <1>6, <1>7 DEF WrittenTo, SinkOk
<1>9. ASSUME IsSequence(frames) PROVE IsSequence(w \o part) /\ IsPrefix(w \o part, w \o frames)
  <2>1. Len(frames) \in Nat
    BY <1>9, SequenceShape
  <2>2. n \in Nat /\ n <= Len(frames)
    BY <1>3, <1>4, <2>1
  <2>3. QED BY <1>4, <1>6, <1>9, <2>2, PartIsPrefix
<1>10. /\ IsSequence(frames) /\ IsSequence(Finish(e, TRUE).frames)
       /\ IF IsAgUi THEN FramesPair(w \o part) ELSE Finish(e, TRUE).enc.violations \cap BlockCodes = {}
  <2>1. CASE IsAgUi
    <3>1. UiMoves(enc, event, r)
      BY <1>1, <1>2, <2>1, UiMovesNext
    <3>2. AgUiOk(e) /\ Walk(AgUiBlocks(enc), frames, AgUiBlocks(e)) /\ Typed(frames, AgUiTypes)
      BY <1>4, <3>1 DEF UiMoves
    <3>3. FramesPair(w) /\ StillOpen(w, Len(w)) = AgUiBlocks(enc)
      BY <1>4, <1>6, <2>1 DEF AgUiInv
    <3>4. \A i \in DOMAIN frames : frames[i].type \notin Sdk!BlockTypes
      BY <3>2, UiFrames DEF Typed
    <3>5. FramesPair(w \o frames)
      BY <1>6, <3>2, <3>3, <3>4, PairedGrows
    <3>6. IsSequence(frames) /\ IsSequence(w \o frames)
      BY <1>6, <3>2, ConcatIsSequence DEF Typed
    <3>7. FramesPair(w \o part)
      BY <1>9, <3>5, <3>6, PairPrefix
    <3>8. PICK finish : finish = Ui!AgUiFinish(e, TRUE)
      OBVIOUS
    <3>9. UiEnding(finish.frames, AgUiBlocks(e))
      BY <3>2, <3>8, UiFinishes
    <3>10. IsSequence(finish.frames)
      BY <3>9, UiTerminals
    <3>11. finish = Finish(e, TRUE)
      BY <2>1, <3>8 DEF Finish
    <3>12. QED BY <2>1, <3>6, <3>7, <3>10, <3>11
  <2>2. CASE ~ IsAgUi
    <3>1. SdkMoves(event, r, reducer')
      BY <1>1, <1>2, <2>2, SdkFits
    <3>2. PICK q : q = reducer'
      OBVIOUS
    <3>3. Says(frames, event)
      BY <1>2, <1>4, <3>1, <3>2, PipeSays
    <3>4. IsSequence(frames)
      BY <3>3 DEF Says, Typed
    <3>5. SdkOk(e) /\ e.finished \in BOOLEAN
      BY <1>4, <3>1 DEF SdkMoves
    <3>6. PICK finish : finish = Sdk!AiSdkFinish(e, TRUE)
      OBVIOUS
    <3>7. SdkOk(finish.enc) /\ \E usage : Ending(finish.frames, usage)
      BY <3>5, <3>6, SdkFinishes
    <3>8. IsSequence(finish.frames)
      BY <3>7, SdkTerminals
    <3>9. finish = Finish(e, TRUE)
      BY <2>2, <3>6 DEF Finish
    <3>10. QED BY <2>2, <3>4, <3>7, <3>8, <3>9 DEF SdkOk
  <2>3. QED BY <2>1, <2>2
<1>11. IsSequence(w \o part) /\ IsPrefix(w \o part, w \o part)
  BY <1>9, <1>10, PrefixOfItself
<1>12. UNCHANGED config
  BY <1>2 DEF Takes
<1>13. PICK wire : wire = w \o part
  OBVIOUS
<1>14. /\ IsSequence(s.wire) /\ IsSequence(s.seen) /\ IsPrefix(s.wire, s.seen)
       /\ IF IsAgUi THEN FramesPair(s.wire) ELSE Finish(e, TRUE).enc.violations \cap BlockCodes = {}
  BY <1>8, <1>10, <1>11, <1>13
<1>15. QED BY <1>5, <1>8, <1>10, <1>12, <1>14, BrokenCloses

LEMMA PipeCancelledSeen ==
    ASSUME IndInv, WireInv, PipeCancelled
    PROVE  WireInv'
<1>1. IsPipe /\ sink.open /\ UNCHANGED <<config, spent>> /\ Closed(sink, enc, TRUE)
  BY DEF PipeCancelled, NextEvent, Takes, runVars
<1>2. QED BY <1>1, PipeCloses

LEMMA PipeErrorSeen ==
    ASSUME IndInv, WireInv, PipeError
    PROVE  WireInv'
<1>1. IsPipe /\ sink.open /\ UNCHANGED <<config, spent>> /\ Closed(sink, enc, TRUE)
  BY DEF PipeError, runVars
<1>2. QED BY <1>1, PipeCloses

LEMMA PipeEndsSeen ==
    ASSUME IndInv, WireInv, PipeEnds
    PROVE  WireInv'
<1>1. IsPipe /\ sink.open /\ UNCHANGED <<config, spent>> /\ RunIsOver
  BY DEF PipeEnds, runVars
<1>2. PICK cancelled \in BOOLEAN : Closed(sink, enc, cancelled)
  BY DEF PipeEnds
<1>3. QED BY <1>1, <1>2, PipeCloses

-----------------------------------------------------------------------------
(* The adapter's steps (ainode/adapter_stream.go). *)

\* The adapter writes the AI SDK's protocol only.
LEMMA AdapterIsSdk ==
    ASSUME IndInv, ~ IsPipe
    PROVE  ~ IsAgUi
<1>1. config \in Configs
  BY DEF IndInv, Types
<1>2. QED BY <1>1, RunOutputsAssumption DEF IsPipe, IsAgUi

LEMMA AllOfIt ==
    ASSUME NEW t, IsSequence(t)
    PROVE  SubSeq(t, 1, Len(t)) = t
<1> DEFINE S == ToSet(t)
<1>1. t \in Seq(S)
  BY DEF IsSequence
<1> HIDE DEF S
<1>2. QED BY <1>1

\* What the adapter leaves behind.
AdapterSends(event, chunks, n) ==
    /\ sink'.seen = sink.seen \o chunks
    /\ sink'.wire = IF sink.broken THEN sink.wire ELSE sink.wire \o SubSeq(chunks, 1, n)
    /\ (sink'.broken <=> (sink.broken \/ n < Len(chunks)))
    /\ (sink'.open <=> event.type # "error") /\ (sink'.failed <=> event.type = "error")
    /\ (sink'.done <=> (sink.done \/ event.type = "done")) /\ sink'.done \in BOOLEAN

LEMMA AdapterSink ==
    ASSUME SinkOk(sink), NEW r, NEW event, NEW n, AdapterWrites(r, event, n),
           NEW chunks, chunks = [i \in DOMAIN r.frames |-> AdapterChunk(r.frames[i])]
    PROVE  enc' = r.enc /\ AdapterSends(event, chunks, n)
<1>1. PICK s : s = Noted(event)
  OBVIOUS
<1>2. SinkOk(s) /\ s = [sink EXCEPT !.done = sink.done \/ event.type = "done"]
  BY <1>1, NotedKeeps DEF Noted, SinkOk
<1>3. /\ s.seen = sink.seen /\ s.wire = sink.wire /\ s.broken = sink.broken
      /\ s.done = (sink.done \/ event.type = "done")
  BY <1>2 DEF SinkOk
<1>4. PICK wire, broken, open, failed :
        /\ wire = (IF sink.broken THEN s.wire ELSE s.wire \o SubSeq(chunks, 1, n))
        /\ broken = (s.broken \/ n < Len(chunks)) /\ open = (event.type # "error")
        /\ failed = (event.type = "error")
  OBVIOUS
<1>5. /\ enc' = r.enc
      /\ sink' = [s EXCEPT !.seen = s.seen \o chunks, !.wire = wire, !.broken = broken, !.open = open,
                           !.failed = failed]
  BY <1>1, <1>4 DEF AdapterWrites
<1>6. /\ sink'.seen = s.seen \o chunks /\ sink'.wire = wire /\ sink'.broken = broken /\ sink'.open = open
      /\ sink'.failed = failed /\ sink'.done = s.done
  BY <1>2, <1>5 DEF SinkOk
<1>7. (sink'.broken <=> (sink.broken \/ n < Len(chunks)))
  BY <1>3, <1>4, <1>6, Zenon
<1>8. (sink'.open <=> event.type # "error") /\ (sink'.failed <=> event.type = "error")
  BY <1>4, <1>6, Zenon
<1>9. (sink'.done <=> (sink.done \/ event.type = "done")) /\ sink'.done \in BOOLEAN
  BY <1>3, <1>6, Zenon
<1>10. /\ sink'.seen = sink.seen \o chunks
       /\ sink'.wire = IF sink.broken THEN sink.wire ELSE sink.wire \o SubSeq(chunks, 1, n)
  BY <1>3, <1>4, <1>6
<1>11. QED BY <1>5, <1>7, <1>8, <1>9, <1>10 DEF AdapterSends

\* The wire is what the adapter made, up to the write that failed.
LEMMA AdapterPrefix ==
    ASSUME SeenInv, NEW event, NEW chunks, IsSequence(chunks), NEW n \in 0 .. Len(chunks),
           AdapterSends(event, chunks, n)
    PROVE  /\ IsSequence(sink'.wire) /\ IsSequence(sink'.seen) /\ IsPrefix(sink'.wire, sink'.seen)
           /\ ~ sink'.broken => sink'.wire = sink'.seen
<1> PICK wire, seen, part : wire = sink.wire /\ seen = sink.seen /\ part = SubSeq(chunks, 1, n)
  OBVIOUS
<1>1. /\ IsSequence(wire) /\ IsSequence(seen) /\ IsPrefix(wire, seen) /\ (~ sink.broken => wire = seen)
  BY DEF SeenInv
<1>2. /\ sink'.seen = seen \o chunks /\ sink'.wire = IF sink.broken THEN wire ELSE wire \o part
      /\ (sink'.broken <=> (sink.broken \/ n < Len(chunks)))
  BY DEF AdapterSends
<1>3. IsSequence(seen \o chunks) /\ Len(chunks) \in Nat
  BY <1>1, ConcatIsSequence, SequenceShape
<1>4. CASE sink.broken
  <2>1. IsPrefix(wire, seen \o chunks)
    BY <1>1, PrefixGrows
  <2>2. QED BY <1>1, <1>2, <1>3, <1>4, <2>1
<1>5. CASE ~ sink.broken
  <2>1. n \in Nat /\ n <= Len(chunks)
    BY <1>3
  <2>2. IsSequence(seen \o part) /\ IsPrefix(seen \o part, seen \o chunks)
    BY <1>1, <2>1, PartIsPrefix
  <2>3. sink'.wire = seen \o part
    BY <1>1, <1>2, <1>5
  <2>4. ASSUME ~ sink'.broken PROVE part = chunks
    <3>1. n = Len(chunks)
      BY <1>2, <1>3, <2>1, <2>4
    <3>2. QED BY <3>1, AllOfIt
  <2>5. QED BY <1>2, <1>3, <2>2, <2>3, <2>4
<1>6. QED BY <1>4, <1>5

\* A stream the adapter ends after a write that failed.
LEMMA BrokenEnds ==
    ASSUME ~ IsPipe, ~ IsAgUi, UNCHANGED config, ~ sink'.open, sink'.broken,
           IsSequence(sink'.wire), IsSequence(sink'.seen), IsPrefix(sink'.wire, sink'.seen),
           enc'.violations \cap BlockCodes = {}
    PROVE  WireInv'
<1>1. ~ IsAgUi' /\ ~ IsPipe'
  BY DEF IsAgUi, IsPipe
<1>2. SeenInv'
  BY DEF SeenInv
<1>3. WireIsWellFormed'
  BY <1>1 DEF WireIsWellFormed
<1>4. WireCountsUsageOnce'
  BY DEF WireCountsUsageOnce
<1>5. QED BY <1>2, <1>3, <1>4 DEF WireInv

LEMMA AdapterEventSeen ==
    ASSUME IndInv, WireInv, AdapterEvent
    PROVE  WireInv'
<1>1. PICK event, r : event = Head(queue) /\ r = Encode(enc, event)
  OBVIOUS
<1>2. ~ IsPipe /\ NextEvent /\ Takes(event) /\ sink.open
  BY <1>1 DEF AdapterEvent, NextEvent
<1>3. PICK n \in 0 .. Len(r.frames) : AdapterWrites(r, event, n)
  BY <1>1 DEF AdapterEvent
<1>4. ~ IsAgUi
  BY <1>2, AdapterIsSdk
<1>5. Arrives(event) /\ SdkInv /\ SeenInv /\ SinkOk(sink)
  BY <1>1, <1>2, <1>4, NextArrives DEF WireInv, Arrives
<1>6. SdkMoves(event, r, reducer')
  BY <1>1, <1>2, <1>4, SdkFits
<1>7. PICK q, chunks : q = reducer' /\ chunks = [i \in DOMAIN r.frames |-> AdapterChunk(r.frames[i])]
  OBVIOUS
<1>8. Says(chunks, event) /\ Len(chunks) = Len(r.frames)
  BY <1>2, <1>5, <1>6, <1>7, AdapterSays
<1>9. IsSequence(chunks)
  BY <1>8 DEF Says, Typed
<1>10. enc' = r.enc /\ AdapterSends(event, chunks, n)
  BY <1>3, <1>5, <1>7, AdapterSink
<1>11. /\ IsSequence(sink'.wire) /\ IsSequence(sink'.seen) /\ IsPrefix(sink'.wire, sink'.seen)
       /\ ~ sink'.broken => sink'.wire = sink'.seen
  <2>1. n \in 0 .. Len(chunks)
    BY <1>3, <1>8
  <2>2. QED BY <1>5, <1>9, <1>10, <2>1, AdapterPrefix
<1>12. SdkSink(event, chunks)
  <2>1. event.type # "error"
    BY <1>5 DEF Arrives
  <2>2. QED BY <1>2, <1>10, <1>11, <2>1 DEF SdkSink, AdapterSends
<1>13. QED BY <1>1, <1>2, <1>4, <1>6, <1>8, <1>10, <1>12, SdkGoesOn

\* The iterator's error: the builder is given what Finish makes.
LEMMA AdapterErrorSeen ==
    ASSUME IndInv, WireInv, AdapterError
    PROVE  WireInv'
<1>1. PICK event, r : event = Head(queue) /\ r = Finish(enc, TRUE)
  OBVIOUS
<1>2. /\ ~ IsPipe /\ sink.open /\ event.type = "error" /\ UNCHANGED <<config, spent>>
      /\ AdapterWrites(r, event, Len(r.frames))
  BY <1>1 DEF AdapterError, runVars
<1>3. ~ IsAgUi
  BY <1>2, AdapterIsSdk
<1>4. SdkInv /\ SeenInv /\ SinkOk(sink) /\ sink.done \in BOOLEAN
  BY <1>2, <1>3 DEF WireInv, SeenInv, IndInv, Types
<1>5. PICK e : e = enc
  OBVIOUS
<1>6. SdkOk(e) /\ e.finished \in BOOLEAN /\ r = Sdk!AiSdkFinish(e, TRUE)
  BY <1>1, <1>3, <1>4, <1>5 DEF SdkInv, Finish
<1>7. SdkOk(r.enc) /\ \E usage : Ending(r.frames, usage)
  BY <1>6, SdkFinishes
<1>8. PICK chunks, usage : /\ chunks = [i \in DOMAIN r.frames |-> AdapterChunk(r.frames[i])]
                           /\ usage = AdapterUsage
  OBVIOUS
<1>9. IsSequence(chunks) /\ FinishIsLast(chunks, usage) /\ Len(chunks) = Len(r.frames)
  BY <1>7, <1>8, AdapterFinishes
<1>10. PICK n : n = Len(r.frames)
  OBVIOUS
<1>11. enc' = r.enc /\ AdapterSends(event, chunks, n)
  BY <1>2, <1>4, <1>8, <1>10, AdapterSink
<1>12. n \in 0 .. Len(chunks)
  BY <1>9, <1>10, SequenceShape
<1>13. /\ IsSequence(sink'.wire) /\ IsSequence(sink'.seen) /\ IsPrefix(sink'.wire, sink'.seen)
       /\ ~ sink'.broken => sink'.wire = sink'.seen
  BY <1>4, <1>9, <1>11, <1>12, AdapterPrefix
<1>14. /\ ~ sink'.open /\ sink'.failed /\ (sink'.done <=> sink.done)
       /\ enc'.violations \cap BlockCodes = {}
  BY <1>2, <1>7, <1>11 DEF AdapterSends, SdkOk
<1>15. CASE sink'.broken
  BY <1>2, <1>3, <1>13, <1>14, <1>15, BrokenEnds
<1>16. CASE ~ sink'.broken
  <2>1. PICK w, seen : w = sink.seen /\ seen = w \o chunks
    OBVIOUS
  <2>2. sink'.seen = seen /\ sink'.wire = seen
    BY <1>11, <1>13, <1>16, <2>1 DEF AdapterSends
  <2>3. IsSequence(w) /\ IF sink.done THEN FinishIsLast(w, ChunkUsage(spent)) ELSE Terminals(w) = {}
    BY <1>4, <2>1 DEF SeenInv, SdkInv
  <2>4. SaysDone(seen)
    BY <1>9, <2>1, <2>3, FinishCounts
  <2>5. Cardinality(Terminals(seen)) = IF sink.done THEN 2 ELSE 1
    <3>1. CASE sink.done
      <4>1. PICK i : Terminals(w) = {i}
        BY <2>3, <3>1 DEF FinishIsLast
      <4>2. Cardinality(Terminals(seen)) = 2
        BY <1>9, <2>1, <2>3, <4>1, FinishCounts
      <4>3. QED BY <3>1, <4>2
    <3>2. CASE ~ sink.done
      <4>1. EndedOnce(seen, usage)
        BY <1>9, <2>1, <2>3, <3>2, FinishCounts
      <4>2. QED BY <3>2, <4>1 DEF EndedOnce
    <3>3. QED BY <3>1, <3>2
  <2>6. QED BY <1>2, <1>3, <1>14, <2>2, <2>4, <2>5, SdkWhole
<1>17. QED BY <1>15, <1>16

\* The end of the iterator.
LEMMA AdapterEndsSeen ==
    ASSUME IndInv, WireInv, AdapterEnds
    PROVE  WireInv'
<1>1. /\ ~ IsPipe /\ sink.open /\ RunIsOver /\ UNCHANGED <<config, spent, enc>>
      /\ sink' = [sink EXCEPT !.open = FALSE]
  BY DEF AdapterEnds, runVars
<1>2. ~ IsAgUi
  BY <1>1, AdapterIsSdk
<1>3. SdkInv /\ SeenInv /\ SinkOk(sink) /\ FlightInv /\ ~ sink.failed
  BY <1>1, <1>2 DEF WireInv, SeenInv, IndInv, Types
<1>4. /\ ~ sink'.open /\ sink'.broken = sink.broken /\ sink'.failed = sink.failed
      /\ sink'.wire = sink.wire /\ sink'.seen = sink.seen
  BY <1>1, <1>3 DEF SinkOk
<1>5. sink.done /\ enc'.violations \cap BlockCodes = {}
  BY <1>1, <1>3 DEF RunIsOver, FlightInv, SdkInv, SdkOk
<1>6. PICK seen, usage, none : seen = sink.seen /\ usage = ChunkUsage(spent) /\ none = <<>>
  OBVIOUS
<1>7. IsSequence(seen) /\ FinishIsLast(seen, usage)
  BY <1>3, <1>5, <1>6 DEF SeenInv, SdkInv
<1>8. CASE sink.broken
  <2>1. IsSequence(sink'.wire) /\ IsSequence(sink'.seen) /\ IsPrefix(sink'.wire, sink'.seen) /\ sink'.broken
    BY <1>3, <1>4, <1>8 DEF SeenInv
  <2>2. QED BY <1>1, <1>2, <1>4, <1>5, <2>1, BrokenEnds
<1>9. CASE ~ sink.broken
  <2>1. sink'.wire = seen /\ sink'.seen = seen
    BY <1>3, <1>4, <1>6, <1>9 DEF SeenInv
  <2>2. IsSequence(none) /\ seen = none \o seen /\ Terminals(none) = {}
    BY <1>6, <1>7, NoneIsSequence, NothingAdded DEF Terminals
  <2>3. SaysDone(seen)
    BY <1>7, <2>2, FinishCounts
  <2>4. EndedOnce(seen, usage)
    BY <1>7, <2>2, FinishCounts
  <2>5. /\ Cardinality(Terminals(seen)) = IF sink'.done /\ sink'.failed THEN 2 ELSE 1
        /\ seen[Max(Terminals(seen))].usage = ChunkUsage(spent)
    BY <1>3, <1>4, <1>6, <2>4 DEF EndedOnce
  <2>6. QED BY <1>1, <1>2, <1>4, <1>5, <2>1, <2>3, <2>5, SdkWhole
<1>10. QED BY <1>8, <1>9

LEMMA SinkSeen ==
    ASSUME IndInv, WireInv, SinkNext
    PROVE  WireInv'
BY PipeEventSeen, PipeWriteFailsSeen, PipeCancelledSeen, PipeErrorSeen, PipeEndsSeen, AdapterEventSeen,
   AdapterErrorSeen, AdapterEndsSeen DEF SinkNext

-----------------------------------------------------------------------------
(* The wire of every run. *)

LEMMA UiStartIsPaired ==
    ASSUME NEW frames, Typed(frames, AsidesUi)
    PROVE  FramesPair(frames) /\ StillOpen(frames, Len(frames)) = {} /\ Terminals(frames) = {}
<1>1. PICK none : none = <<>>
  OBVIOUS
<1>2. IsSequence(none) /\ FramesPair(none) /\ StillOpen(none, Len(none)) = {} /\ Len(none) = 0
  BY <1>1, NoneIsSequence, StillOpenNone DEF FramesPair
<1>3. Walk({}, frames, {}) /\ Typed(frames, AgUiTypes)
  BY AsidesWalk
<1>4. IsSequence(frames) /\ \A i \in DOMAIN frames : frames[i].type \notin Sdk!BlockTypes
  BY <1>3, UiFrames DEF Typed
<1>5. FramesPair(none \o frames) /\ StillOpen(none \o frames, Len(none \o frames)) = {}
  BY <1>2, <1>3, <1>4, PairedGrows
<1>6. none \o frames = frames
  BY <1>1, <1>4, NothingAdded
<1>7. Terminals(frames) = {}
  BY <1>3, NoTerminals, QuietTypes
<1>8. QED BY <1>5, <1>6, <1>7

LEMMA WireBegins == Init => WireInv
<1> SUFFICES ASSUME Init PROVE WireInv
  OBVIOUS
<1>1. /\ phase \in {"resuming", "between"} /\ queue = <<>> /\ spent = NoUsage
      /\ reducer = NewReducer(history)
  BY DEF Init
<1>2. PICK r, frames : r = StartFrames(config, NewEncoder(config)) /\ frames = r.frames
  OBVIOUS
<1>3. enc = r.enc /\ sink = NewSink(frames)
  BY <1>2 DEF Init
<1>4. /\ sink.open = TRUE /\ sink.broken = FALSE /\ sink.failed = FALSE /\ sink.done = FALSE
      /\ sink.wire = frames /\ sink.seen = frames
  BY <1>3 DEF NewSink
<1>5. /\ reducer.current.open = FALSE /\ reducer.completedUsage = NoUsage
      /\ reducer.usage = NoUsage /\ reducer.currentUsage = NoUsage
  BY <1>1 DEF NewReducer, NoStep
<1>6. FlightInv
  BY <1>1, <1>4, <1>5 DEF FlightInv, Pending
<1>7. ASSUME IsSequence(frames) PROVE SeenInv
  BY <1>4, <1>7, PrefixOfItself DEF SeenInv
<1>8. CASE IsAgUi
  <2>1. PICK options : options = config.options
    OBVIOUS
  <2>2. r = Ui!AgUiStart(Ui!NewAgUi(options))
    BY <1>2, <1>8, <2>1 DEF StartFrames, NewEncoder, IsAgUi
  <2>3. /\ AgUiOk(enc) /\ AgUiBlocks(enc) = {} /\ enc.stepUsage = NoUsage /\ enc.totalUsage = NoUsage
        /\ Typed(frames, AsidesUi)
    BY <1>2, <1>3, <2>2, UiBegins
  <2>4. FramesPair(frames) /\ StillOpen(frames, Len(frames)) = {} /\ Terminals(frames) = {}
    BY <2>3, UiStartIsPaired
  <2>5. IdsInv
    BY <1>1 DEF IdsInv
  <2>6. AgUiInv
    BY <1>4, <1>5, <2>3, <2>4, <2>5 DEF AgUiInv
  <2>7. IsSequence(frames)
    BY <2>3 DEF Typed
  <2>8. QED BY <1>4, <1>6, <1>7, <1>8, <2>6, <2>7 DEF WireInv
<1>9. CASE ~ IsAgUi
  <2>1. r = Sdk!AiSdkStart(Sdk!NewAiSdk)
    BY <1>2, <1>9 DEF StartFrames, NewEncoder, IsAgUi
  <2>2. /\ SdkOk(enc) /\ Typed(frames, SdkTypes) /\ ~ enc.text /\ ~ enc.reasoning /\ enc.finished = FALSE
        /\ enc.total = NoUsage /\ enc.current = NoUsage
    BY <1>2, <1>3, <2>1, SdkBegins
  <2>3. IsSequence(frames) /\ Terminals(frames) = {}
    BY <2>2, NoTerminals, QuietTypes
  <2>4. SdkInv
    BY <1>4, <1>5, <2>2, <2>3 DEF SdkInv
  <2>5. QED BY <1>4, <1>6, <1>7, <1>9, <2>3, <2>4 DEF WireInv
<1>10. QED BY <1>8, <1>9

\* The frames, the encoder and the Result stay in step, whatever the answers hold and wherever
\* the stream ends.
THEOREM WireInvariance == Spec => [](IndInv /\ WireInv)
<1>1. ASSUME IndInv, WireInv, [Next]_vars PROVE WireInv'
  <2>1. CASE UNCHANGED vars
    <3>1. UNCHANGED <<config, phase, rest, turn, spent, queue, reducer, enc, sink>>
      BY <2>1 DEF vars, runVars
    <3>2. (IsAgUi' <=> IsAgUi) /\ (IsPipe' <=> IsPipe)
      BY <3>1 DEF IsAgUi, IsPipe
    <3>3. SeenInv => SeenInv'
      BY <3>1, <3>2 DEF SeenInv
    <3>4. FlightInv => FlightInv'
      BY <3>1 DEF FlightInv, Pending
    <3>5. AgUiInv => AgUiInv'
      BY <3>1 DEF AgUiInv, IdsInv, HasIndex, Pending
    <3>6. SdkInv => SdkInv'
      BY <3>1, <3>2 DEF SdkInv, ChunkUsage
    <3>7. WireIsWellFormed => WireIsWellFormed'
      BY <3>1, <3>2 DEF WireIsWellFormed
    <3>8. WireCountsUsageOnce => WireCountsUsageOnce'
      BY <3>1, <3>2 DEF WireCountsUsageOnce
    <3>9. QED BY <1>1, <3>1, <3>2, <3>3, <3>4, <3>5, <3>6, <3>7, <3>8 DEF WireInv
  <2>2. QED BY <1>1, <2>1, RunSeen, SinkSeen DEF Next
<1>2. QED BY <1>1, WireBegins, Invariance, PTL DEF Spec

\* Whatever ends a run - its answer, a call that waits, an error, a cancelled request, a write that
\* fails (uistream/pipe.go:50) - and in any order of text, thinking and calls, what the client has
\* got is paired blocks and one end of the run (uistream/agui/encoder_lifecycle.go:71,
\* uistream/ainode/invariants.go:71).
THEOREM WireIsAlwaysWellFormed == Spec => []WireIsWellFormed
<1>1. ASSUME IndInv, WireInv PROVE WireIsWellFormed
  <2>1. SinkOk(sink)
    BY <1>1 DEF IndInv, Types
  <2>2. QED BY <1>1, <2>1, WireHolds
<1>2. QED BY <1>1, WireInvariance, PTL

\* The usage the client is told at a clean end is what the turns spent, in both protocols, though
\* each encoder folds the snapshots on its own (uistream/agui/encoder_lifecycle.go:94,
\* uistream/ainode/usage_accumulator.go:20).
THEOREM WireUsageIsCountedOnce == Spec => []WireCountsUsageOnce
<1>1. ASSUME IndInv, WireInv PROVE WireCountsUsageOnce
  <2>1. SinkOk(sink)
    BY <1>1 DEF IndInv, Types
  <2>2. QED BY <1>1, <2>1, WireHolds
<1>2. QED BY <1>1, WireInvariance, PTL

=============================================================================
