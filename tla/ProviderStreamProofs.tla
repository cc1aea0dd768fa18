------------------------ MODULE ProviderStreamProofs ------------------------
(***************************************************************************)
(* Proofs about ProviderStream, for every set of calls and every capacity  *)
(* of the two channels: the order of release, and what the aggregate holds *)
(* of the events the decoder has sent.                                     *)
(*                                                                         *)
(* The aggregate is a fold over a prefix of emitted, so the first part     *)
(* shows what such a fold does when the prefix or the sequence grows by    *)
(* one event.  The invariant then follows the events through the pipe:     *)
(* what raw and the relay hold are the last events emitted, and the events *)
(* of out each continue where the one before them, or the aggregate, ends. *)
(* With a live context they are consecutive; once it is cancelled, errors  *)
(* may be missing between them, and after draining began only errors come. *)
(***************************************************************************)
EXTENDS ProviderStream, WellFoundedInduction, TLAPS

-----------------------------------------------------------------------------
(* Induction over the natural numbers, and the fold of the aggregate. *)

\* A set that holds 0 and the successor of each of its numbers holds them all.
LEMMA NaturalsAreReached ==
    ASSUME NEW S, 0 \in S, \A n \in Nat : n \in S => n + 1 \in S
    PROVE  Nat \subseteq S
<1> DEFINE R == OpToRel(<, Nat)
           T == Nat \ S
<1>1. IsWellFoundedOn(R, Nat)
  BY NatLessThanWellFounded
<1>2. \A a, b \in Nat : a < b => <<a, b>> \in R
  BY DEF OpToRel
<1>3. SUFFICES ASSUME T # {} PROVE FALSE
  OBVIOUS
<1>4. T \subseteq Nat
  OBVIOUS
<1> HIDE DEF T, R
<1>5. PICK n \in T : \A m \in T : ~ (<<m, n>> \in R)
  BY <1>1, <1>3, <1>4, WFMin
<1>6. n \in Nat /\ n \notin S /\ n # 0
  BY <1>4 DEF T
<1>7. n - 1 \in Nat /\ n = (n - 1) + 1
  BY <1>6
<1>8. n - 1 \notin T
  <2>1. <<n - 1, n>> \in R
    BY <1>2, <1>6, <1>7
  <2> QED BY <2>1, <1>5
<1> QED BY <1>6, <1>7, <1>8 DEF T

\* A set of natural numbers that is not empty has a least element.
LEMMA LeastNatural ==
    ASSUME NEW T, T \subseteq Nat, T # {}
    PROVE  \E n \in T : \A m \in T : n <= m
<1> DEFINE R == OpToRel(<, Nat)
<1>1. IsWellFoundedOn(R, Nat)
  BY NatLessThanWellFounded
<1>2. \A a, b \in Nat : a < b => <<a, b>> \in R
  BY DEF OpToRel
<1> HIDE DEF R
<1>3. PICK n \in T : \A m \in T : ~ (<<m, n>> \in R)
  BY <1>1, WFMin
<1>4. ASSUME NEW m \in T PROVE n <= m
  <2>1. n \in Nat /\ m \in Nat
    OBVIOUS
  <2>2. ~ (m < n)
    BY <1>2, <1>3, <2>1
  <2> QED BY <2>1, <2>2
<1> QED BY <1>4

\* The recursive equation by which FoldLeft defines the aggregate of the events
\* at the places of a set.
Folds(g, events, D) ==
    g = [s \in SUBSET D |-> IF s = {} THEN EmptyAggregate
                            ELSE AbsorbPlain(g[s \ {Max(s)}], events[Max(s)])]

LEMMA FoldDefinition ==
    ASSUME NEW events
    PROVE  FoldLeft(AbsorbPlain, EmptyAggregate, events)
             = (CHOOSE g : Folds(g, events, DOMAIN events))[DOMAIN events]
BY DEF FoldLeft, MapThenFoldSet, Folds

\* The greatest number of an initial segment, with or without gaps below.
LEMMA GreatestIs ==
    ASSUME NEW n \in Nat, NEW s \in SUBSET (1 .. n + 1), n + 1 \in s
    PROVE  Max(s) = n + 1
<1>1. \A x \in s : n + 1 >= x
  OBVIOUS
<1>2. \A x \in s : x >= n + 1 => x = n + 1
  OBVIOUS
<1>3. Max(s) \in s /\ \A y \in s : Max(s) >= y
  BY <1>1 DEF Max
<1> QED BY <1>2, <1>3

LEMMA GreatestOfRange ==
    ASSUME NEW n \in Nat
    PROVE  Max(1 .. n + 1) = n + 1
BY GreatestIs

\* Some function satisfies the equation, so the one that is chosen does.
LEMMA FoldExists ==
    ASSUME NEW events, NEW n \in Nat
    PROVE  \E g : Folds(g, events, 1 .. n)
<1> DEFINE S == {m \in Nat : \E g : Folds(g, events, 1 .. m)}
<1>1. 0 \in S
  <2> DEFINE h == [s \in SUBSET (1 .. 0) |-> EmptyAggregate]
  <2>1. \A s \in SUBSET (1 .. 0) : s = {}
    OBVIOUS
  <2>2. Folds(h, events, 1 .. 0)
    BY <2>1 DEF Folds
  <2> QED BY <2>2
<1>2. ASSUME NEW m \in Nat, m \in S PROVE m + 1 \in S
  <2>1. PICK g : Folds(g, events, 1 .. m)
    BY <1>2
  <2> DEFINE h == [s \in SUBSET (1 .. m + 1) |->
                     IF m + 1 \in s THEN AbsorbPlain(g[s \ {m + 1}], events[m + 1]) ELSE g[s]]
  <2>2. ASSUME NEW s \in SUBSET (1 .. m + 1)
        PROVE  h[s] = IF s = {} THEN EmptyAggregate
                      ELSE AbsorbPlain(h[s \ {Max(s)}], events[Max(s)])
    <3>1. CASE m + 1 \in s
      <4>1. Max(s) = m + 1
        BY <3>1, GreatestIs
      <4>2. s \ {m + 1} \in SUBSET (1 .. m + 1) /\ m + 1 \notin s \ {m + 1}
        OBVIOUS
      <4>3. h[s \ {m + 1}] = g[s \ {m + 1}]
        BY <4>2
      <4>4. h[s] = AbsorbPlain(g[s \ {m + 1}], events[m + 1])
        BY <3>1
      <4> QED BY <3>1, <4>1, <4>3, <4>4
    <3>2. CASE m + 1 \notin s
      <4>1. s \in SUBSET (1 .. m)
        BY <3>2
      <4>2. s \ {Max(s)} \in SUBSET (1 .. m + 1) /\ m + 1 \notin s \ {Max(s)}
        BY <3>2
      <4>3. h[s] = g[s] /\ h[s \ {Max(s)}] = g[s \ {Max(s)}]
        BY <3>2, <4>2
      <4>4. g[s] = IF s = {} THEN EmptyAggregate
                   ELSE AbsorbPlain(g[s \ {Max(s)}], events[Max(s)])
        BY <2>1, <4>1 DEF Folds
      <4> QED BY <4>3, <4>4
    <3> QED BY <3>1, <3>2
  <2>3. Folds(h, events, 1 .. m + 1)
    <3> DEFINE b(s) == IF s = {} THEN EmptyAggregate
                       ELSE AbsorbPlain(h[s \ {Max(s)}], events[Max(s)])
    <3>1. h = [s \in SUBSET (1 .. m + 1) |-> h[s]]
      OBVIOUS
    <3>2. \A s \in SUBSET (1 .. m + 1) : h[s] = b(s)
      BY <2>2
    <3> HIDE DEF h
    <3>3. h = [s \in SUBSET (1 .. m + 1) |-> b(s)]
      BY <3>1, <3>2
    <3> QED BY <3>3 DEF Folds
  <2> HIDE DEF h
  <2> QED BY <2>3
<1>3. \A m \in Nat : m \in S => m + 1 \in S
  BY <1>2
<1> HIDE DEF S
<1>4. n \in S
  BY <1>1, <1>3, NaturalsAreReached
<1> QED BY <1>4 DEF S

\* The equation at one set.
LEMMA FoldsAt ==
    ASSUME NEW g, NEW events, NEW D, Folds(g, events, D), NEW s \in SUBSET D, s # {}
    PROVE  g[s] = AbsorbPlain(g[s \ {Max(s)}], events[Max(s)])
BY DEF Folds

\* Folds over sequences that agree on their first n events agree there.
LEMMA FoldsAgree ==
    ASSUME NEW n \in Nat, NEW m \in Nat, n <= m, NEW one, NEW other, NEW g, NEW h,
           \A i \in 1 .. n : one[i] = other[i],
           Folds(g, one, 1 .. n), Folds(h, other, 1 .. m)
    PROVE  g[1 .. n] = h[1 .. n]
<1> DEFINE S == {j \in Nat : j <= n => g[1 .. j] = h[1 .. j]}
<1>1. 0 \in S
  <2>1. 1 .. 0 = {} /\ 1 .. 0 \in SUBSET (1 .. n) /\ 1 .. 0 \in SUBSET (1 .. m)
    OBVIOUS
  <2>2. g[1 .. 0] = EmptyAggregate /\ h[1 .. 0] = EmptyAggregate
    BY <2>1 DEF Folds
  <2> QED BY <2>2
<1>2. ASSUME NEW j \in Nat, j \in S PROVE j + 1 \in S
  <2>1. SUFFICES ASSUME j + 1 <= n PROVE g[1 .. j + 1] = h[1 .. j + 1]
    OBVIOUS
  <2>2. Max(1 .. j + 1) = j + 1
    BY GreatestIs
  <2>3. (1 .. j + 1) \ {j + 1} = 1 .. j /\ 1 .. j + 1 # {}
    OBVIOUS
  <2>4. 1 .. j + 1 \in SUBSET (1 .. n) /\ 1 .. j + 1 \in SUBSET (1 .. m)
    BY <2>1
  <2> DEFINE s == 1 .. j + 1
             N == 1 .. n
             M == 1 .. m
  <2>5. s # {} /\ Max(s) = j + 1 /\ s \ {Max(s)} = 1 .. j
    BY <2>2, <2>3
  <2>6. s \in SUBSET N /\ s \in SUBSET M
    BY <2>4
  <2>8. Folds(g, one, N) /\ Folds(h, other, M)
    OBVIOUS
  <2> HIDE DEF s, N, M
  <2>9. g[s] = AbsorbPlain(g[s \ {Max(s)}], one[Max(s)])
    BY ONLY <2>5, <2>6, <2>8, FoldsAt
  <2>10. h[s] = AbsorbPlain(h[s \ {Max(s)}], other[Max(s)])
    BY ONLY <2>5, <2>6, <2>8, FoldsAt
  <2>7. g[1 .. j] = h[1 .. j] /\ one[j + 1] = other[j + 1]
    BY <1>2, <2>1
  <2> QED BY <2>5, <2>7, <2>9, <2>10 DEF s
<1>3. \A j \in Nat : j \in S => j + 1 \in S
  BY <1>2
<1> HIDE DEF S
<1>4. n \in S
  BY <1>1, <1>3, NaturalsAreReached
<1> QED BY <1>4 DEF S

-----------------------------------------------------------------------------
(* Sequences of events, of whatever kind. *)

IsSequence(s) == s \in Seq(ToSet(s))

LEMMA SequenceShape ==
    ASSUME NEW s, IsSequence(s)
    PROVE  /\ Len(s) \in Nat /\ DOMAIN s = 1 .. Len(s)
           /\ s = <<>> <=> Len(s) = 0
BY DEF IsSequence

LEMMA EmptyIsSequence == IsSequence(<<>>) /\ Len(<<>>) = 0
BY DEF IsSequence

\* A sequence over some set is a sequence over its own elements.
LEMMA SequenceOverItself ==
    ASSUME NEW S, NEW s \in Seq(S)
    PROVE  IsSequence(s)
<1>1. Len(s) \in Nat /\ DOMAIN s = 1 .. Len(s) /\ s = [i \in 1 .. Len(s) |-> s[i]]
  OBVIOUS
<1>2. \A i \in 1 .. Len(s) : s[i] \in ToSet(s)
  BY <1>1 DEF ToSet
<1>3. s \in [1 .. Len(s) -> ToSet(s)]
  BY <1>1, <1>2
<1> QED BY <1>1, <1>3 DEF IsSequence

LEMMA AppendIsSequence ==
    ASSUME NEW s, IsSequence(s), NEW e
    PROVE  /\ IsSequence(Append(s, e)) /\ Len(Append(s, e)) = Len(s) + 1
           /\ Append(s, e)[Len(s) + 1] = e
           /\ \A i \in 1 .. Len(s) : Append(s, e)[i] = s[i]
           /\ ToSet(Append(s, e)) = ToSet(s) \cup {e}
<1> DEFINE S == ToSet(s) \cup {e}
<1>1. s \in Seq(S) /\ e \in S
  <2>1. ToSet(s) \subseteq S
    OBVIOUS
  <2>2. s \in Seq(ToSet(s)) /\ e \in S
    BY DEF IsSequence
  <2> HIDE DEF S
  <2> QED BY <2>1, <2>2
<1> HIDE DEF S
<1>2. Append(s, e) \in Seq(S)
  BY <1>1
<1>3. /\ Len(Append(s, e)) = Len(s) + 1 /\ Append(s, e)[Len(s) + 1] = e
      /\ \A i \in 1 .. Len(s) : Append(s, e)[i] = s[i]
      /\ DOMAIN Append(s, e) = 1 .. Len(s) + 1 /\ DOMAIN s = 1 .. Len(s) /\ Len(s) \in Nat
  BY <1>1
<1>4. ToSet(Append(s, e)) = ToSet(s) \cup {e}
  BY <1>3 DEF ToSet
<1> QED BY <1>2, <1>3, <1>4, SequenceOverItself

LEMMA TailIsSequence ==
    ASSUME NEW s, IsSequence(s), s # <<>>
    PROVE  /\ IsSequence(Tail(s)) /\ Len(s) > 0 /\ Len(Tail(s)) = Len(s) - 1
           /\ Head(s) = s[1] /\ Head(s) \in ToSet(s)
           /\ \A i \in 1 .. Len(s) - 1 : Tail(s)[i] = s[i + 1]
           /\ ToSet(Tail(s)) \subseteq ToSet(s)
<1> DEFINE S == ToSet(s)
<1>1. s \in Seq(S)
  BY DEF IsSequence
<1>2. \A i \in DOMAIN s : s[i] \in S
  BY DEF ToSet
<1> HIDE DEF S
<1>3. /\ Tail(s) \in Seq(S) /\ Len(s) > 0 /\ Len(Tail(s)) = Len(s) - 1 /\ Head(s) = s[1]
      /\ \A i \in 1 .. Len(s) - 1 : Tail(s)[i] = s[i + 1]
      /\ DOMAIN Tail(s) = 1 .. Len(s) - 1 /\ DOMAIN s = 1 .. Len(s) /\ Len(s) \in Nat
  BY <1>1
<1>4. Head(s) \in S
  BY <1>2, <1>3
<1>5. ToSet(Tail(s)) \subseteq S
  BY <1>2, <1>3 DEF ToSet
<1> QED BY <1>3, <1>4, <1>5, SequenceOverItself DEF S

LEMMA PrefixIs ==
    ASSUME NEW s, IsSequence(s), NEW k \in Nat, k <= Len(s)
    PROVE  /\ DOMAIN SubSeq(s, 1, k) = 1 .. k
           /\ \A i \in 1 .. k : SubSeq(s, 1, k)[i] = s[i]
<1> DEFINE S == ToSet(s)
<1>1. s \in Seq(S)
  BY DEF IsSequence
<1> HIDE DEF S
<1> QED BY <1>1

\* The aggregate of k events, by the function that folds them.
LEMMA AggregateFolds ==
    ASSUME NEW s, IsSequence(s), NEW k \in Nat, k <= Len(s)
    PROVE  \E g : /\ Folds(g, SubSeq(s, 1, k), 1 .. k)
                  /\ AggregateUpTo(s, k) = g[1 .. k]
<1> DEFINE t == SubSeq(s, 1, k)
           g == CHOOSE f : Folds(f, t, 1 .. k)
<1>1. DOMAIN t = 1 .. k
  BY PrefixIs
<1> HIDE DEF t
<1>2. Folds(g, t, 1 .. k)
  BY FoldExists
<1>3. FoldLeft(AbsorbPlain, EmptyAggregate, t) = g[1 .. k]
  BY <1>1, FoldDefinition
<1> HIDE DEF g
<1> QED BY <1>2, <1>3 DEF AggregateUpTo, t

\* Nothing is the aggregate of no events, and one more event is absorbed last.
LEMMA AggregateStarts ==
    ASSUME NEW s, IsSequence(s)
    PROVE  AggregateUpTo(s, 0) = EmptyAggregate
<1>1. PICK g : Folds(g, SubSeq(s, 1, 0), 1 .. 0) /\ AggregateUpTo(s, 0) = g[1 .. 0]
  BY AggregateFolds, SequenceShape
<1> DEFINE D == 1 .. 0
<1>2. D = {} /\ D \in SUBSET D
  OBVIOUS
<1>3. Folds(g, SubSeq(s, 1, 0), D)
  BY <1>1
<1> HIDE DEF D
<1>4. g[D] = EmptyAggregate
  BY <1>2, <1>3 DEF Folds
<1> QED BY <1>1, <1>4 DEF D

LEMMA AggregateGrows ==
    ASSUME NEW s, IsSequence(s), NEW k \in Nat, k < Len(s)
    PROVE  AggregateUpTo(s, k + 1) = AbsorbPlain(AggregateUpTo(s, k), s[k + 1])
<1> DEFINE t == SubSeq(s, 1, k + 1)
           u == SubSeq(s, 1, k)
           D == 1 .. k + 1
<1>0. Len(s) \in Nat
  BY SequenceShape
<1>1. /\ \A i \in 1 .. k : t[i] = u[i]
      /\ t[k + 1] = s[k + 1]
  BY <1>0, PrefixIs
<1> HIDE DEF t, u
<1>2. PICK g : Folds(g, t, D) /\ AggregateUpTo(s, k + 1) = g[D]
  BY <1>0, AggregateFolds DEF t
<1>3. PICK h : Folds(h, u, 1 .. k) /\ AggregateUpTo(s, k) = h[1 .. k]
  BY <1>0, AggregateFolds DEF u
<1>4. h[1 .. k] = g[1 .. k]
  BY <1>1, <1>2, <1>3, FoldsAgree
<1>5. D # {} /\ D \in SUBSET D /\ Max(D) = k + 1 /\ D \ {Max(D)} = 1 .. k
  <2>1. Max(1 .. k + 1) = k + 1
    BY GreatestOfRange
  <2>2. (1 .. k + 1) \ {k + 1} = 1 .. k /\ 1 .. k + 1 # {}
    OBVIOUS
  <2> QED BY <2>1, <2>2
<1> HIDE DEF D
<1>6. g[D] = AbsorbPlain(g[D \ {Max(D)}], t[Max(D)])
  BY ONLY <1>2, <1>5, FoldsAt
<1> QED BY <1>1, <1>2, <1>3, <1>4, <1>5, <1>6

\* What is sent later changes nothing about the first k events.
LEMMA AggregateKept ==
    ASSUME NEW s, IsSequence(s), NEW e, NEW k \in Nat, k <= Len(s)
    PROVE  AggregateUpTo(Append(s, e), k) = AggregateUpTo(s, k)
<1> DEFINE r == Append(s, e)
           t == SubSeq(r, 1, k)
           u == SubSeq(s, 1, k)
<1>1. /\ IsSequence(r) /\ Len(r) = Len(s) + 1 /\ \A i \in 1 .. Len(s) : r[i] = s[i]
  BY AppendIsSequence
<1>2. Len(s) \in Nat
  BY SequenceShape
<1> HIDE DEF r
<1>3. \A i \in 1 .. k : t[i] = u[i]
  BY <1>1, <1>2, PrefixIs
<1> HIDE DEF t, u
<1>4. PICK g : Folds(g, t, 1 .. k) /\ AggregateUpTo(r, k) = g[1 .. k]
  BY <1>1, <1>2, AggregateFolds DEF t
<1>5. PICK h : Folds(h, u, 1 .. k) /\ AggregateUpTo(s, k) = h[1 .. k]
  BY <1>2, AggregateFolds DEF u
<1>6. g[1 .. k] = h[1 .. k]
  BY <1>3, <1>4, <1>5, FoldsAgree
<1> QED BY <1>4, <1>5, <1>6 DEF r

-----------------------------------------------------------------------------
(* The inductive invariant. *)

Shapes ==
    /\ call \in Calls
    /\ DOMAIN decoder = {"pc", "state", "pending", "next", "err"}
    /\ DOMAIN relay = {"pc", "event", "draining"}
    /\ DOMAIN owner = {"pc", "state", "err", "exit"}
    /\ IsSequence(wire) /\ IsSequence(buffer)
    /\ IsSequence(raw) /\ IsSequence(out) /\ IsSequence(emitted)
    /\ \A f \in ToSet(wire) \cup ToSet(buffer) : f.kind \in FrameKinds(call.provider)

\* The deferred calls of the decoder's goroutine close the body before raw.
ReleaseInv ==
    /\ decoder.pc \in {"closeRaw", "ended"} => body = "closed"
    /\ relay.pc = "ended" => decoder.pc = "ended" /\ raw = <<>>
    /\ owner.pc = "new" => relay.pc = "none"

Held == IF relay.pc = "holding" THEN 1 ELSE 0

\* How many of the emitted events the relay has dealt with.
Relayed == Len(emitted) - Len(raw) - Held

\* What the relay holds, and what waits in raw, are the last events emitted.
RelayInv ==
    /\ Relayed >= 0
    /\ \A i \in 1 .. Len(raw) : raw[i] = emitted[Relayed + Held + i]
    /\ relay.pc = "holding" => relay.event = emitted[Relayed + 1]
    /\ relay.draining /\ relay.pc = "holding" => IsError(relay.event)
    /\ relay.draining => CtxDone

Consuming == owner.pc \in {"new", "retired", "ranging"}

\* An error at or before place i of the channel to the consumer.
ErrorBy(i) == \E j \in 1 .. i : IsError(out[j])

\* The places of emitted that the aggregate and the events in out come from:
\* between two of them are only errors, which no aggregate takes notice of.
Route(place) ==
    /\ agg = AggregateOf(place[1])
    /\ \A i \in 1 .. Len(out) :
         \/ ErrorBy(i)
         \/ /\ place[i + 1] >= 1 /\ out[i] = emitted[place[i + 1]]
            /\ AggregateOf(place[i + 1] - 1) = AggregateOf(place[i])
    /\ \/ relay.draining
       \/ ErrorBy(Len(out))
       \/ AggregateOf(Relayed) = AggregateOf(place[Len(out) + 1])

Places == [1 .. Len(out) + 1 -> 0 .. Len(emitted)]

PrefixInv ==
    /\ Consuming => \E place \in Places : Route(place)
    /\ ~ Consuming => \E k \in 0 .. Len(emitted) : AbsorbedUpTo(k)
    /\ owner.pc = "leaving" => owner.exit # "start"

NoErrorUpTo(k) == \A i \in 1 .. k : ~ IsError(emitted[i])

Absorbed == Relayed - Len(out)

\* With a live context nothing is dropped: out continues where the aggregate ends.
LiveConsuming ==
    /\ Absorbed >= 0 /\ ~ relay.draining
    /\ \A i \in 1 .. Len(out) : out[i] = emitted[Absorbed + i]
    /\ NoErrorUpTo(Absorbed) /\ agg = AggregateOf(Absorbed)

LiveLeft(k) ==
    /\ NoErrorUpTo(k) /\ agg = AggregateOf(k)
    /\ owner.exit = "end" => k = Len(emitted) /\ decoder.pc = "ended"
    /\ owner.exit = "error" => /\ k < Len(emitted) /\ IsError(emitted[k + 1])
                               /\ owner.err = emitted[k + 1].cause

LiveInv ==
    /\ ctx = "live" /\ Consuming => LiveConsuming
    /\ ctx = "live" /\ owner.pc = "leaving" => \E k \in 0 .. Len(emitted) : LiveLeft(k)
    /\ owner.pc = "left" => CtxDone

IndInv == TypeInvariant /\ Shapes /\ ReleaseInv /\ RelayInv /\ PrefixInv /\ LiveInv

-----------------------------------------------------------------------------
(* Types. *)

\* One turn of a decoder's loop goes on, ends or fails.
LEMMA DecodeNext ==
    ASSUME NEW provider \in Providers, NEW state, NEW frame,
           frame.kind \in FrameKinds(provider)
    PROVE  Decode(provider, state, frame).next \in {"more", "end", "fail"}
<1>1. CASE provider = "chat"
  <2>1. frame.kind \in {"done", "bad", "chunk"}
    BY <1>1 DEF FrameKinds
  <2>2. DecodeChat(state, frame).next \in {"more", "end", "fail"}
    BY <2>1 DEF DecodeChat
  <2> QED BY <1>1, <2>2 DEF Decode
<1>2. CASE provider = "anthropic"
  <2>1. frame.kind \in {"start", "blockStart", "blockDelta", "messageDelta", "error", "ignored"}
    BY <1>2 DEF FrameKinds
  <2>2. DecodeAnthropic(state, frame).next \in {"more", "end", "fail"}
    BY <2>1 DEF DecodeAnthropic
  <2> QED BY <1>2, <2>2 DEF Decode
<1>3. CASE provider = "responses"
  <2>1. frame.kind \in {"created", "text", "reasoning", "item", "args", "sources", "completed",
                        "terminal", "error", "doneMarker", "unparsed", "ignoredChunk"}
    BY <1>3 DEF FrameKinds
  <2>2. AddItem(state, frame).next = "more"
    BY DEF AddItem
  <2>3. DecodeResponses(state, frame).next \in {"more", "end", "fail"}
    BY <2>1, <2>2 DEF DecodeResponses
  <2> QED BY <1>3, <2>3 DEF Decode
<1>4. CASE provider = "gemini"
  <2>1. frame.kind \in {"chunk", "unparsed", "empty"}
    BY <1>4 DEF FrameKinds
  <2>2. DecodeNativeChunk(state, frame).next = "more"
    BY DEF DecodeNativeChunk
  <2>3. DecodeGemini(state, frame).next \in {"more", "end", "fail"}
    BY <2>1, <2>2 DEF DecodeGemini
  <2> QED BY <1>4, <2>3 DEF Decode
<1> QED BY <1>1, <1>2, <1>3, <1>4 DEF Providers

Types == TypeInvariant /\ Shapes

LEMMA InitTypes == Init => Types
<1> SUFFICES ASSUME Init PROVE Types
  OBVIOUS
<1>1. call \in Calls /\ wire = call.frames /\ buffer = <<>> /\ raw = <<>> /\ out = <<>>
      /\ emitted = <<>>
  BY DEF Init
<1>2. /\ IsSequence(wire) /\ \A f \in ToSet(wire) : f.kind \in FrameKinds(call.provider)
  BY <1>1, CallsAssumption DEF IsSequence
<1>3. ToSet(buffer) = {}
  BY <1>1 DEF ToSet
<1>4. Shapes
  BY <1>1, <1>2, <1>3, EmptyIsSequence DEF Shapes, Init
<1>5. Len(raw) = 0 /\ Len(out) = 0 /\ RawCap \in Nat /\ OutCap \in Nat
  BY <1>1, EmptyIsSequence, CapAssumption
<1>6. Len(raw) <= RawCap /\ Len(out) <= OutCap
  BY <1>5
<1>7. TypeInvariant
  BY <1>6 DEF TypeInvariant, Init
<1> QED BY <1>4, <1>7 DEF Types

\* What the consumer does with the next event of the channel.
ReceivesError ==
    /\ IsError(Head(out))
    /\ owner' = [pc |-> "leaving", state |-> "aborted", err |-> Head(out).cause, exit |-> "error"]
    /\ UNCHANGED <<agg, ctx>>

ReceivesPlain ==
    /\ ~ IsError(Head(out)) /\ agg' = Absorb(agg, Head(out))
    /\ \/ /\ UNCHANGED owner
          /\ ctx' = ctx \/ ctx' = "byOwner"
       \/ /\ \E state \in {"completed", "aborted"}, err \in {"", "canceled"} :
                owner' = [pc |-> "leaving", state |-> state, err |-> err, exit |-> "break"]
          /\ UNCHANGED ctx

LEMMA Receives ==
    ASSUME OwnerReceives
    PROVE  /\ owner.pc = "ranging" /\ out # <<>> /\ out' = Tail(out)
           /\ UNCHANGED <<call, wire, buffer, body, timer, decoder, watcher, raw, relay, emitted>>
           /\ ReceivesError \/ ReceivesPlain
<1>1. CASE Head(out).type = "error"
  BY <1>1 DEF OwnerReceives, ReceivesError, IsError, Leave
<1>2. CASE Head(out).type # "error"
  <2>1. agg' = Absorb(agg, Head(out))
    BY <1>2 DEF OwnerReceives
  <2>2. \/ UNCHANGED <<owner, ctx>>
        \/ ctx' = (IF CtxDone THEN ctx ELSE "byOwner") /\ UNCHANGED owner
        \/ /\ IF agg'.sawFinish THEN Leave("completed", "", "break")
              ELSE Leave("aborted", "canceled", "break")
           /\ UNCHANGED ctx
    BY <1>2 DEF OwnerReceives
  <2>3. \/ UNCHANGED <<owner, ctx>>
        \/ ctx' = (IF CtxDone THEN ctx ELSE "byOwner") /\ UNCHANGED owner
        \/ /\ Leave("completed", "", "break") \/ Leave("aborted", "canceled", "break")
           /\ UNCHANGED ctx
    BY <2>2
  <2>4. ReceivesPlain
    BY <1>2, <2>1, <2>3 DEF ReceivesPlain, IsError, Leave
  <2> QED BY <2>4 DEF OwnerReceives
<1> QED BY <1>1, <1>2

LEMMA PlainGoesOnOrBreaks ==
    ASSUME ReceivesPlain
    PROVE  \/ UNCHANGED owner
           \/ owner'.pc = "leaving" /\ owner'.exit = "break" /\ UNCHANGED ctx
<1>1. ASSUME NEW state \in {"completed", "aborted"}, NEW err \in {"", "canceled"},
             owner' = [pc |-> "leaving", state |-> state, err |-> err, exit |-> "break"]
      PROVE  owner'.pc = "leaving" /\ owner'.exit = "break"
  BY <1>1
<1> QED BY <1>1 DEF ReceivesPlain

LEMMA OwnerTypes == Types /\ OwnerNext => Types'
<1> SUFFICES ASSUME Types, OwnerNext PROVE Types'
  OBVIOUS
<1> USE DEF Types, TypeInvariant, Shapes
<1>1. CASE Start
  BY <1>1 DEF Start, CtxDone
<1>2. CASE Retire
  BY <1>2 DEF Retire
<1>3. CASE OwnerSeesCancel
  BY <1>3 DEF OwnerSeesCancel, Leave
<1>4. CASE OwnerReceives
  <2>1. /\ IsSequence(out') /\ Len(out') <= OutCap
    <3>1. IsSequence(Tail(out)) /\ Len(Tail(out)) = Len(out) - 1 /\ Len(out) \in Nat
      BY <1>4, Receives, TailIsSequence, SequenceShape
    <3>2. out' = Tail(out)
      BY <1>4, Receives
    <3>3. Len(out) <= OutCap /\ OutCap \in Nat
      BY CapAssumption
    <3>4. Len(out') <= OutCap
      BY ONLY <3>1, <3>2, <3>3
    <3> QED BY ONLY <3>1, <3>2, <3>4
  <2>2. ctx' \in {"live", "byParent", "byOwner"}
    BY <1>4, Receives DEF ReceivesError, ReceivesPlain
  <2>3. /\ DOMAIN owner' = {"pc", "state", "err", "exit"}
        /\ owner'.pc \in {"new", "retired", "ranging", "leaving", "left"}
        /\ owner'.state \in {"notDrained", "completed", "aborted"}
        /\ owner'.exit \in {"none", "start", "cancel", "error", "break", "end"}
    <3>1. CASE ReceivesError
      BY <3>1 DEF ReceivesError
    <3>2. CASE ReceivesPlain
      <4>1. CASE UNCHANGED owner
        BY <4>1
      <4>2. ASSUME NEW state \in {"completed", "aborted"}, NEW err \in {"", "canceled"},
                   owner' = [pc |-> "leaving", state |-> state, err |-> err, exit |-> "break"]
            PROVE  <2>3!:
        BY <4>2
      <4> QED BY <3>2, <4>1, <4>2 DEF ReceivesPlain
    <3> QED BY <1>4, <3>1, <3>2, Receives
  <2> QED BY <1>4, <2>1, <2>2, <2>3, Receives
<1>5. CASE OwnerSeesEnd
  <2>1. /\ owner' = [pc |-> "leaving", state |-> "completed", err |-> "", exit |-> "end"]
        /\ UNCHANGED <<call, ctx, wire, buffer, body, timer, decoder, watcher, raw, relay, out>>
        /\ UNCHANGED <<agg, emitted>>
    BY <1>5 DEF OwnerSeesEnd, Leave
  <2>2. /\ DOMAIN owner' = {"pc", "state", "err", "exit"} /\ owner'.pc = "leaving"
        /\ owner'.state = "completed" /\ owner'.exit = "end"
    BY <2>1
  <2>3. UNCHANGED <<call, ctx, wire, buffer, body, timer, decoder, watcher, raw, relay, out>>
    BY <2>1
  <2> QED BY <2>2, <2>3, <2>1
<1>6. CASE Release
  BY <1>6 DEF Release
<1> QED BY <1>1, <1>2, <1>3, <1>4, <1>5, <1>6 DEF OwnerNext

LEMMA OtherTypes == Types /\ (CancelParent \/ TimerFires \/ WatcherNext) => Types'
<1> SUFFICES ASSUME Types, CancelParent \/ TimerFires \/ WatcherNext PROVE Types'
  OBVIOUS
<1> USE DEF Types, TypeInvariant, Shapes
<1>1. CASE CancelParent
  BY <1>1 DEF CancelParent
<1>2. CASE TimerFires
  BY <1>2 DEF TimerFires
<1>3. CASE WatcherNext
  BY <1>3 DEF WatcherNext, StoppedTimer
<1> QED BY <1>1, <1>2, <1>3

LEMMA RelayTypes == Types /\ RelayNext => Types'
<1> SUFFICES ASSUME Types, RelayNext PROVE Types'
  OBVIOUS
<1> USE DEF Types, TypeInvariant, Shapes
<1>1. CASE RelayReceives
  <2>1. /\ IsSequence(raw') /\ Len(raw') <= RawCap
    BY <1>1, TailIsSequence, SequenceShape, CapAssumption DEF RelayReceives
  <2> QED BY <1>1, <2>1 DEF RelayReceives, RelayUnchanged
<1>2. CASE RelaySends
  <2>1. /\ IsSequence(out') /\ Len(out') <= OutCap
    BY <1>2, AppendIsSequence, SequenceShape, CapAssumption DEF RelaySends
  <2> QED BY <1>2, <2>1 DEF RelaySends, RelayUnchanged, RelayLetsGo
<1>3. CASE RelayDrops
  BY <1>3 DEF RelayDrops, RelayUnchanged, RelayLetsGo
<1>4. CASE RelayEnds
  BY <1>4 DEF RelayEnds, RelayUnchanged
<1> QED BY <1>1, <1>2, <1>3, <1>4 DEF RelayNext

LEMMA DecoderTypes == Types /\ DecoderNext => Types'
<1> SUFFICES ASSUME Types, DecoderNext PROVE Types'
  OBVIOUS
<1> USE DEF Types, TypeInvariant, Shapes, DecoderUnchanged
<1>1. CASE DecoderChecks
  BY <1>1 DEF DecoderChecks
<1>2. CASE ReadData
  <2> DEFINE Good(s) == IsSequence(s) /\ \A f \in ToSet(s) : f.kind \in FrameKinds(call.provider)
  <2>1. Good(<<>>) /\ Good(<<Head(wire)>>) /\ Good(Tail(wire)) /\ Good(wire)
    <3>1. wire # <<>>
      BY <1>2 DEF ReadData
    <3>2. Good(Tail(wire)) /\ Head(wire) \in ToSet(wire)
      BY <3>1, TailIsSequence
    <3>3. Good(<<>>)
      BY EmptyIsSequence DEF ToSet
    <3>4. Good(<<Head(wire)>>)
      <4>1. <<Head(wire)>> \in Seq({Head(wire)})
        OBVIOUS
      <4>2. ToSet(<<Head(wire)>>) = {Head(wire)}
        BY DEF ToSet
      <4> QED BY <3>2, <4>1, <4>2 DEF IsSequence
    <3> QED BY <3>2, <3>3, <3>4
  <2>2. Good(buffer') /\ Good(wire')
    BY <1>2, <2>1 DEF ReadData
  <2> QED BY <1>2, <2>2 DEF ReadData
<1>3. CASE ResetTimer
  BY <1>3 DEF ResetTimer
<1>4. CASE DecodeFrame
  <2>1. /\ IsSequence(buffer') /\ ToSet(buffer') \subseteq ToSet(buffer)
        /\ Head(buffer) \in ToSet(buffer)
    BY <1>4, TailIsSequence DEF DecodeFrame
  <2>2. call.provider \in Providers
    BY CallsAssumption
  <2>3. Decode(call.provider, decoder.state, Head(buffer)).next \in {"more", "end", "fail"}
    BY <2>1, <2>2, DecodeNext
  <2>4. /\ DOMAIN decoder' = {"pc", "state", "pending", "next", "err"} /\ decoder'.pc = "emit"
        /\ decoder'.next \in {"more", "end", "fail"}
    BY <1>4, <2>3 DEF DecodeFrame
  <2>5. UNCHANGED <<call, ctx, watcher, relay, out, owner, agg, wire, body, timer, raw, emitted>>
    BY <1>4 DEF DecodeFrame
  <2> QED BY <2>1, <2>4, <2>5
<1>5. CASE ReadFails
  <2>1. /\ DOMAIN decoder' = {"pc", "state", "pending", "next", "err"}
        /\ decoder'.pc \in {"failed", "stopWatcher"} /\ decoder'.next = decoder.next
    BY <1>5 DEF ReadFails
  <2>2. timer' \in [state : {"none", "armed", "idle"}, expired : BOOLEAN]
    BY <1>5 DEF ReadFails, StoppedTimer
  <2>3. UNCHANGED <<call, ctx, watcher, relay, out, owner, agg, wire, buffer, body, raw, emitted>>
    BY <1>5 DEF ReadFails
  <2> QED BY <2>1, <2>2, <2>3
<1>6. CASE DecoderPanics
  BY <1>6 DEF DecoderPanics
<1>7. CASE SendRaw
  <2>1. /\ IsSequence(raw') /\ IsSequence(emitted') /\ Len(raw') <= RawCap
    BY <1>7, AppendIsSequence, SequenceShape, CapAssumption DEF SendRaw
  <2> QED BY <1>7, <2>1 DEF SendRaw
<1>8. CASE SendGivesUp
  BY <1>8 DEF SendGivesUp
<1>9. CASE FrameDone
  BY <1>9 DEF FrameDone
<1>10. CASE NameFailure
  BY <1>10 DEF NameFailure
<1>11. CASE ReportFailure
  <2>1. /\ IsSequence(raw') /\ IsSequence(emitted') /\ Len(raw') <= RawCap
    BY <1>11, AppendIsSequence, SequenceShape, CapAssumption DEF ReportFailure
  <2> QED BY <1>11, <2>1 DEF ReportFailure
<1>12. CASE StopWatcher
  BY <1>12 DEF StopWatcher
<1>13. CASE CloseBody
  BY <1>13 DEF CloseBody, StoppedTimer
<1>14. CASE CloseRaw
  BY <1>14 DEF CloseRaw
<1> QED BY <1>1, <1>2, <1>3, <1>4, <1>5, <1>6, <1>7, <1>8, <1>9, <1>10, <1>11, <1>12, <1>13,
           <1>14 DEF DecoderNext

LEMMA NextTypes == Types /\ [Next]_vars => Types'
<1>1. Types /\ UNCHANGED vars => Types'
  BY DEF Types, TypeInvariant, Shapes, vars
<1> QED BY <1>1, OwnerTypes, OtherTypes, RelayTypes, DecoderTypes DEF Next

-----------------------------------------------------------------------------
(* The kinds of step, as the pipe from decoder to consumer sees them. *)

\* Neither raw nor emitted nor what the relay holds changes.
Calm ==
    /\ UNCHANGED <<raw, emitted>>
    /\ relay'.draining = relay.draining /\ relay'.event = relay.event
    /\ relay'.pc = "holding" <=> relay.pc = "holding"
    /\ CtxDone => CtxDone'

\* A step that does not concern the consumer either.
Aside ==
    /\ Calm /\ UNCHANGED <<out, owner, agg>>
    /\ decoder.pc = "ended" => decoder'.pc = "ended"

Emit(e) ==
    /\ raw' = Append(raw, e) /\ emitted' = Append(emitted, e)
    /\ UNCHANGED <<relay, out, ctx, owner, agg>>
    /\ decoder.pc # "ended"

OwnerSteps == Start \/ Retire \/ OwnerSeesCancel \/ OwnerReceives \/ OwnerSeesEnd \/ Release

LEMMA DecoderStepKinds ==
    ASSUME DecoderNext
    PROVE  Aside \/ \E e : Emit(e)
<1> USE DEF DecoderUnchanged, CtxDone
<1>1. CASE DecoderChecks
  BY <1>1 DEF DecoderChecks, Aside, Calm
<1>2. CASE ReadData
  BY <1>2 DEF ReadData, Aside, Calm
<1>3. CASE ResetTimer
  BY <1>3 DEF ResetTimer, Aside, Calm
<1>4. CASE DecodeFrame
  BY <1>4 DEF DecodeFrame, Aside, Calm
<1>5. CASE ReadFails
  BY <1>5 DEF ReadFails, Aside, Calm
<1>6. CASE DecoderPanics
  BY <1>6 DEF DecoderPanics, Aside, Calm
<1>7. CASE SendRaw
  <2>1. Emit(Head(decoder.pending))
    BY <1>7 DEF SendRaw, Emit
  <2> QED BY <2>1
<1>8. CASE SendGivesUp
  BY <1>8 DEF SendGivesUp, Aside, Calm
<1>9. CASE FrameDone
  BY <1>9 DEF FrameDone, Aside, Calm
<1>10. CASE NameFailure
  BY <1>10 DEF NameFailure, Aside, Calm
<1>11. CASE ReportFailure
  <2>1. Emit(ErrorEvent(decoder.err))
    BY <1>11 DEF ReportFailure, Emit
  <2> QED BY <2>1
<1>12. CASE StopWatcher
  BY <1>12 DEF StopWatcher, Aside, Calm
<1>13. CASE CloseBody
  BY <1>13 DEF CloseBody, Aside, Calm
<1>14. CASE CloseRaw
  <2>1. decoder.pc # "ended"
    BY <1>14 DEF CloseRaw
  <2>2. UNCHANGED <<raw, emitted, relay, out, owner, agg, ctx>>
    BY <1>14 DEF CloseRaw
  <2> QED BY <2>1, <2>2 DEF Aside, Calm
<1> QED BY <1>1, <1>2, <1>3, <1>4, <1>5, <1>6, <1>7, <1>8, <1>9, <1>10, <1>11, <1>12, <1>13,
           <1>14 DEF DecoderNext

LEMMA StepKinds ==
    ASSUME Types, [Next]_vars
    PROVE  \/ Aside
           \/ \E e : Emit(e)
           \/ RelayReceives \/ RelaySends \/ RelayDrops
           \/ OwnerSteps
<1> USE DEF CtxDone
<1>1. CASE DecoderNext
  BY <1>1, DecoderStepKinds
<1>2. CASE OwnerNext
  BY <1>2 DEF OwnerNext, OwnerSteps
<1>3. CASE RelayNext
  <2>1. CASE RelayEnds
    BY <2>1 DEF RelayEnds, RelayUnchanged, Aside, Calm, Types, Shapes
  <2> QED BY <1>3, <2>1 DEF RelayNext
<1>4. CASE CancelParent
  BY <1>4 DEF CancelParent, Aside, Calm
<1>5. CASE TimerFires
  BY <1>5 DEF TimerFires, Aside, Calm
<1>6. CASE WatcherNext
  BY <1>6 DEF WatcherNext, Aside, Calm
<1>7. CASE UNCHANGED vars
  BY <1>7 DEF vars, Aside, Calm
<1> QED BY <1>1, <1>2, <1>3, <1>4, <1>5, <1>6, <1>7 DEF Next

\* Only the consumer's own channel changes under a step of the consumer.
LEMMA OwnerIsCalm ==
    ASSUME Types, ReleaseInv, OwnerSteps
    PROVE  Calm
<1> USE DEF CtxDone
<1>1. CASE Start
  BY <1>1 DEF Start, Calm, Types, Shapes, ReleaseInv
<1>2. CASE Retire
  BY <1>2 DEF Retire, Calm
<1>3. CASE OwnerSeesCancel
  BY <1>3 DEF OwnerSeesCancel, Calm
<1>4. CASE OwnerReceives
  <2>1. ctx # "live" => ctx' # "live"
    BY <1>4, Receives DEF ReceivesError, ReceivesPlain
  <2> QED BY <1>4, <2>1, Receives DEF Calm
<1>5. CASE OwnerSeesEnd
  BY <1>5 DEF OwnerSeesEnd, Calm
<1>6. CASE Release
  BY <1>6 DEF Release, Calm
<1> QED BY <1>1, <1>2, <1>3, <1>4, <1>5, <1>6 DEF OwnerSteps

-----------------------------------------------------------------------------
(* The order of release. *)

LEMMA NextRelease == Types /\ ReleaseInv /\ [Next]_vars => ReleaseInv'
<1> SUFFICES ASSUME Types, ReleaseInv, [Next]_vars PROVE ReleaseInv'
  OBVIOUS
<1> USE DEF ReleaseInv, Types, Shapes
<1>1. CASE DecoderNext
  <2> USE DEF DecoderUnchanged
  <2>1. CASE DecoderChecks
    BY <2>1 DEF DecoderChecks
  <2>2. CASE ReadData
    BY <2>2 DEF ReadData
  <2>3. CASE ResetTimer
    BY <2>3 DEF ResetTimer
  <2>4. CASE DecodeFrame
    <3>1. decoder'.pc = "emit" /\ decoder.pc = "read" /\ UNCHANGED <<relay, owner, raw>>
      BY <2>4 DEF DecodeFrame
    <3> QED BY <3>1
  <2>5. CASE ReadFails
    BY <2>5 DEF ReadFails
  <2>6. CASE DecoderPanics
    BY <2>6 DEF DecoderPanics
  <2>7. CASE SendRaw
    BY <2>7 DEF SendRaw
  <2>8. CASE SendGivesUp
    BY <2>8 DEF SendGivesUp
  <2>9. CASE FrameDone
    <3>1. decoder.next \in {"more", "end", "fail"}
      BY DEF TypeInvariant
    <3> QED BY <2>9, <3>1 DEF FrameDone
  <2>10. CASE NameFailure
    BY <2>10 DEF NameFailure
  <2>11. CASE ReportFailure
    BY <2>11 DEF ReportFailure
  <2>12. CASE StopWatcher
    BY <2>12 DEF StopWatcher
  <2>13. CASE CloseBody
    BY <2>13 DEF CloseBody
  <2>14. CASE CloseRaw
    BY <2>14 DEF CloseRaw
  <2> QED BY <1>1, <2>1, <2>2, <2>3, <2>4, <2>5, <2>6, <2>7, <2>8, <2>9, <2>10, <2>11, <2>12,
             <2>13, <2>14 DEF DecoderNext
<1>2. CASE OwnerNext
  <2>1. CASE Start
    BY <2>1 DEF Start
  <2>2. CASE ~ Start
    <3>1. UNCHANGED <<decoder, relay, body, raw>>
      BY <1>2, <2>2, Receives DEF OwnerNext, Retire, OwnerSeesCancel, OwnerSeesEnd, Release
    <3>2. owner'.pc = "new" => owner.pc = "new"
      <4>1. CASE OwnerReceives
        <5>1. CASE ReceivesError
          BY <5>1 DEF ReceivesError
        <5>2. CASE ReceivesPlain
          BY <5>2, PlainGoesOnOrBreaks
        <5> QED BY <4>1, <5>1, <5>2, Receives
      <4>2. CASE Retire
        BY <4>2 DEF Retire
      <4>3. CASE OwnerSeesCancel
        BY <4>3 DEF OwnerSeesCancel, Leave
      <4>4. CASE OwnerSeesEnd
        <5>1. owner'.pc = "leaving"
          BY <4>4 DEF OwnerSeesEnd, Leave
        <5> QED BY <5>1
      <4>5. CASE Release
        BY <4>5 DEF Release
      <4> QED BY <1>2, <2>2, <4>1, <4>2, <4>3, <4>4, <4>5 DEF OwnerNext
    <3> QED BY <3>1, <3>2
  <2> QED BY <2>1, <2>2
<1>3. CASE RelayNext
  <2>1. CASE RelayReceives
    BY <2>1 DEF RelayReceives, RelayUnchanged
  <2>2. CASE RelaySends
    BY <2>2 DEF RelaySends, RelayUnchanged, RelayLetsGo
  <2>3. CASE RelayDrops
    BY <2>3 DEF RelayDrops, RelayUnchanged, RelayLetsGo
  <2>4. CASE RelayEnds
    BY <2>4 DEF RelayEnds, RelayUnchanged
  <2> QED BY <1>3, <2>1, <2>2, <2>3, <2>4 DEF RelayNext
<1>4. CASE CancelParent
  BY <1>4 DEF CancelParent
<1>5. CASE TimerFires
  BY <1>5 DEF TimerFires
<1>6. CASE WatcherNext
  BY <1>6 DEF WatcherNext
<1>7. CASE UNCHANGED vars
  BY <1>7 DEF vars
<1> QED BY <1>1, <1>2, <1>3, <1>4, <1>5, <1>6, <1>7 DEF Next

-----------------------------------------------------------------------------
(* What the relay holds. *)

LEMMA CalmRelay == Types /\ RelayInv /\ Calm => RelayInv'
<1> SUFFICES ASSUME Types, RelayInv, Calm PROVE RelayInv'
  OBVIOUS
<1>1. Held' = Held /\ Relayed' = Relayed
  BY DEF Calm, Held, Relayed
<1> QED BY <1>1 DEF Calm, RelayInv

\* The lengths of the channels are natural numbers.
LEMMA Lengths ==
    ASSUME Types
    PROVE  /\ Len(raw) \in Nat /\ Len(out) \in Nat /\ Len(emitted) \in Nat
           /\ Held \in {0, 1} /\ Relayed \in Int
           /\ Relayed + Held + Len(raw) = Len(emitted)
BY SequenceShape DEF Types, Shapes, Held, Relayed

LEMMA EmitGrows ==
    ASSUME Types, NEW e, Emit(e)
    PROVE  /\ Len(raw') = Len(raw) + 1 /\ Len(emitted') = Len(emitted) + 1
           /\ raw'[Len(raw) + 1] = e /\ emitted'[Len(emitted) + 1] = e
           /\ \A i \in 1 .. Len(raw) : raw'[i] = raw[i]
           /\ \A i \in 1 .. Len(emitted) : emitted'[i] = emitted[i]
           /\ Held' = Held /\ Relayed' = Relayed
<1>1. IsSequence(raw) /\ IsSequence(emitted)
  BY DEF Types, Shapes
<1>2. /\ Len(Append(raw, e)) = Len(raw) + 1 /\ Append(raw, e)[Len(raw) + 1] = e
      /\ \A i \in 1 .. Len(raw) : Append(raw, e)[i] = raw[i]
  BY <1>1, AppendIsSequence
<1>3. /\ Len(Append(emitted, e)) = Len(emitted) + 1
      /\ Append(emitted, e)[Len(emitted) + 1] = e
      /\ \A i \in 1 .. Len(emitted) : Append(emitted, e)[i] = emitted[i]
  BY <1>1, AppendIsSequence
<1>4. raw' = Append(raw, e) /\ emitted' = Append(emitted, e) /\ relay' = relay
  BY DEF Emit
<1>5. Held' = Held
  BY <1>4 DEF Held
<1>6. Relayed' = Relayed
  <2>1. Len(raw') = Len(raw) + 1 /\ Len(emitted') = Len(emitted) + 1
    BY <1>2, <1>3, <1>4
  <2> QED BY <1>5, <2>1, Lengths DEF Relayed
<1> QED BY <1>2, <1>3, <1>4, <1>5, <1>6

LEMMA EmitRelay == \A e : Types /\ RelayInv /\ Emit(e) => RelayInv'
<1> SUFFICES ASSUME NEW e, Types, RelayInv, Emit(e) PROVE RelayInv'
  OBVIOUS
<1>1. ASSUME NEW i \in 1 .. Len(raw') PROVE raw'[i] = emitted'[Relayed + Held + i]
  <2>1. CASE i = Len(raw) + 1
    BY <2>1, EmitGrows, Lengths
  <2>2. CASE i # Len(raw) + 1
    <3>1. i \in 1 .. Len(raw)
      BY <2>2, EmitGrows, Lengths
    <3>2. Relayed + Held + i \in 1 .. Len(emitted)
      BY <3>1, Lengths DEF RelayInv
    <3> QED BY <3>1, <3>2, EmitGrows DEF RelayInv
  <2> QED BY <2>1, <2>2
<1>2. relay.pc = "holding" => emitted'[Relayed + 1] = emitted[Relayed + 1]
  <2>1. relay.pc = "holding" => Relayed + 1 \in 1 .. Len(emitted)
    BY Lengths DEF RelayInv, Held
  <2> QED BY <2>1, EmitGrows
<1>3. relay' = relay /\ ctx' = ctx
  BY DEF Emit
<1> QED BY <1>1, <1>2, <1>3, EmitGrows DEF RelayInv, CtxDone

\* The relay takes the next event, or passes over it because it drains.
LEMMA RelayTakes ==
    ASSUME Types, RelayInv, RelayReceives
    PROVE  /\ Relayed < Len(emitted) /\ Len(raw') = Len(raw) - 1 /\ emitted' = emitted
           /\ Head(raw) = emitted[Relayed + 1]
           /\ \A i \in 1 .. Len(raw') : raw'[i] = emitted[Relayed + 1 + i]
           /\ relay'.draining = relay.draining
           /\ \/ /\ relay.draining /\ UNCHANGED relay
                 /\ Held' = 0 /\ Relayed' = Relayed + 1
              \/ /\ relay'.pc = "holding" /\ relay'.event = Head(raw)
                 /\ relay.draining => IsError(Head(raw))
                 /\ Held' = 1 /\ Relayed' = Relayed
<1>1. /\ relay.pc = "receiving" /\ raw # <<>> /\ raw' = Tail(raw) /\ emitted' = emitted
  BY DEF RelayReceives, RelayUnchanged
<1>2. IsSequence(raw)
  BY DEF Types, Shapes
<1>3. /\ Len(raw) > 0 /\ Len(raw') = Len(raw) - 1 /\ Head(raw) = raw[1]
      /\ \A i \in 1 .. Len(raw) - 1 : raw'[i] = raw[i + 1]
  BY <1>1, <1>2, TailIsSequence
<1>4. Held = 0 /\ Relayed >= 0
  BY <1>1 DEF Held, RelayInv
<1>5. Relayed < Len(emitted)
  BY <1>3, <1>4, Lengths
<1>6. Head(raw) = emitted[Relayed + 1]
  BY <1>3, <1>4, Lengths DEF RelayInv
<1>7. ASSUME NEW i \in 1 .. Len(raw') PROVE raw'[i] = emitted[Relayed + 1 + i]
  <2>1. i \in 1 .. Len(raw) - 1 /\ i + 1 \in 1 .. Len(raw)
    BY <1>3, Lengths
  <2>2. raw'[i] = raw[i + 1]
    BY <1>3, <2>1
  <2>3. raw[i + 1] = emitted[Relayed + Held + (i + 1)]
    BY <2>1 DEF RelayInv
  <2>4. Relayed + Held + (i + 1) = Relayed + 1 + i
    BY <1>4, <2>1, Lengths
  <2> QED BY <2>2, <2>3, <2>4
<1>8. CASE relay.draining /\ Head(raw).type # "error"
  <2>1. relay' = relay
    BY <1>8 DEF RelayReceives
  <2>2. Held' = 0
    BY <1>1, <2>1 DEF Held
  <2>3. Relayed' = Relayed + 1
    BY <1>1, <1>3, <1>4, <2>2, Lengths DEF Relayed
  <2> QED BY <1>1, <1>3, <1>5, <1>6, <1>7, <1>8, <2>1, <2>2, <2>3
<1>9. CASE ~ (relay.draining /\ Head(raw).type # "error")
  <2>1. /\ relay'.pc = "holding" /\ relay'.event = Head(raw) /\ relay'.draining = relay.draining
    BY <1>9 DEF RelayReceives, Types, Shapes
  <2>2. Held' = 1
    BY <2>1 DEF Held
  <2>3. Relayed' = Relayed
    BY <1>1, <1>3, <1>4, <2>2, Lengths DEF Relayed
  <2> QED BY <1>1, <1>3, <1>5, <1>6, <1>7, <1>9, <2>1, <2>2, <2>3 DEF IsError
<1> QED BY <1>8, <1>9

\* The relay lets go of an event, delivered or dropped.
LEMMA RelayGives ==
    ASSUME Types, RelayInv, RelaySends \/ RelayDrops
    PROVE  /\ UNCHANGED <<raw, emitted, ctx, owner, agg, decoder>>
           /\ relay'.pc = "receiving" /\ Held = 1 /\ Held' = 0 /\ Relayed' = Relayed + 1
           /\ relay.event = emitted[Relayed + 1] /\ Relayed < Len(emitted)
           /\ relay.draining => IsError(relay.event) /\ CtxDone
<1>1. /\ UNCHANGED <<raw, emitted, ctx, owner, agg, decoder>> /\ relay.pc = "holding"
      /\ relay'.pc = "receiving"
  BY DEF RelaySends, RelayDrops, RelayUnchanged, RelayLetsGo, Types, Shapes
<1>2. Held = 1 /\ Held' = 0
  BY <1>1 DEF Held
<1>3. Relayed' = Relayed + 1
  BY <1>1, <1>2, Lengths DEF Relayed
<1> QED BY <1>1, <1>2, <1>3, Lengths DEF RelayInv

LEMMA RelayRelay ==
    Types /\ RelayInv /\ (RelayReceives \/ RelaySends \/ RelayDrops) => RelayInv'
<1> SUFFICES ASSUME Types, RelayInv, RelayReceives \/ RelaySends \/ RelayDrops PROVE RelayInv'
  OBVIOUS
<1>1. CASE RelayReceives
  <2>1. ctx' = ctx
    BY <1>1 DEF RelayReceives, RelayUnchanged
  <2>2. ASSUME NEW i \in 1 .. Len(raw') PROVE raw'[i] = emitted'[Relayed' + Held' + i]
    <3>1. Relayed' + Held' + i = Relayed + 1 + i
      BY <1>1, RelayTakes, Lengths
    <3> QED BY <1>1, <3>1, RelayTakes
  <2>3. Relayed' >= 0
    BY <1>1, RelayTakes, Lengths DEF RelayInv
  <2>4. relay'.pc = "holding" => relay'.event = emitted'[Relayed' + 1]
    BY <1>1, RelayTakes DEF Held
  <2>5. relay'.draining /\ relay'.pc = "holding" => IsError(relay'.event)
    <3>1. SUFFICES ASSUME relay'.draining, relay'.pc = "holding" PROVE IsError(relay'.event)
      OBVIOUS
    <3>2. Held' = 1 /\ relay.draining
      BY <1>1, <3>1, RelayTakes DEF Held
    <3>3. relay'.event = Head(raw) /\ IsError(Head(raw))
      BY <1>1, <3>2, RelayTakes
    <3> QED BY <3>3
  <2>6. relay'.draining => CtxDone'
    BY <1>1, <2>1, RelayTakes DEF RelayInv, CtxDone
  <2> QED BY <2>2, <2>3, <2>4, <2>5, <2>6 DEF RelayInv
<1>2. CASE RelaySends \/ RelayDrops
  <2>1. relay'.draining => CtxDone
    <3>1. CASE RelaySends
      BY <3>1 DEF RelaySends, RelayLetsGo, Types, Shapes, RelayInv
    <3>2. CASE RelayDrops
      BY <3>2 DEF RelayDrops, RelayLetsGo, Types, Shapes, RelayInv
    <3> QED BY <1>2, <3>1, <3>2
  <2>2. ASSUME NEW i \in 1 .. Len(raw') PROVE raw'[i] = emitted'[Relayed' + Held' + i]
    <3>1. i \in 1 .. Len(raw) /\ raw' = raw /\ emitted' = emitted
      BY <1>2, RelayGives
    <3>2. Relayed' + Held' + i = Relayed + Held + i
      BY <1>2, <3>1, RelayGives, Lengths
    <3> QED BY <3>1, <3>2 DEF RelayInv
  <2>3. Relayed' >= 0
    BY <1>2, RelayGives, Lengths DEF RelayInv
  <2> QED BY <1>2, <2>1, <2>2, <2>3, RelayGives DEF RelayInv, CtxDone
<1> QED BY <1>1, <1>2

LEMMA NextRelay == Types /\ ReleaseInv /\ RelayInv /\ [Next]_vars => RelayInv'
<1> SUFFICES ASSUME Types, ReleaseInv, RelayInv, [Next]_vars PROVE RelayInv'
  OBVIOUS
<1>1. Aside => Calm
  BY DEF Aside
<1> QED BY <1>1, StepKinds, OwnerIsCalm, CalmRelay, EmitRelay, RelayRelay

-----------------------------------------------------------------------------
(* What the aggregate and the channel to the consumer hold. *)

\* What is emitted later does not change the aggregate of the first k events.
LEMMA EmitKeeps ==
    ASSUME Types, NEW e, Emit(e), NEW k \in 0 .. Len(emitted)
    PROVE  AggregateOf(k)' = AggregateOf(k) /\ AbsorbedUpTo(k)' = AbsorbedUpTo(k)
<1>1. IsSequence(emitted) /\ k \in Nat /\ k <= Len(emitted)
  BY Lengths DEF Types, Shapes
<1>2. AggregateUpTo(Append(emitted, e), k) = AggregateUpTo(emitted, k)
  BY <1>1, AggregateKept
<1>3. emitted' = Append(emitted, e) /\ UNCHANGED <<owner, agg>>
  BY DEF Emit
<1>4. AggregateOf(k)' = AggregateOf(k)
  BY <1>2, <1>3 DEF AggregateOf
<1> QED BY <1>3, <1>4 DEF AbsorbedUpTo

LEMMA AsidePrefix == Types /\ PrefixInv /\ Aside => PrefixInv'
<1> SUFFICES ASSUME Types, PrefixInv, Aside PROVE PrefixInv'
  OBVIOUS
<1>1. UNCHANGED <<raw, out, emitted, agg, owner>> /\ relay'.draining = relay.draining
  BY DEF Aside, Calm
<1>2. Relayed' = Relayed
  BY DEF Aside, Calm, Held, Relayed
<1>3. \A place : Route(place) => Route(place)'
  BY <1>1, <1>2 DEF Route, ErrorBy, AggregateOf
<1>4. \A k : AbsorbedUpTo(k) => AbsorbedUpTo(k)'
  BY <1>1 DEF AbsorbedUpTo, AggregateOf
<1>5. Places' = Places /\ Consuming' = Consuming
  BY <1>1 DEF Places, Consuming
<1> QED BY <1>1, <1>3, <1>4, <1>5 DEF PrefixInv

LEMMA EmitPrefix == \A e : Types /\ RelayInv /\ PrefixInv /\ Emit(e) => PrefixInv'
<1> SUFFICES ASSUME NEW e, Types, RelayInv, PrefixInv, Emit(e) PROVE PrefixInv'
  OBVIOUS
<1>1. UNCHANGED <<out, agg, owner, relay>>
  BY DEF Emit
<1>2. /\ Len(emitted') = Len(emitted) + 1 /\ Relayed' = Relayed
      /\ \A i \in 1 .. Len(emitted) : emitted'[i] = emitted[i]
  BY EmitGrows
<1>3. Consuming' = Consuming
  BY <1>1 DEF Consuming
<1>4. CASE Consuming
  <2>1. PICK place \in Places : Route(place)
    BY <1>4 DEF PrefixInv
  <2>2. \A i \in 1 .. Len(out) + 1 : place[i] \in 0 .. Len(emitted)
    BY <2>1 DEF Places
  <2>3. place \in Places'
    <3>1. 0 .. Len(emitted) \subseteq 0 .. Len(emitted')
      BY <1>2, Lengths
    <3> QED BY <1>1, <2>1, <3>1 DEF Places
  <2>4. \A i \in 1 .. Len(out) + 1 : AggregateOf(place[i])' = AggregateOf(place[i])
    BY <2>2, EmitKeeps
  <2>5. ASSUME NEW i \in 1 .. Len(out), place[i + 1] >= 1
        PROVE  /\ AggregateOf(place[i + 1] - 1)' = AggregateOf(place[i + 1] - 1)
               /\ emitted'[place[i + 1]] = emitted[place[i + 1]]
    <3>1. i + 1 \in 1 .. Len(out) + 1
      BY Lengths
    <3>2. place[i + 1] - 1 \in 0 .. Len(emitted) /\ place[i + 1] \in 1 .. Len(emitted)
      BY <2>2, <2>5, <3>1, Lengths
    <3> QED BY <1>2, <3>2, EmitKeeps
  <2>6. AggregateOf(Relayed)' = AggregateOf(Relayed)
    <3>1. Relayed \in 0 .. Len(emitted)
      BY Lengths DEF RelayInv
    <3>2. AggregateUpTo(emitted', Relayed) = AggregateUpTo(emitted, Relayed)
      BY <3>1, Lengths, AggregateKept DEF Types, Shapes, Emit
    <3> QED BY <1>2, <3>2 DEF AggregateOf
  <2>7. \A i \in Nat : ErrorBy(i)' = ErrorBy(i)
    BY <1>1 DEF ErrorBy
  <2>8. Len(out) + 1 \in 1 .. Len(out) + 1 /\ Len(out) \in Nat /\ 1 \in 1 .. Len(out) + 1
    BY Lengths
  <2>9. agg = AggregateOf(place[1])'
    BY <2>1, <2>4, <2>8 DEF Route
  <2>10. ASSUME NEW i \in 1 .. Len(out)
         PROVE  \/ ErrorBy(i)'
                \/ /\ place[i + 1] >= 1 /\ out[i] = emitted'[place[i + 1]]
                   /\ AggregateOf(place[i + 1] - 1)' = AggregateOf(place[i])'
    <3>1. i \in 1 .. Len(out) + 1 /\ i \in Nat
      BY Lengths
    <3>2. CASE ErrorBy(i)
      BY <2>7, <3>1, <3>2
    <3>3. CASE ~ ErrorBy(i)
      <4>1. /\ place[i + 1] >= 1 /\ out[i] = emitted[place[i + 1]]
            /\ AggregateOf(place[i + 1] - 1) = AggregateOf(place[i])
        BY <2>1, <3>3 DEF Route
      <4> QED BY <2>4, <2>5, <3>1, <4>1
    <3> QED BY <3>2, <3>3
  <2>11. \/ relay'.draining
         \/ ErrorBy(Len(out))'
         \/ AggregateOf(Relayed)' = AggregateOf(place[Len(out) + 1])'
    BY <1>1, <2>1, <2>4, <2>6, <2>7, <2>8 DEF Route
  <2>12. Route(place)'
    BY <1>1, <2>9, <2>10, <2>11 DEF Route
  <2> QED BY <1>1, <1>3, <1>4, <2>3, <2>12 DEF PrefixInv
<1>5. CASE ~ Consuming
  <2>1. PICK k \in 0 .. Len(emitted) : AbsorbedUpTo(k)
    BY <1>5 DEF PrefixInv
  <2>2. AbsorbedUpTo(k)' /\ k \in 0 .. Len(emitted')
    BY <1>2, <2>1, EmitKeeps, Lengths
  <2> QED BY <1>1, <1>3, <1>5, <2>2 DEF PrefixInv
<1> QED BY <1>4, <1>5

\* An error adds nothing to the aggregate.
LEMMA ErrorsAddNothing ==
    ASSUME Types, NEW k \in Nat, k < Len(emitted), IsError(emitted[k + 1])
    PROVE  AggregateOf(k + 1) = AggregateOf(k)
BY AggregateGrows DEF AggregateOf, AbsorbPlain, Types, Shapes

\* Anything else is absorbed.
LEMMA EventsAdd ==
    ASSUME Types, NEW k \in Nat, k < Len(emitted), ~ IsError(emitted[k + 1])
    PROVE  AggregateOf(k + 1) = Absorb(AggregateOf(k), emitted[k + 1])
BY AggregateGrows DEF AggregateOf, AbsorbPlain, Types, Shapes

\* The relay takes an event from raw, or drops one it cannot deliver.
LEMMA RelayDropsPrefix ==
    Types /\ RelayInv /\ PrefixInv /\ (RelayReceives \/ RelayDrops) => PrefixInv'
<1> SUFFICES ASSUME Types, RelayInv, PrefixInv, RelayReceives \/ RelayDrops PROVE PrefixInv'
  OBVIOUS
<1>1. UNCHANGED <<out, agg, owner, emitted>>
  BY DEF RelayReceives, RelayDrops, RelayUnchanged
<1>2. Consuming' = Consuming /\ Places' = Places
  BY <1>1 DEF Consuming, Places
<1>3. \/ relay'.draining
      \/ ~ relay.draining /\ AggregateOf(Relayed') = AggregateOf(Relayed)
  <2>1. CASE RelayReceives
    BY <2>1, RelayTakes DEF Types, TypeInvariant
  <2>2. CASE RelayDrops /\ ~ relay'.draining
    <3>1. ~ relay.draining /\ IsError(relay.event)
      BY <2>2 DEF RelayDrops, RelayLetsGo, Types, Shapes, TypeInvariant, IsError
    <3>2. /\ Relayed' = Relayed + 1 /\ IsError(emitted[Relayed + 1]) /\ Relayed < Len(emitted)
      BY <2>2, <3>1, RelayGives
    <3>3. Relayed \in Nat
      BY Lengths DEF RelayInv
    <3> QED BY <3>1, <3>2, <3>3, ErrorsAddNothing
  <2> QED BY <2>1, <2>2
<1>4. ASSUME NEW place, Route(place) PROVE Route(place)'
  <2>1. \A i : ErrorBy(i)' = ErrorBy(i)
    BY <1>1 DEF ErrorBy
  <2>2. \A k : AggregateOf(k)' = AggregateOf(k)
    BY <1>1 DEF AggregateOf
  <2>3. \/ relay'.draining
        \/ ErrorBy(Len(out))
        \/ AggregateOf(Relayed') = AggregateOf(place[Len(out) + 1])
    BY <1>3, <1>4 DEF Route
  <2>4. AggregateOf(Relayed)' = AggregateOf(Relayed')
    BY <1>1 DEF AggregateOf
  <2> QED BY <1>1, <1>4, <2>1, <2>2, <2>3, <2>4 DEF Route
<1>5. \A k : AbsorbedUpTo(k) => AbsorbedUpTo(k)'
  BY <1>1 DEF AbsorbedUpTo, AggregateOf
<1> QED BY <1>1, <1>2, <1>4, <1>5 DEF PrefixInv

\* The relay delivers an event.
LEMMA RelaySendsPrefix == Types /\ RelayInv /\ PrefixInv /\ RelaySends => PrefixInv'
<1> SUFFICES ASSUME Types, RelayInv, PrefixInv, RelaySends PROVE PrefixInv'
  OBVIOUS
<1>1. UNCHANGED <<agg, owner, emitted>> /\ out' = Append(out, relay.event)
  BY DEF RelaySends, RelayUnchanged
<1>2. /\ Relayed' = Relayed + 1 /\ relay.event = emitted[Relayed + 1] /\ Relayed < Len(emitted)
      /\ relay.draining => IsError(relay.event)
  BY RelayGives
<1>3. /\ Len(out') = Len(out) + 1 /\ out'[Len(out) + 1] = relay.event
      /\ \A i \in 1 .. Len(out) : out'[i] = out[i]
  BY <1>1, AppendIsSequence DEF Types, Shapes
<1>4. Consuming' = Consuming
  BY <1>1 DEF Consuming
<1>5. Relayed \in Nat /\ Len(out) \in Nat /\ Len(emitted) \in Nat
  BY Lengths DEF RelayInv
<1>6. CASE Consuming
  <2>1. PICK place \in Places : Route(place)
    BY <1>6 DEF PrefixInv
  <2>10. PICK longer : longer = [i \in 1 .. Len(out) + 2 |->
                                   IF i = Len(out) + 2 THEN Relayed + 1 ELSE place[i]]
    OBVIOUS
  <2>2. longer \in Places'
    <3>1. \A i \in 1 .. Len(out) + 1 : place[i] \in 0 .. Len(emitted)
      BY <2>1 DEF Places
    <3>2. longer \in [1 .. Len(out) + 2 -> 0 .. Len(emitted)]
      BY <1>2, <1>5, <2>10, <3>1
    <3>3. Places' = [1 .. Len(out) + 2 -> 0 .. Len(emitted)]
      BY <1>1, <1>3, <1>5 DEF Places
    <3> QED BY <3>2, <3>3
  <2>3. /\ longer[Len(out) + 2] = Relayed + 1
        /\ \A i \in 1 .. Len(out) + 1 : longer[i] = place[i]
    BY <1>5, <2>10
  <2>4. \A i \in 1 .. Len(out) : ErrorBy(i) => ErrorBy(i)'
    BY <1>3, <1>5 DEF ErrorBy
  <2>5. agg = AggregateOf(longer[1])
    BY <1>5, <2>1, <2>3 DEF Route
  <2>6. ASSUME NEW i \in 1 .. Len(out) + 1
        PROVE  \/ ErrorBy(i)'
               \/ /\ longer[i + 1] >= 1 /\ out'[i] = emitted[longer[i + 1]]
                  /\ AggregateOf(longer[i + 1] - 1) = AggregateOf(longer[i])
    <3>1. CASE i \in 1 .. Len(out)
      <4>1. /\ longer[i] = place[i] /\ longer[i + 1] = place[i + 1] /\ out'[i] = out[i]
        BY <1>3, <1>5, <2>3, <3>1
      <4> QED BY <2>1, <2>4, <3>1, <4>1 DEF Route
    <3>2. CASE i = Len(out) + 1
      <4>1. longer[i] = place[Len(out) + 1] /\ longer[i + 1] = Relayed + 1
        <5>1. i \in 1 .. Len(out) + 1 /\ i + 1 = Len(out) + 2
          BY <1>5, <3>2
        <5> QED BY <2>3, <3>2, <5>1
      <4>2. CASE ErrorBy(Len(out))
        <5>1. PICK j \in 1 .. Len(out) : IsError(out[j])
          BY <4>2 DEF ErrorBy
        <5>2. j \in 1 .. i /\ IsError(out'[j])
          BY <1>3, <1>5, <3>2, <5>1
        <5> QED BY <5>2 DEF ErrorBy
      <4>3. CASE relay.draining
        <5>1. IsError(out'[i]) /\ i \in 1 .. i
          BY <1>2, <1>3, <1>5, <3>2, <4>3
        <5> QED BY <5>1 DEF ErrorBy
      <4>4. CASE AggregateOf(Relayed) = AggregateOf(place[Len(out) + 1])
        <5>1. out'[i] = emitted[Relayed + 1] /\ Relayed + 1 >= 1 /\ (Relayed + 1) - 1 = Relayed
          BY <1>2, <1>3, <1>5, <3>2
        <5> QED BY <4>1, <4>4, <5>1
      <4> QED BY <2>1, <4>2, <4>3, <4>4 DEF Route
    <3> QED BY <1>5, <3>1, <3>2
  <2>7. AggregateOf(Relayed + 1) = AggregateOf(longer[Len(out) + 2])
    BY <2>3
  <2>8. Route(longer)'
    <3>1. \A k : AggregateOf(k)' = AggregateOf(k)
      BY <1>1 DEF AggregateOf
    <3>2. AggregateOf(Relayed)' = AggregateOf(Relayed + 1)
      BY <1>1, <1>2 DEF AggregateOf
    <3>3. AggregateOf(longer[Len(out) + 1])' = AggregateOf(longer[Len(out) + 2])
      <4>1. Len(out') + 1 = Len(out) + 2
        BY <1>3, <1>5
      <4> QED BY <1>1, <4>1 DEF AggregateOf
    <3>4. AggregateOf(Relayed)' = AggregateOf(longer[Len(out) + 1])'
      BY <2>7, <3>2, <3>3
    <3> QED BY <1>1, <1>3, <2>5, <2>6, <3>1, <3>4 DEF Route
  <2> QED BY <1>1, <1>4, <1>6, <2>2, <2>8 DEF PrefixInv
<1>7. CASE ~ Consuming
  <2>1. \A k : AbsorbedUpTo(k) => AbsorbedUpTo(k)'
    BY <1>1 DEF AbsorbedUpTo, AggregateOf
  <2> QED BY <1>1, <1>4, <1>7, <2>1 DEF PrefixInv
<1> QED BY <1>6, <1>7

\* The aggregate has absorbed what comes before the next event of the channel.
LEMMA RouteStarts ==
    ASSUME Types, PrefixInv, Consuming
    PROVE  \E k \in 0 .. Len(emitted) : agg = AggregateOf(k)
<1>1. PICK place \in Places : Route(place)
  BY DEF PrefixInv
<1>2. place[1] \in 0 .. Len(emitted)
  <2>1. 1 \in 1 .. Len(out) + 1
    BY Lengths
  <2> QED BY <1>1, <2>1 DEF Places
<1> QED BY <1>1, <1>2 DEF Route

\* The consumer absorbs the next event of the channel.
LEMMA ReceivesPrefix == Types /\ RelayInv /\ PrefixInv /\ OwnerReceives => PrefixInv'
<1> SUFFICES ASSUME Types, RelayInv, PrefixInv, OwnerReceives PROVE PrefixInv'
  OBVIOUS
<1>1. /\ owner.pc = "ranging" /\ out # <<>> /\ out' = Tail(out)
      /\ relay' = relay /\ raw' = raw /\ emitted' = emitted
      /\ ReceivesError \/ ReceivesPlain
  BY Receives
<1>2. Consuming
  BY <1>1 DEF Consuming
<1>3. PICK place \in Places : Route(place)
  BY <1>2 DEF PrefixInv
<1>4. /\ Len(out) > 0 /\ Len(out') = Len(out) - 1 /\ Head(out) = out[1]
      /\ \A i \in 1 .. Len(out) - 1 : out'[i] = out[i + 1]
  BY <1>1, TailIsSequence DEF Types, Shapes
<1>5. Len(out) \in Nat /\ Len(emitted) \in Nat
  BY Lengths
<1>6. \A i \in 1 .. Len(out) + 1 : place[i] \in 0 .. Len(emitted)
  BY <1>3 DEF Places
<1>7. \A k : AggregateOf(k)' = AggregateOf(k)
  BY <1>1 DEF AggregateOf
<1>8. CASE ReceivesError
  <2>1. owner'.pc = "leaving" /\ owner'.exit = "error" /\ agg' = agg
    BY <1>8 DEF ReceivesError
  <2>2. PICK k \in 0 .. Len(emitted) : agg = AggregateOf(k)
    BY <1>2, RouteStarts
  <2>3. AbsorbedUpTo(k)'
    BY <1>7, <2>1, <2>2 DEF AbsorbedUpTo
  <2> QED BY <1>1, <2>1, <2>2, <2>3 DEF PrefixInv, Consuming
<1>9. CASE ReceivesPlain
  <2>1. ~ IsError(out[1]) /\ agg' = Absorb(agg, out[1])
    BY <1>4, <1>9 DEF ReceivesPlain
  <2>2. 1 \in 1 .. Len(out) /\ ~ ErrorBy(1)
    BY <1>4, <1>5, <2>1 DEF ErrorBy
  <2>3. /\ place[1 + 1] >= 1 /\ out[1] = emitted[place[1 + 1]]
        /\ AggregateOf(place[1 + 1] - 1) = AggregateOf(place[1])
    BY <1>3, <2>2 DEF Route
  <2>4. place[2] \in 1 .. Len(emitted) /\ place[2] - 1 \in Nat /\ (place[2] - 1) + 1 = place[2]
    <3>1. 2 \in 1 .. Len(out) + 1
      BY <1>4, <1>5
    <3> QED BY <1>5, <1>6, <2>3, <3>1
  <2>5. AggregateOf(place[2]) = Absorb(AggregateOf(place[2] - 1), emitted[place[2]])
    <3>1. place[2] - 1 < Len(emitted) /\ ~ IsError(emitted[(place[2] - 1) + 1])
      BY <1>5, <2>1, <2>3, <2>4
    <3> QED BY <2>4, <3>1, EventsAdd
  <2>6. agg' = AggregateOf(place[2])
    BY <1>3, <2>1, <2>3, <2>5 DEF Route
  <2>7. CASE UNCHANGED owner
    <3>1. PICK shorter : shorter = [i \in 1 .. Len(out) |-> place[i + 1]]
      OBVIOUS
    <3>2. shorter \in Places'
      <4>1. \A i \in 1 .. Len(out) : i + 1 \in 1 .. Len(out) + 1
        BY <1>5
      <4>2. shorter \in [1 .. Len(out) -> 0 .. Len(emitted)]
        BY <1>6, <3>1, <4>1
      <4>3. Places' = [1 .. Len(out) -> 0 .. Len(emitted)]
        <5>1. Len(out') + 1 = Len(out)
          BY <1>4, <1>5
        <5> QED BY <1>1, <5>1 DEF Places
      <4> QED BY <4>2, <4>3
    <3>3. ASSUME NEW i \in 1 .. Len(out), ErrorBy(i) PROVE ErrorBy(i - 1)'
      <4>1. PICK j \in 1 .. i : IsError(out[j])
        BY <3>3 DEF ErrorBy
      <4>2. j # 1
        BY <2>1, <4>1
      <4>3. j - 1 \in 1 .. i - 1 /\ j - 1 \in 1 .. Len(out) - 1 /\ (j - 1) + 1 = j
        BY <1>5, <4>1, <4>2
      <4>4. IsError(out'[j - 1])
        BY <1>4, <4>1, <4>3
      <4> QED BY <4>3, <4>4 DEF ErrorBy
    <3>4. ASSUME NEW i \in 1 .. Len(out')
          PROVE  \/ ErrorBy(i)'
                 \/ /\ shorter[i + 1] >= 1 /\ out'[i] = emitted[shorter[i + 1]]
                    /\ AggregateOf(shorter[i + 1] - 1) = AggregateOf(shorter[i])
      <4>1. /\ i + 1 \in 1 .. Len(out) /\ (i + 1) - 1 = i /\ out'[i] = out[i + 1]
            /\ shorter[i] = place[i + 1] /\ shorter[i + 1] = place[(i + 1) + 1]
        BY <1>4, <1>5, <3>1
      <4>2. CASE ErrorBy(i + 1)
        BY <3>3, <4>1, <4>2
      <4>3. CASE ~ ErrorBy(i + 1)
        <5>1. /\ place[(i + 1) + 1] >= 1 /\ out[i + 1] = emitted[place[(i + 1) + 1]]
              /\ AggregateOf(place[(i + 1) + 1] - 1) = AggregateOf(place[i + 1])
          BY <1>3, <4>1, <4>3 DEF Route
        <5> QED BY <4>1, <5>1
      <4> QED BY <4>2, <4>3
    <3>5. \/ relay.draining
          \/ \E j \in 1 .. Len(out') : IsError(out'[j])
          \/ AggregateOf(Relayed) = AggregateOf(shorter[Len(out') + 1])
      <4>1. shorter[Len(out') + 1] = place[Len(out) + 1] /\ Len(out) \in 1 .. Len(out)
            /\ Len(out') = Len(out) - 1
        <5>1. Len(out') + 1 = Len(out) /\ Len(out) \in 1 .. Len(out)
          BY <1>4, <1>5
        <5> QED BY <1>4, <3>1, <5>1
      <4>2. CASE ErrorBy(Len(out))
        <5>1. PICK n \in 1 .. Len(out) : n = Len(out)
          BY <4>1
        <5>2. ErrorBy(n - 1)' /\ n - 1 = Len(out')
          BY <3>3, <4>1, <4>2, <5>1
        <5> QED BY <5>2 DEF ErrorBy
      <4> QED BY <1>3, <4>1, <4>2 DEF Route
    <3>6. agg' = AggregateOf(shorter[1])
      <4>1. shorter[1] = place[2]
        BY <2>2, <3>1
      <4> QED BY <2>6, <4>1
    <3>7. Relayed' = Relayed
      BY <1>1 DEF Relayed, Held
    <3>8. AggregateOf(Relayed)' = AggregateOf(Relayed)
      BY <1>1, <3>7 DEF AggregateOf
    <3>9. AggregateOf(shorter[Len(out) + 1])' = AggregateOf(shorter[Len(out') + 1])
      BY <1>1 DEF AggregateOf
    <3>10. \/ relay'.draining
           \/ ErrorBy(Len(out))'
           \/ AggregateOf(Relayed)' = AggregateOf(shorter[Len(out) + 1])'
      <4>1. (\E j \in 1 .. Len(out') : IsError(out'[j])) => ErrorBy(Len(out))'
        BY DEF ErrorBy
      <4> QED BY <1>1, <3>5, <3>8, <3>9, <4>1
    <3>11. Route(shorter)'
      BY <1>1, <1>7, <3>4, <3>6, <3>10 DEF Route
    <3> QED BY <1>1, <1>2, <2>7, <3>2, <3>11 DEF PrefixInv, Consuming
  <2>8. CASE owner'.pc = "leaving" /\ owner'.exit = "break"
    <3>1. AbsorbedUpTo(place[2])'
      BY <1>7, <2>6, <2>8 DEF AbsorbedUpTo
    <3>2. place[2] \in 0 .. Len(emitted')
      BY <1>1, <1>5, <2>4
    <3> QED BY <2>8, <3>1, <3>2 DEF PrefixInv, Consuming
  <2> QED BY <1>9, <2>7, <2>8, PlainGoesOnOrBreaks
<1> QED BY <1>1, <1>8, <1>9

LEMMA OwnerPrefix == Types /\ RelayInv /\ PrefixInv /\ ReleaseInv /\ OwnerSteps => PrefixInv'
<1> SUFFICES ASSUME Types, RelayInv, PrefixInv, ReleaseInv, OwnerSteps PROVE PrefixInv'
  OBVIOUS
<1>1. Consuming => \E k \in 0 .. Len(emitted) : agg = AggregateOf(k)
  BY RouteStarts
<1>2. CASE OwnerReceives
  BY <1>2, ReceivesPrefix
<1>3. CASE ~ OwnerReceives
  <2>1. emitted' = emitted /\ raw' = raw /\ out' = out
    BY <1>3 DEF OwnerSteps, Start, Retire, OwnerSeesCancel, OwnerSeesEnd, Release
  <2>2. \A k : AggregateOf(k)' = AggregateOf(k)
    BY <2>1 DEF AggregateOf
  <2>3. CASE Start \/ Retire
    <3>1. CASE owner'.pc \in {"ranging", "retired"} /\ agg' = agg
      <4>1. Consuming /\ Consuming' /\ owner'.pc # "leaving"
        BY <2>3, <3>1 DEF Consuming, Start, Retire
      <4>2. relay'.draining = relay.draining
        BY <2>3 DEF Start, Retire, Types, Shapes
      <4>3. Relayed' = Relayed
        BY <2>1, <2>3 DEF Start, Retire, ReleaseInv, Relayed, Held, Types, Shapes
      <4>4. \A place : Route(place) => Route(place)'
        BY <2>1, <3>1, <4>2, <4>3 DEF Route, ErrorBy, AggregateOf
      <4>5. Places' = Places
        BY <2>1 DEF Places
      <4> QED BY <4>1, <4>4, <4>5 DEF PrefixInv
    <3>2. CASE owner'.pc = "left" /\ owner'.exit = "start" /\ agg' = agg
      <4>1. PICK k \in 0 .. Len(emitted) : agg = AggregateOf(k)
        BY <1>1, <2>3 DEF Consuming, Start, Retire
      <4>2. AbsorbedUpTo(k)'
        BY <2>2, <3>2, <4>1 DEF AbsorbedUpTo
      <4> QED BY <2>1, <3>2, <4>2 DEF PrefixInv, Consuming
    <3> QED BY <2>3, <3>1, <3>2 DEF Start, Retire, Types, Shapes
  <2>4. CASE OwnerSeesCancel \/ OwnerSeesEnd
    <3>1. /\ owner.pc = "ranging" /\ owner'.pc = "leaving" /\ owner'.exit \in {"cancel", "end"}
          /\ agg' = agg
      <4>1. CASE OwnerSeesCancel
        BY <4>1 DEF OwnerSeesCancel, Leave
      <4>2. CASE OwnerSeesEnd
        <5>1. owner' = [pc |-> "leaving", state |-> "completed", err |-> "", exit |-> "end"]
          BY <4>2 DEF OwnerSeesEnd, Leave
        <5> QED BY <4>2, <5>1 DEF OwnerSeesEnd
      <4> QED BY <2>4, <4>1, <4>2
    <3>2. PICK k \in 0 .. Len(emitted) : agg = AggregateOf(k)
      BY <1>1, <3>1 DEF Consuming
    <3>3. AbsorbedUpTo(k)'
      BY <2>2, <3>1, <3>2 DEF AbsorbedUpTo
    <3> QED BY <2>1, <3>1, <3>3 DEF PrefixInv, Consuming
  <2>5. CASE Release
    <3>1. /\ owner.pc = "leaving" /\ owner'.pc = "left" /\ owner'.exit = owner.exit
          /\ agg' = FlushToolCalls(agg) /\ owner.exit # "start"
      BY <2>5 DEF Release, Types, Shapes, PrefixInv
    <3>2. PICK k \in 0 .. Len(emitted) : agg = AggregateOf(k)
      BY <3>1 DEF PrefixInv, Consuming, AbsorbedUpTo
    <3>3. AbsorbedUpTo(k)'
      BY <2>2, <3>1, <3>2 DEF AbsorbedUpTo
    <3> QED BY <2>1, <3>1, <3>3 DEF PrefixInv, Consuming
  <2> QED BY <1>3, <2>3, <2>4, <2>5 DEF OwnerSteps
<1> QED BY <1>2, <1>3

LEMMA NextPrefix ==
    Types /\ ReleaseInv /\ RelayInv /\ PrefixInv /\ [Next]_vars => PrefixInv'
BY StepKinds, AsidePrefix, EmitPrefix, RelayDropsPrefix, RelaySendsPrefix, OwnerPrefix

-----------------------------------------------------------------------------
(* With a live context nothing is dropped. *)

\* What holds of a range that has been left depends on what was emitted before.
LEMMA LeftKept ==
    ASSUME emitted' = emitted, owner' = owner, agg' = agg,
           decoder.pc = "ended" => decoder'.pc = "ended"
    PROVE  \A k : LiveLeft(k) => LiveLeft(k)'
BY DEF LiveLeft, NoErrorUpTo, AggregateOf

LEMMA AsideLive == Types /\ LiveInv /\ Aside => LiveInv'
<1> SUFFICES ASSUME Types, LiveInv, Aside PROVE LiveInv'
  OBVIOUS
<1>1. /\ emitted' = emitted /\ out' = out /\ agg' = agg /\ owner' = owner
      /\ relay'.draining = relay.draining
      /\ decoder.pc = "ended" => decoder'.pc = "ended"
  BY DEF Aside, Calm
<1>2. Absorbed' = Absorbed
  BY DEF Aside, Calm, Held, Relayed, Absorbed
<1>3. CtxDone => CtxDone'
  BY DEF Aside, Calm
<1>4. LiveConsuming => LiveConsuming'
  BY <1>1, <1>2 DEF LiveConsuming, NoErrorUpTo, AggregateOf
<1> QED BY <1>1, <1>3, <1>4, LeftKept DEF LiveInv, Consuming, CtxDone

LEMMA EmitLive == \A e : Types /\ RelayInv /\ LiveInv /\ Emit(e) => LiveInv'
<1> SUFFICES ASSUME NEW e, Types, RelayInv, LiveInv, Emit(e) PROVE LiveInv'
  OBVIOUS
<1>1. /\ out' = out /\ agg' = agg /\ owner' = owner /\ relay' = relay /\ ctx' = ctx
      /\ decoder.pc # "ended"
  BY DEF Emit
<1>2. /\ Len(emitted') = Len(emitted) + 1 /\ Relayed' = Relayed
      /\ \A i \in 1 .. Len(emitted) : emitted'[i] = emitted[i]
  BY EmitGrows
<1>3. Relayed \in 0 .. Len(emitted) /\ Len(out) \in Nat /\ Len(emitted) \in Nat
  BY Lengths DEF RelayInv
<1>4. ASSUME LiveConsuming PROVE LiveConsuming'
  <2>1. Absorbed' = Absorbed /\ Absorbed \in 0 .. Len(emitted)
    BY <1>1, <1>2, <1>3, <1>4 DEF Absorbed, LiveConsuming
  <2>2. ASSUME NEW i \in 1 .. Len(out) PROVE out[i] = emitted'[Absorbed + i]
    <3>1. Absorbed + i \in 1 .. Len(emitted)
      BY <1>3, <2>1 DEF Absorbed
    <3> QED BY <1>2, <1>4, <3>1 DEF LiveConsuming
  <2>3. PICK k \in 0 .. Len(emitted) : k = Absorbed
    BY <2>1
  <2>4. NoErrorUpTo(k)'
    BY <1>2, <1>3, <1>4, <2>3 DEF NoErrorUpTo, LiveConsuming
  <2>5. AggregateOf(k)' = AggregateOf(k)
    BY EmitKeeps
  <2>6. NoErrorUpTo(Absorbed)' /\ AggregateOf(Absorbed)' = AggregateOf(Absorbed)
    BY <2>1, <2>3, <2>4, <2>5 DEF NoErrorUpTo, AggregateOf
  <2> QED BY <1>1, <1>4, <2>1, <2>2, <2>6 DEF LiveConsuming
<1>5. ASSUME NEW k \in 0 .. Len(emitted), LiveLeft(k) PROVE k \in 0 .. Len(emitted') /\ LiveLeft(k)'
  <2>1. owner.exit # "end"
    BY <1>1, <1>5 DEF LiveLeft
  <2>2. AggregateOf(k)' = AggregateOf(k)
    BY EmitKeeps
  <2>3. NoErrorUpTo(k)'
    BY <1>2, <1>3, <1>5 DEF NoErrorUpTo, LiveLeft
  <2>4. owner.exit = "error" =>
          /\ k < Len(emitted') /\ IsError(emitted'[k + 1]) /\ owner.err = emitted'[k + 1].cause
    <3>1. owner.exit = "error" => k + 1 \in 1 .. Len(emitted)
      BY <1>3, <1>5 DEF LiveLeft
    <3> QED BY <1>2, <1>3, <1>5, <3>1 DEF LiveLeft
  <2>5. k \in 0 .. Len(emitted')
    BY <1>2, <1>3
  <2> QED BY <1>1, <1>5, <2>1, <2>2, <2>3, <2>4, <2>5 DEF LiveLeft
<1> QED BY <1>1, <1>4, <1>5 DEF LiveInv, Consuming, CtxDone

LEMMA RelayLive ==
    Types /\ RelayInv /\ LiveInv /\ (RelayReceives \/ RelaySends \/ RelayDrops) => LiveInv'
<1> SUFFICES ASSUME Types, RelayInv, LiveInv, RelayReceives \/ RelaySends \/ RelayDrops
             PROVE LiveInv'
  OBVIOUS
<1>1. emitted' = emitted /\ owner' = owner /\ agg' = agg /\ ctx' = ctx /\ decoder' = decoder
  BY DEF RelayReceives, RelaySends, RelayDrops, RelayUnchanged
<1>2. Relayed \in 0 .. Len(emitted) /\ Len(out) \in Nat /\ Len(emitted) \in Nat
  BY Lengths DEF RelayInv
<1>3. ASSUME ctx = "live", LiveConsuming PROVE LiveConsuming'
  <2>1. CASE RelayReceives
    <3>1. out' = out /\ Relayed' = Relayed /\ ~ relay'.draining
      BY <1>3, <2>1, RelayTakes DEF LiveConsuming, RelayReceives
    <3>2. Absorbed' = Absorbed
      BY <3>1 DEF Absorbed
    <3> QED BY <1>1, <1>3, <3>1, <3>2 DEF LiveConsuming, NoErrorUpTo, AggregateOf
  <2>2. CASE RelaySends
    <3>1. out' = Append(out, relay.event) /\ ~ relay'.draining
      BY <1>3, <2>2 DEF RelaySends, RelayLetsGo, Types, Shapes, LiveConsuming
    <3>2. Relayed' = Relayed + 1 /\ relay.event = emitted[Relayed + 1]
      BY <2>2, RelayGives
    <3>3. /\ Len(out') = Len(out) + 1 /\ out'[Len(out) + 1] = relay.event
          /\ \A i \in 1 .. Len(out) : out'[i] = out[i]
      BY <3>1, AppendIsSequence DEF Types, Shapes
    <3>4. Absorbed' = Absorbed /\ Absorbed \in Int /\ Relayed = Absorbed + Len(out)
      BY <1>2, <3>2, <3>3 DEF Absorbed
    <3>5. ASSUME NEW i \in 1 .. Len(out') PROVE out'[i] = emitted[Absorbed + i]
      <4>1. CASE i = Len(out) + 1
        <5>1. Absorbed + i = Relayed + 1
          BY <1>2, <3>4, <4>1
        <5> QED BY <3>2, <3>3, <4>1, <5>1
      <4>2. CASE i \in 1 .. Len(out)
        BY <1>3, <3>3, <4>2 DEF LiveConsuming
      <4> QED BY <1>2, <3>3, <4>1, <4>2
    <3> QED BY <1>1, <1>3, <3>1, <3>4, <3>5 DEF LiveConsuming, NoErrorUpTo, AggregateOf
  <2>3. CASE RelayDrops
    BY <1>3, <2>3 DEF RelayDrops, CtxDone, LiveConsuming
  <2> QED BY <2>1, <2>2, <2>3
<1> QED BY <1>1, <1>3, LeftKept DEF LiveInv, Consuming, CtxDone

\* The consumer receives an event while the context is live.
LEMMA ReceivesLive == Types /\ RelayInv /\ LiveInv /\ OwnerReceives => LiveInv'
<1> SUFFICES ASSUME Types, RelayInv, LiveInv, OwnerReceives PROVE LiveInv'
  OBVIOUS
<1>1. /\ owner.pc = "ranging" /\ out # <<>> /\ out' = Tail(out)
      /\ relay' = relay /\ raw' = raw /\ emitted' = emitted /\ decoder' = decoder
      /\ ReceivesError \/ ReceivesPlain
  BY Receives
<1>2. ctx' = "live" => ctx = "live"
  BY <1>1 DEF ReceivesError, ReceivesPlain
<1>3. owner'.pc \in {"ranging", "leaving"}
  <2>1. CASE ReceivesError
    BY <2>1 DEF ReceivesError
  <2>2. CASE ReceivesPlain
    BY <1>1, <2>2, PlainGoesOnOrBreaks
  <2> QED BY <1>1, <2>1, <2>2
<1>4. SUFFICES ASSUME ctx = "live"
               PROVE  /\ owner'.pc = "ranging" => LiveConsuming'
                      /\ owner'.pc = "leaving" => \E k \in 0 .. Len(emitted) : LiveLeft(k)'
  BY <1>1, <1>2, <1>3 DEF LiveInv, Consuming
<1>5. LiveConsuming
  BY <1>1, <1>4 DEF LiveInv, Consuming
<1>6. Relayed \in 0 .. Len(emitted) /\ Len(out) \in Nat /\ Len(emitted) \in Nat
  BY Lengths DEF RelayInv
<1>7. /\ Len(out) > 0 /\ Len(out') = Len(out) - 1 /\ Head(out) = out[1]
      /\ \A i \in 1 .. Len(out) - 1 : out'[i] = out[i + 1]
  BY <1>1, TailIsSequence DEF Types, Shapes
<1>8. PICK k \in 0 .. Len(emitted) : k = Absorbed
  BY <1>5, <1>6, <1>7 DEF Absorbed, LiveConsuming
<1>9. k < Len(emitted) /\ k + 1 \in 1 .. Len(emitted) /\ Head(out) = emitted[k + 1]
  <2>1. 1 \in 1 .. Len(out)
    BY <1>6, <1>7
  <2>2. k + Len(out) = Relayed
    BY <1>6, <1>8 DEF Absorbed
  <2> QED BY <1>5, <1>6, <1>7, <1>8, <2>1, <2>2 DEF LiveConsuming
<1>10. NoErrorUpTo(k) /\ agg = AggregateOf(k)
  BY <1>5, <1>8 DEF LiveConsuming
<1>11. CASE ReceivesError
  <2>1. /\ owner'.pc = "leaving" /\ owner'.exit = "error" /\ owner'.err = Head(out).cause
        /\ agg' = agg /\ IsError(Head(out))
    BY <1>11 DEF ReceivesError
  <2>2. LiveLeft(k)'
    BY <1>1, <1>9, <1>10, <2>1 DEF LiveLeft, NoErrorUpTo, AggregateOf
  <2> QED BY <2>1, <2>2
<1>12. CASE ReceivesPlain
  <2>1. ~ IsError(emitted[k + 1]) /\ agg' = Absorb(agg, emitted[k + 1])
    BY <1>9, <1>12 DEF ReceivesPlain
  <2>2. agg' = AggregateOf(k + 1)
    BY <1>9, <1>10, <2>1, EventsAdd
  <2>3. NoErrorUpTo(k + 1)
    BY <1>10, <2>1 DEF NoErrorUpTo
  <2>4. CASE UNCHANGED owner
    <3>1. Relayed' = Relayed
      BY <1>1 DEF Relayed, Held
    <3>2. Absorbed' = k + 1
      BY <1>6, <1>7, <1>8, <3>1 DEF Absorbed
    <3>3. ASSUME NEW i \in 1 .. Len(out') PROVE out'[i] = emitted[(k + 1) + i]
      <4>1. i \in 1 .. Len(out) - 1 /\ i + 1 \in 1 .. Len(out) /\ k + (i + 1) = (k + 1) + i
        BY <1>6, <1>7
      <4> QED BY <1>5, <1>7, <1>8, <4>1 DEF LiveConsuming
    <3>4. LiveConsuming'
      BY <1>1, <1>5, <2>2, <2>3, <3>2, <3>3 DEF LiveConsuming, NoErrorUpTo, AggregateOf
    <3> QED BY <1>1, <2>4, <3>4
  <2>5. CASE owner'.pc = "leaving" /\ owner'.exit = "break"
    <3>1. LiveLeft(k + 1)'
      BY <1>1, <2>2, <2>3, <2>5 DEF LiveLeft, NoErrorUpTo, AggregateOf
    <3>2. k + 1 \in 0 .. Len(emitted)
      BY <1>9
    <3> QED BY <2>5, <3>1, <3>2
  <2> QED BY <1>12, <2>4, <2>5, PlainGoesOnOrBreaks
<1> QED BY <1>1, <1>11, <1>12

LEMMA OwnerLive == Types /\ ReleaseInv /\ RelayInv /\ LiveInv /\ OwnerSteps => LiveInv'
<1> SUFFICES ASSUME Types, ReleaseInv, RelayInv, LiveInv, OwnerSteps PROVE LiveInv'
  OBVIOUS
<1>1. CASE OwnerReceives
  BY <1>1, ReceivesLive
<1>2. CASE Start \/ Retire
  <2>1. /\ emitted' = emitted /\ raw' = raw /\ out' = out /\ agg' = agg /\ Consuming
        /\ relay'.draining = relay.draining
    BY <1>2 DEF Start, Retire, Consuming, Types, Shapes
  <2>2. Relayed' = Relayed
    BY <1>2, <2>1 DEF Start, Retire, ReleaseInv, Relayed, Held, Types, Shapes
  <2>3. LiveConsuming => LiveConsuming'
    BY <2>1, <2>2 DEF LiveConsuming, NoErrorUpTo, AggregateOf, Absorbed
  <2>4. /\ owner'.pc # "leaving"
        /\ ctx' = "live" => ctx = "live"
        /\ owner'.pc = "left" => CtxDone'
    <3>1. CASE Start
      BY <3>1 DEF Start, CtxDone, Types, Shapes
    <3>2. CASE Retire
      BY <3>2 DEF Retire, CtxDone, Types, Shapes
    <3> QED BY <1>2, <3>1, <3>2
  <2> QED BY <2>1, <2>3, <2>4 DEF LiveInv
<1>3. CASE OwnerSeesCancel
  <2>1. owner'.pc = "leaving" /\ ctx' # "live"
    BY <1>3 DEF OwnerSeesCancel, Leave, CtxDone
  <2> QED BY <2>1 DEF LiveInv, Consuming
<1>4. CASE Release
  <2>1. owner'.pc = "left" /\ ctx' # "live"
    BY <1>4 DEF Release, CtxDone, Types, Shapes
  <2> QED BY <2>1 DEF LiveInv, Consuming, CtxDone
<1>5. CASE OwnerSeesEnd
  <2>1. /\ owner' = [pc |-> "leaving", state |-> "completed", err |-> "", exit |-> "end"]
        /\ emitted' = emitted /\ agg' = agg /\ ctx' = ctx /\ decoder' = decoder
        /\ owner.pc = "ranging" /\ out = <<>> /\ relay.pc = "ended"
    BY <1>5 DEF OwnerSeesEnd, Leave
  <2>2. owner'.pc = "leaving" /\ owner'.exit = "end"
    BY <2>1
  <2>3. SUFFICES ASSUME ctx = "live" PROVE \E k \in 0 .. Len(emitted') : LiveLeft(k)'
    BY <2>1, <2>2 DEF LiveInv, Consuming
  <2>4. LiveConsuming
    BY <2>1, <2>3 DEF LiveInv, Consuming
  <2>5. decoder.pc = "ended" /\ raw = <<>>
    BY <2>1 DEF ReleaseInv
  <2>6. Absorbed = Len(emitted) /\ Len(emitted) \in Nat
    <3>1. Len(raw) = 0 /\ Len(out) = 0 /\ Held = 0
      BY <2>1, <2>5, EmptyIsSequence DEF Held
    <3> QED BY <3>1, Lengths DEF Absorbed
  <2>7. NoErrorUpTo(Len(emitted)) /\ agg = AggregateOf(Len(emitted))
    BY <2>4, <2>6 DEF LiveConsuming
  <2>9. PICK k \in 0 .. Len(emitted) : k = Len(emitted)
    BY <2>6
  <2>10. LiveLeft(k)'
    BY <2>1, <2>2, <2>5, <2>7, <2>9 DEF LiveLeft, NoErrorUpTo, AggregateOf
  <2> QED BY <2>1, <2>10
<1> QED BY <1>1, <1>2, <1>3, <1>4, <1>5 DEF OwnerSteps

LEMMA NextLive ==
    Types /\ ReleaseInv /\ RelayInv /\ LiveInv /\ [Next]_vars => LiveInv'
BY StepKinds, AsideLive, EmitLive, RelayLive, OwnerLive

-----------------------------------------------------------------------------
(* The invariant holds, and what it says of the properties. *)

\* Before anything is sent the aggregate is that of no events.
LEMMA InitRoutes == Init => RelayInv /\ PrefixInv /\ LiveInv
<1> SUFFICES ASSUME Init PROVE RelayInv /\ PrefixInv /\ LiveInv
  OBVIOUS
<1>1. /\ raw = <<>> /\ out = <<>> /\ emitted = <<>> /\ ctx = "live" /\ agg = EmptyAggregate
      /\ relay.pc = "none" /\ ~ relay.draining /\ owner.pc = "new"
  BY DEF Init
<1>2. Len(raw) = 0 /\ Len(out) = 0 /\ Len(emitted) = 0 /\ Held = 0
  BY <1>1, EmptyIsSequence DEF Held
<1>3. Relayed = 0
  BY <1>2 DEF Relayed
<1>4. Absorbed = 0
  BY <1>2, <1>3 DEF Absorbed
<1>5. AggregateOf(0) = EmptyAggregate
  BY <1>1, EmptyIsSequence, AggregateStarts DEF AggregateOf
<1>6. RelayInv
  BY <1>1, <1>2, <1>3 DEF RelayInv
<1>7. PICK place : place = [i \in 1 .. 1 |-> 0]
  OBVIOUS
<1>8. place \in Places /\ Route(place)
  <2>1. place \in [1 .. 1 -> 0 .. 0] /\ place[1] = 0
    BY <1>7
  <2>2. Places = [1 .. 1 -> 0 .. 0]
    BY <1>2 DEF Places
  <2>3. agg = AggregateOf(place[1]) /\ AggregateOf(Relayed) = AggregateOf(place[Len(out) + 1])
    BY <1>1, <1>2, <1>3, <1>5, <2>1
  <2> QED BY <1>2, <2>1, <2>2, <2>3 DEF Route
<1>9. PrefixInv
  BY <1>1, <1>8 DEF PrefixInv, Consuming
<1>10. LiveInv
  <2>1. NoErrorUpTo(0)
    BY DEF NoErrorUpTo
  <2>2. LiveConsuming
    BY <1>1, <1>2, <1>4, <1>5, <2>1 DEF LiveConsuming
  <2> QED BY <1>1, <2>2 DEF LiveInv, CtxDone
<1> QED BY <1>6, <1>9, <1>10

LEMMA InitInd == Init => IndInv
<1>1. ASSUME Init PROVE ReleaseInv
  <2>1. decoder.pc = "none" /\ relay.pc = "none"
    BY <1>1 DEF Init
  <2> QED BY <2>1 DEF ReleaseInv
<1> QED BY <1>1, InitTypes, InitRoutes DEF IndInv, Types

LEMMA NextInd == IndInv /\ [Next]_vars => IndInv'
BY NextTypes, NextRelease, NextRelay, NextPrefix, NextLive DEF IndInv, Types

\* Everything the properties rest on holds of every state.
THEOREM Invariance == Spec => []IndInv
<1>1. Init => IndInv
  BY InitInd
<1>2. IndInv /\ [Next]_vars => IndInv'
  BY NextInd
<1> QED BY <1>1, <1>2, PTL DEF Spec

\* The places of the errors among the emitted events.
LEMMA BeforeErrorIs ==
    ASSUME Types, NEW k \in 0 .. Len(emitted), NoErrorUpTo(k)
    PROVE  /\ k <= BeforeError
           /\ k < Len(emitted) /\ IsError(emitted[k + 1]) => BeforeError = k
           /\ k = Len(emitted) => BeforeError = k
<1> DEFINE errors == {i \in DOMAIN emitted : IsError(emitted[i])}
<1>1. DOMAIN emitted = 1 .. Len(emitted) /\ Len(emitted) \in Nat
  BY SequenceShape DEF Types, Shapes
<1>2. BeforeError = IF errors = {} THEN Len(emitted)
                    ELSE (CHOOSE i \in errors : \A j \in errors : i <= j) - 1
  BY DEF BeforeError
<1>3. errors \subseteq 1 .. Len(emitted) /\ errors \subseteq Nat
  BY <1>1
<1>4. \A i \in errors : k < i
  BY <1>1 DEF NoErrorUpTo
<1>5. k < Len(emitted) /\ IsError(emitted[k + 1]) => k + 1 \in errors
  BY <1>1
<1> HIDE DEF errors
<1>6. CASE errors = {}
  <2>1. BeforeError = Len(emitted) /\ k <= Len(emitted)
    BY <1>1, <1>2, <1>6
  <2>2. ~ (k < Len(emitted) /\ IsError(emitted[k + 1]))
    BY <1>5, <1>6
  <2> QED BY <2>1, <2>2
<1>7. CASE errors # {}
  <2>1. PICK n \in errors : \A j \in errors : n <= j
    BY <1>3, <1>7, LeastNatural
  <2>2. PICK first \in errors :
          first = (CHOOSE i \in errors : \A j \in errors : i <= j) /\ \A j \in errors : first <= j
    BY <2>1
  <2>3. BeforeError = first - 1
    BY <1>2, <1>7, <2>2
  <2>4. k < first /\ first \in 1 .. Len(emitted)
    BY <1>3, <1>4
  <2>5. k < Len(emitted) /\ IsError(emitted[k + 1]) => first <= k + 1
    BY <1>5, <2>2
  <2>6. k <= first - 1 /\ first - 1 < Len(emitted)
    BY <1>1, <2>4
  <2>7. k < Len(emitted) /\ IsError(emitted[k + 1]) => first - 1 = k
    BY <1>1, <2>4, <2>5
  <2>8. PICK last \in Nat : last = Len(emitted)
    BY <1>1
  <2>9. k < last
    BY <1>1, <2>4, <2>8
  <2>10. k # last
    BY <2>9
  <2> QED BY <2>3, <2>6, <2>7, <2>8, <2>10
<1> QED BY <1>6, <1>7

\* Types and the capacities of the two channels.
THEOREM TypeCorrect == Spec => []TypeInvariant
<1>1. IndInv => TypeInvariant
  BY DEF IndInv
<1> QED BY <1>1, Invariance, PTL

\* Whoever sees the returned channel close sees the body released and the decoder
\* gone (transport/stream.go:65).
THEOREM BodyIsReleasedFirst == Spec => []BodyReleasedFirst
<1>1. IndInv => BodyReleasedFirst
  BY DEF IndInv, ReleaseInv, BodyReleasedFirst
<1> QED BY <1>1, Invariance, PTL

\* The aggregate is always that of a prefix of what the decoder sent, and with a
\* live context of one without an error (transport/stream.go:103,
\* llm/streaming_response.go:101).
THEOREM AggregatesArePrefixes == Spec => []AggregateIsPrefix
<1>1. ASSUME IndInv PROVE AggregateIsPrefix
  <2> USE <1>1 DEF IndInv
  <2>1. Types
    BY DEF Types
  <2>2. Relayed \in 0 .. Len(emitted) /\ Len(out) \in Nat /\ Len(emitted) \in Nat
    BY <2>1, Lengths DEF RelayInv
  <2>3. CASE ctx = "live" /\ Consuming
    <3>1. LiveConsuming
      BY <2>3 DEF LiveInv
    <3>2. Absorbed \in 0 .. Len(emitted)
      BY <2>2, <3>1 DEF LiveConsuming, Absorbed
    <3>3. Absorbed <= BeforeError
      BY <2>1, <3>1, <3>2, BeforeErrorIs DEF LiveConsuming
    <3>4. AbsorbedUpTo(Absorbed)
      BY <2>3, <3>1 DEF LiveConsuming, AbsorbedUpTo, Consuming
    <3> QED BY <3>2, <3>3, <3>4 DEF AggregateIsPrefix
  <2>4. CASE ctx = "live" /\ ~ Consuming
    <3>1. owner.pc = "leaving"
      BY <2>4 DEF LiveInv, CtxDone, Consuming, TypeInvariant
    <3>2. PICK k \in 0 .. Len(emitted) : LiveLeft(k)
      BY <2>4, <3>1 DEF LiveInv
    <3>3. k <= BeforeError
      BY <2>1, <3>2, BeforeErrorIs DEF LiveLeft
    <3>4. AbsorbedUpTo(k)
      BY <3>1, <3>2 DEF LiveLeft, AbsorbedUpTo
    <3> QED BY <3>3, <3>4 DEF AggregateIsPrefix
  <2>5. CASE ctx # "live" /\ Consuming
    <3>1. PICK k \in 0 .. Len(emitted) : agg = AggregateOf(k)
      BY <2>1, <2>5, RouteStarts
    <3>2. AbsorbedUpTo(k)
      BY <2>5, <3>1 DEF AbsorbedUpTo, Consuming
    <3> QED BY <2>5, <3>2 DEF AggregateIsPrefix
  <2>6. CASE ctx # "live" /\ ~ Consuming
    BY <2>6 DEF PrefixInv, AggregateIsPrefix
  <2> QED BY <2>3, <2>4, <2>5, <2>6
<1> QED BY <1>1, Invariance, PTL

\* With a live context a range that ends has absorbed every event, and one that
\* stops on an error reports the first, after everything before it
\* (llm/streaming_response.go:101-140).
THEOREM NothingIsLostSilently == Spec => []NoSilentLoss
<1>1. ASSUME IndInv PROVE NoSilentLoss
  <2> USE <1>1 DEF IndInv
  <2>1. Types
    BY DEF Types
  <2>2. SUFFICES ASSUME owner.pc = "leaving", ctx = "live"
                 PROVE  /\ owner.exit = "end" =>
                             /\ decoder.pc = "ended" /\ BeforeError = Len(emitted)
                             /\ agg = AggregateOf(Len(emitted))
                        /\ owner.exit = "error" =>
                             /\ BeforeError < Len(emitted)
                             /\ owner.err = emitted[BeforeError + 1].cause
                             /\ agg = AggregateOf(BeforeError)
    BY DEF NoSilentLoss
  <2>3. PICK k \in 0 .. Len(emitted) : LiveLeft(k)
    BY <2>2 DEF LiveInv
  <2>4. /\ k < Len(emitted) /\ IsError(emitted[k + 1]) => BeforeError = k
        /\ k = Len(emitted) => BeforeError = k
    BY <2>1, <2>3, BeforeErrorIs DEF LiveLeft
  <2> QED BY <2>3, <2>4 DEF LiveLeft
<1> QED BY <1>1, Invariance, PTL
=============================================================================
