---------------------------- MODULE EncoderProofs -----------------------------
(***************************************************************************)
(* What the two stream encoders write, whatever events they are given: the *)
(* frames of every event are a walk from the blocks that were open to the  *)
(* blocks that are open now, so that the frames of a run pair; only the    *)
(* frames of the end say that the run is over; and the usage an encoder    *)
(* has folded is the Result's.                                             *)
(*                                                                         *)
(* A batch of frames is looked at through the blocks it opens and closes   *)
(* (Walk).  Walks of batches that follow one another are a walk again,     *)
(* and a walk from no block to none is a sequence of paired frames.        *)
(***************************************************************************)
EXTENDS RunOutputs, WellFoundedInduction, FiniteSetTheorems, TLAPS

Counters == {"input", "noCache", "cacheRead", "cacheWrite", "output", "text", "reasoning", "total",
             "toolUse"}

IsSequence(s) == s \in Seq(ToSet(s))

-----------------------------------------------------------------------------
(* The encoders. *)

Streamed   == {"text", "reasoning", "toolCallStart", "toolCallDelta"}
CallTypes  == {"ready", "invalid", "clientRequest", "approvalRequest", "outputDenied", "result"}
EventTypes == Streamed \cup CallTypes
              \cup {"stepStart", "usage", "stepEnd", "source", "file", "stateDelta",
                    "structuredOutput", "done", "error"}

\* The AG-UI encoder.
AgUiOk(e) ==
    /\ DOMAIN e = {"options", "step", "textOpen", "reasoningOpen", "textBuf", "openTools", "toolOrder",
                   "toolCalls", "interrupts", "stepUsage", "totalUsage", "reason"}
    /\ e.textOpen \in BOOLEAN /\ e.reasoningOpen \in BOOLEAN
    /\ IsSequence(e.toolOrder) /\ e.openTools \subseteq ToSet(e.toolOrder)
    /\ e.stepUsage \in Usage /\ e.totalUsage \in Usage

AgUiBlocks(e) ==
    {key \in {<<"text", e.step>>} : e.textOpen}
    \cup {key \in {<<"reasoning", e.step>>} : e.reasoningOpen}
    \cup {<<"tool", id>> : id \in e.openTools}

\* The AI SDK encoder.
SdkFields == {"block", "text", "reasoning", "sig", "started", "ready", "args", "total", "current",
              "reason", "finished", "openBlocks", "tools", "violations"}

SdkBlocks(e) ==
    {key \in {<<"text", e.block>>} : e.text} \cup {key \in {<<"reasoning", e.block>>} : e.reasoning}

Producer(e) ==
    /\ DOMAIN e = SdkFields
    /\ e.text \in BOOLEAN /\ e.reasoning \in BOOLEAN /\ ~ (e.text /\ e.reasoning)
    /\ e.total \in Usage /\ e.current \in Usage

SdkOk(e) == Producer(e) /\ e.openBlocks = SdkBlocks(e) /\ e.violations \cap BlockCodes = {}

\* The usage of a finish chunk.
ChunkUsage(usage) ==
    IF ~ IsPipe /\ usage.total = 0 THEN NoUsage ELSE [usage EXCEPT !.toolUse = 0]

\* A finish chunk with this usage, and [DONE], are the last frames.
FinishIsLast(frames, usage) ==
    /\ Len(frames) >= 2 /\ Terminals(frames) = {Len(frames) - 1}
    /\ frames[Len(frames)].type = "[DONE]" /\ frames[Len(frames) - 1].usage = usage

-----------------------------------------------------------------------------
(* Usage counters. *)

LEMMA NoUsageShape ==
    /\ DOMAIN NoUsage = Counters
    /\ \A f \in Counters : NoUsage[f] = 0
    /\ NoUsage \in Usage
<1>1. DOMAIN NoUsage = Counters
  BY DEF NoUsage, Counters
<1>2. \A f \in Counters : NoUsage[f] = 0
  BY DEF NoUsage, Counters
<1>3. NoUsage = [f \in Counters |-> NoUsage[f]]
  BY <1>1 DEF NoUsage
<1>4. QED BY <1>1, <1>2, <1>3 DEF Usage

LEMMA UsageShape ==
    ASSUME NEW usage \in Usage
    PROVE  /\ DOMAIN usage = Counters /\ usage = [f \in Counters |-> usage[f]]
           /\ \A f \in Counters : usage[f] \in Int
BY NoUsageShape DEF Usage

\* Adding and merging counters gives counters, and nothing added changes nothing
\* (aikit/usage.go).
LEMMA UsageAdds ==
    ASSUME NEW usage \in Usage, NEW other \in Usage
    PROVE  /\ AddUsage(usage, other) \in Usage
           /\ MergeUsage(usage, other) \in Usage
           /\ AddUsage(usage, NoUsage) = usage
<1>1. /\ DOMAIN usage = Counters /\ \A f \in Counters : usage[f] \in Int /\ other[f] \in Int
      /\ usage = [f \in Counters |-> usage[f]]
  BY UsageShape
<1>2. AddUsage(usage, other) = [f \in Counters |-> usage[f] + other[f]]
  BY <1>1 DEF AddUsage
<1>3. MergeUsage(usage, other) = [f \in Counters |-> IF other[f] # 0 THEN other[f] ELSE usage[f]]
  BY <1>1 DEF MergeUsage
<1>4. AddUsage(usage, NoUsage) = [f \in Counters |-> usage[f]]
  <2>1. AddUsage(usage, NoUsage) = [f \in Counters |-> usage[f] + NoUsage[f]]
    BY <1>1 DEF AddUsage
  <2>2. \A f \in Counters : usage[f] + NoUsage[f] = usage[f]
    BY <1>1, NoUsageShape
  <2>3. QED BY <2>1, <2>2
<1>5. QED BY <1>1, <1>2, <1>3, <1>4, NoUsageShape DEF Usage

-----------------------------------------------------------------------------
(* Sequences. *)

LEMMA SequenceShape ==
    ASSUME NEW s, IsSequence(s)
    PROVE  /\ Len(s) \in Nat /\ DOMAIN s = 1 .. Len(s)
           /\ s = <<>> <=> Len(s) = 0
BY DEF IsSequence

LEMMA SequenceOverItself ==
    ASSUME NEW S, NEW s \in Seq(S)
    PROVE  IsSequence(s)
<1>1. Len(s) \in Nat /\ DOMAIN s = 1 .. Len(s) /\ s = [i \in 1 .. Len(s) |-> s[i]]
  OBVIOUS
<1>2. \A i \in 1 .. Len(s) : s[i] \in ToSet(s)
  BY <1>1 DEF ToSet
<1>3. s \in [1 .. Len(s) -> ToSet(s)]
  BY <1>1, <1>2
<1> QED BY <1>1, <1>3 DEF IsSequence

LEMMA TailIsSequence ==
    ASSUME NEW s, IsSequence(s), s # <<>>
    PROVE  /\ IsSequence(Tail(s)) /\ Len(s) > 0 /\ Len(Tail(s)) = Len(s) - 1
           /\ Head(s) = s[1]
           /\ \A i \in 1 .. Len(s) - 1 : Tail(s)[i] = s[i + 1]
<1> DEFINE S == ToSet(s)
<1>1. s \in Seq(S)
  BY DEF IsSequence
<1> HIDE DEF S
<1>2. /\ Tail(s) \in Seq(S) /\ Len(s) > 0 /\ Len(Tail(s)) = Len(s) - 1 /\ Head(s) = s[1]
      /\ \A i \in 1 .. Len(s) - 1 : Tail(s)[i] = s[i + 1]
  BY <1>1
<1> QED BY <1>2, SequenceOverItself

LEMMA ConcatIsSequence ==
    ASSUME NEW s, NEW t, IsSequence(s), IsSequence(t)
    PROVE  /\ IsSequence(s \o t) /\ Len(s \o t) = Len(s) + Len(t)
           /\ \A i \in 1 .. Len(s) : (s \o t)[i] = s[i]
           /\ \A i \in 1 .. Len(t) : (s \o t)[Len(s) + i] = t[i]
<1> DEFINE S == ToSet(s) \cup ToSet(t)
<1>1. s \in Seq(S) /\ t \in Seq(S)
  <2>1. ToSet(s) \subseteq S /\ ToSet(t) \subseteq S
    OBVIOUS
  <2>2. s \in Seq(ToSet(s)) /\ t \in Seq(ToSet(t))
    BY DEF IsSequence
  <2> HIDE DEF S
  <2> QED BY <2>1, <2>2
<1> HIDE DEF S
<1>2. /\ s \o t \in Seq(S) /\ Len(s \o t) = Len(s) + Len(t)
      /\ \A i \in 1 .. Len(s) : (s \o t)[i] = s[i]
      /\ \A i \in 1 .. Len(t) : (s \o t)[Len(s) + i] = t[i]
  BY <1>1
<1> QED BY <1>2, SequenceOverItself

LEMMA NoneIsSequence == IsSequence(<<>>)
BY DEF IsSequence

LEMMA OneIsSequence ==
    ASSUME NEW e
    PROVE  IsSequence(<<e>>)
<1>1. <<e>> \in Seq({e})
  OBVIOUS
<1>2. QED BY <1>1, SequenceOverItself

-----------------------------------------------------------------------------
(* Sequences of events and frames, by the types in them. *)

Typed(s, types) == IsSequence(s) /\ \A i \in DOMAIN s : s[i].type \in types

LEMMA TypedNone ==
    ASSUME NEW types
    PROVE  Typed(<<>>, types)
BY NoneIsSequence DEF Typed

LEMMA TypedOne ==
    ASSUME NEW e, NEW types, e.type \in types
    PROVE  Typed(<<e>>, types)
<1>1. DOMAIN <<e>> = {1} /\ <<e>>[1] = e
  OBVIOUS
<1>2. QED BY <1>1, OneIsSequence DEF Typed

LEMMA TypedOption ==
    ASSUME NEW condition, NEW e, NEW types, condition => e.type \in types
    PROVE  Typed(Option(condition, e), types)
<1>1. CASE condition
  BY <1>1, TypedOne DEF Option
<1>2. CASE ~ condition
  BY <1>2, TypedNone DEF Option
<1>3. QED BY <1>1, <1>2

\* A place of s \o t is one of s or one of t.
LEMMA ConcatPlaces ==
    ASSUME NEW s, NEW t, IsSequence(s), IsSequence(t), NEW i \in DOMAIN (s \o t)
    PROVE  \/ i \in DOMAIN s /\ (s \o t)[i] = s[i]
           \/ i - Len(s) \in DOMAIN t /\ (s \o t)[i] = t[i - Len(s)]
<1> PICK m, n, st : m = Len(s) /\ n = Len(t) /\ st = s \o t
  OBVIOUS
<1>1. /\ m \in Nat /\ n \in Nat /\ DOMAIN s = 1 .. m /\ DOMAIN t = 1 .. n /\ DOMAIN st = 1 .. m + n
      /\ \A k \in 1 .. m : st[k] = s[k]
      /\ \A k \in 1 .. n : st[m + k] = t[k]
  BY SequenceShape, ConcatIsSequence
<1>2. CASE i \in 1 .. m
  BY <1>1, <1>2
<1>3. CASE i \notin 1 .. m
  <2>1. i - m \in 1 .. n /\ i = m + (i - m)
    BY <1>1, <1>3
  <2>2. QED BY <1>1, <2>1
<1>4. QED BY <1>2, <1>3

LEMMA TypedConcat ==
    ASSUME NEW s, NEW t, NEW types, Typed(s, types), Typed(t, types)
    PROVE  Typed(s \o t, types)
<1>1. IsSequence(s) /\ IsSequence(t) /\ IsSequence(s \o t)
  BY ConcatIsSequence DEF Typed
<1>2. ASSUME NEW i \in DOMAIN (s \o t) PROVE (s \o t)[i].type \in types
  BY <1>1, ConcatPlaces DEF Typed
<1>3. QED BY <1>1, <1>2 DEF Typed

LEMMA TypedMore ==
    ASSUME NEW s, NEW types, NEW more, types \subseteq more, Typed(s, types)
    PROVE  Typed(s, more)
BY DEF Typed

LEMMA NothingAdded ==
    ASSUME NEW s, IsSequence(s)
    PROVE  s \o <<>> = s /\ <<>> \o s = s
<1> DEFINE S == ToSet(s)
<1>1. s \in Seq(S)
  BY DEF IsSequence
<1> HIDE DEF S
<1>2. QED BY <1>1

LEMMA ConcatAssociates ==
    ASSUME NEW s, NEW t, NEW u, IsSequence(s), IsSequence(t), IsSequence(u)
    PROVE  (s \o t) \o u = s \o (t \o u)
<1> DEFINE S == ToSet(s) \cup ToSet(t) \cup ToSet(u)
<1>1. s \in Seq(S) /\ t \in Seq(S) /\ u \in Seq(S)
  <2>1. ToSet(s) \subseteq S /\ ToSet(t) \subseteq S /\ ToSet(u) \subseteq S
    OBVIOUS
  <2>2. s \in Seq(ToSet(s)) /\ t \in Seq(ToSet(t)) /\ u \in Seq(ToSet(u))
    BY DEF IsSequence
  <2> HIDE DEF S
  <2> QED BY <2>1, <2>2
<1> HIDE DEF S
<1>2. QED BY <1>1

-----------------------------------------------------------------------------
(* Prefixes. *)

LEMMA PrefixMeans ==
    ASSUME NEW s, NEW t, IsSequence(s), IsSequence(t)
    PROVE  IsPrefix(s, t) <=> Len(s) <= Len(t) /\ \A i \in 1 .. Len(s) : s[i] = t[i]
<1> PICK m, n : m = Len(s) /\ n = Len(t)
  OBVIOUS
<1>1. m \in Nat /\ n \in Nat
  BY SequenceShape
<1>2. /\ DOMAIN SubSeq(s, 1, m) = 1 .. m /\ \A i \in 1 .. m : SubSeq(s, 1, m)[i] = s[i]
      /\ SubSeq(s, 1, m) = [i \in 1 .. m |-> s[i]]
  OBVIOUS
<1>3. SubSeq(t, 1, m) = [i \in 1 .. m |-> t[i]]
  OBVIOUS
<1>4. SubSeq(s, 1, m) = SubSeq(t, 1, m) <=> \A i \in 1 .. m : s[i] = t[i]
  BY <1>2, <1>3
<1>5. IsPrefix(s, t) <=> m <= n /\ SubSeq(s, 1, m) = SubSeq(t, 1, m)
  BY DEF IsPrefix
<1>6. QED BY <1>4, <1>5

LEMMA PrefixOfItself ==
    ASSUME NEW s, IsSequence(s)
    PROVE  IsPrefix(s, s)
BY PrefixMeans, SequenceShape

\* A prefix stays one when the sequence grows.
LEMMA PrefixGrows ==
    ASSUME NEW s, NEW t, NEW u, IsSequence(s), IsSequence(t), IsSequence(u), IsPrefix(s, t)
    PROVE  IsPrefix(s, t \o u)
<1> PICK m, n, tu : m = Len(s) /\ n = Len(t) /\ tu = t \o u
  OBVIOUS
<1>1. /\ m \in Nat /\ n \in Nat /\ m <= n /\ \A i \in 1 .. m : s[i] = t[i]
      /\ Len(u) \in Nat /\ Len(tu) = n + Len(u) /\ IsSequence(tu) /\ \A i \in 1 .. n : tu[i] = t[i]
  BY PrefixMeans, SequenceShape, ConcatIsSequence
<1>2. m <= Len(tu) /\ \A i \in 1 .. m : s[i] = tu[i]
  BY <1>1
<1>3. QED BY <1>1, <1>2, PrefixMeans

LEMMA FirstsAreSequence ==
    ASSUME NEW s, IsSequence(s), NEW n \in Nat, n <= Len(s)
    PROVE  /\ IsSequence(SubSeq(s, 1, n)) /\ Len(SubSeq(s, 1, n)) = n
           /\ \A i \in 1 .. n : SubSeq(s, 1, n)[i] = s[i]
<1> DEFINE S == ToSet(s)
<1>1. s \in Seq(S)
  BY DEF IsSequence
<1> HIDE DEF S
<1>2. /\ SubSeq(s, 1, n) \in Seq(S) /\ Len(SubSeq(s, 1, n)) = n
      /\ \A i \in 1 .. n : SubSeq(s, 1, n)[i] = s[i]
  BY <1>1
<1>3. QED BY <1>2, SequenceOverItself

\* What is written of a batch continues a prefix.
LEMMA PartIsPrefix ==
    ASSUME NEW s, NEW t, NEW n \in Nat, IsSequence(s), IsSequence(t), n <= Len(t)
    PROVE  IsSequence(s \o SubSeq(t, 1, n)) /\ IsPrefix(s \o SubSeq(t, 1, n), s \o t)
<1> PICK m, k, st, u, su : m = Len(s) /\ k = Len(t) /\ st = s \o t /\ u = SubSeq(t, 1, n) /\ su = s \o u
  OBVIOUS
<1>1. /\ m \in Nat /\ k \in Nat /\ Len(st) = m + k /\ IsSequence(st)
      /\ \A i \in 1 .. m : st[i] = s[i]
      /\ \A i \in 1 .. k : st[m + i] = t[i]
  BY ConcatIsSequence, SequenceShape
<1>2. IsSequence(u) /\ Len(u) = n /\ \A i \in 1 .. n : u[i] = t[i]
  BY FirstsAreSequence
<1>3. /\ Len(su) = m + n /\ IsSequence(su)
      /\ \A i \in 1 .. m : su[i] = s[i]
      /\ \A i \in 1 .. n : su[m + i] = u[i]
  BY <1>2, ConcatIsSequence
<1>4. ASSUME NEW i \in 1 .. m + n PROVE su[i] = st[i]
  <2>1. CASE i \in 1 .. m
    BY <1>1, <1>3, <2>1
  <2>2. CASE i \notin 1 .. m
    <3>1. i - m \in 1 .. n /\ i - m \in 1 .. k /\ i = m + (i - m)
      BY <1>1, <2>2
    <3>2. QED BY <1>1, <1>2, <1>3, <3>1
  <2>3. QED BY <2>1, <2>2
<1>5. m + n <= m + k
  BY <1>1
<1>6. QED BY <1>1, <1>3, <1>4, <1>5, PrefixMeans

-----------------------------------------------------------------------------
(* Induction over the natural numbers. *)

\* A set that holds 0 and the successor of each of its numbers holds them all.
LEMMA NaturalsAreReached ==
    ASSUME NEW S, 0 \in S, \A n \in Nat : n \in S => n + 1 \in S
    PROVE  Nat \subseteq S
<1> DEFINE R == OpToRel(<, Nat)
           T == Nat \ S
<1>1. IsWellFoundedOn(R, Nat)
  BY NatLessThanWellFounded
<1>2. \A a, b \in Nat : a < b => <<a, b>> \in R
  BY DEF OpToRel
<1>3. SUFFICES ASSUME T # {} PROVE FALSE
  OBVIOUS
<1>4. T \subseteq Nat
  OBVIOUS
<1> HIDE DEF T, R
<1>5. PICK n \in T : \A m \in T : ~ (<<m, n>> \in R)
  BY <1>1, <1>3, <1>4, WFMin
<1>6. n \in Nat /\ n \notin S /\ n # 0
  BY <1>4 DEF T
<1>7. n - 1 \in Nat /\ n = (n - 1) + 1
  BY <1>6
<1>8. n - 1 \notin T
  <2>1. <<n - 1, n>> \in R
    BY <1>2, <1>6, <1>7
  <2> QED BY <2>1, <1>5
<1> QED BY <1>6, <1>7, <1>8 DEF T

-----------------------------------------------------------------------------
(* Blocks: what a batch of frames opens and closes. *)

\* The block of a frame of either protocol, and what the frame asks of the blocks before it.
KeyOf(f) == IF f.type \in Sdk!BlockTypes THEN <<Sdk!FamilyOf(f.type), f.block>> ELSE BlockKey(f)

Starts(f)    == f.type \in AgUiStarts \cup Sdk!BlockStarts
Ends(f)      == f.type \in AgUiEnds \cup Sdk!BlockFinishes
Continues(f) == f.type \in AgUiContents \cup AgUiEnds \cup (Sdk!BlockTypes \ Sdk!BlockStarts)
Separates(f) == f.type \in AgUiTerminals \cup {"finish", "finish-step", "start-step"}

Fits(open, f) ==
    /\ Starts(f) => KeyOf(f) \notin open
    /\ Continues(f) => KeyOf(f) \in open
    /\ Separates(f) => open = {}

After(open, f) ==
    IF Starts(f) THEN open \cup {KeyOf(f)} ELSE IF Ends(f) THEN open \ {KeyOf(f)} ELSE open

\* The frames s fit where the blocks open are open, and leave the blocks after.
Walk(open, s, after) ==
    /\ IsSequence(s)
    /\ \E trace : /\ trace[0] = open /\ trace[Len(s)] = after
                  /\ \A i \in DOMAIN s : Fits(trace[i - 1], s[i]) /\ trace[i] = After(trace[i - 1], s[i])

LEMMA WalkNone ==
    ASSUME NEW open
    PROVE  Walk(open, <<>>, open)
<1>1. IsSequence(<<>>) /\ DOMAIN <<>> = {} /\ Len(<<>>) = 0
  BY NoneIsSequence
<1>2. PICK trace : trace = [i \in {0} |-> open]
  OBVIOUS
<1>3. QED BY <1>1, <1>2 DEF Walk

LEMMA WalkOne ==
    ASSUME NEW open, NEW f, NEW after, Fits(open, f), after = After(open, f)
    PROVE  Walk(open, <<f>>, after)
<1>1. IsSequence(<<f>>) /\ DOMAIN <<f>> = {1} /\ Len(<<f>>) = 1 /\ <<f>>[1] = f
  BY OneIsSequence
<1>2. PICK trace : trace = [i \in {0, 1} |-> IF i = 0 THEN open ELSE after]
  OBVIOUS
<1>3. trace[0] = open /\ trace[1] = after /\ 1 - 1 = 0
  BY <1>2
<1>4. QED BY <1>1, <1>3 DEF Walk

LEMMA WalkConcat ==
    ASSUME NEW open, NEW between, NEW after, NEW s, NEW t, Walk(open, s, between), Walk(between, t, after)
    PROVE  Walk(open, s \o t, after)
<1> PICK m, n, st : m = Len(s) /\ n = Len(t) /\ st = s \o t
  OBVIOUS
<1>1. /\ IsSequence(s) /\ IsSequence(t) /\ IsSequence(st) /\ Len(st) = m + n
      /\ m \in Nat /\ n \in Nat /\ DOMAIN s = 1 .. m /\ DOMAIN t = 1 .. n /\ DOMAIN st = 1 .. m + n
      /\ \A i \in 1 .. m : st[i] = s[i]
      /\ \A i \in 1 .. n : st[m + i] = t[i]
  BY ConcatIsSequence, SequenceShape DEF Walk
<1>2. PICK one : /\ one[0] = open /\ one[m] = between
                 /\ \A i \in DOMAIN s : Fits(one[i - 1], s[i]) /\ one[i] = After(one[i - 1], s[i])
  BY DEF Walk
<1>3. PICK two : /\ two[0] = between /\ two[n] = after
                 /\ \A i \in DOMAIN t : Fits(two[i - 1], t[i]) /\ two[i] = After(two[i - 1], t[i])
  BY DEF Walk
<1>4. PICK trace : trace = [i \in 0 .. m + n |-> IF i <= m THEN one[i] ELSE two[i - m]]
  OBVIOUS
<1>5. trace[0] = open /\ trace[m + n] = after
  <2>1. trace[0] = open
    BY <1>1, <1>2, <1>4
  <2>2. CASE n = 0
    BY <1>1, <1>2, <1>3, <1>4, <2>2
  <2>3. CASE n # 0
    <3>1. m + n \in 0 .. m + n /\ ~ (m + n <= m) /\ (m + n) - m = n
      BY <1>1, <2>3
    <3>2. QED BY <1>3, <1>4, <2>1, <3>1
  <2>4. QED BY <2>1, <2>2, <2>3
<1>6. ASSUME NEW i \in 1 .. m + n
      PROVE  Fits(trace[i - 1], st[i]) /\ trace[i] = After(trace[i - 1], st[i])
  <2>1. CASE i \in 1 .. m
    <3>1. trace[i - 1] = one[i - 1] /\ trace[i] = one[i] /\ st[i] = s[i]
      BY <1>1, <1>4, <2>1
    <3>2. QED BY <1>1, <1>2, <2>1, <3>1
  <2>2. CASE i \notin 1 .. m
    <3>1. PICK k \in 1 .. n : k = i - m
      BY <1>1, <2>2
    <3>2. i = m + k /\ i - 1 = m + (k - 1) /\ i - 1 \in 0 .. m + n /\ i \in 0 .. m + n
      BY <1>1, <3>1
    <3>3. st[i] = t[k]
      BY <1>1, <3>2
    <3>4. trace[i] = two[k]
      <4>1. ~ (i <= m) /\ i - m = k
        BY <1>1, <3>1, <3>2
      <4>2. QED BY <1>4, <3>2, <4>1
    <3>5. trace[i - 1] = two[k - 1]
      <4>1. CASE k = 1
        <5>1. i - 1 = m /\ k - 1 = 0
          BY <1>1, <3>2, <4>1
        <5>2. QED BY <1>1, <1>2, <1>3, <1>4, <5>1
      <4>2. CASE k # 1
        <5>1. ~ (i - 1 <= m) /\ (i - 1) - m = k - 1
          BY <1>1, <3>2, <4>2
        <5>2. QED BY <1>4, <3>2, <5>1
      <4>3. QED BY <4>1, <4>2
    <3>6. QED BY <1>1, <1>3, <3>3, <3>4, <3>5
  <2>3. QED BY <2>1, <2>2
<1>7. QED BY <1>1, <1>5, <1>6 DEF Walk

-----------------------------------------------------------------------------
(* Pairing on the wire. *)

LEMMA StillOpenAgrees ==
    ASSUME NEW s, NEW t, NEW n \in Nat, \A i \in 1 .. n : s[i] = t[i]
    PROVE  StillOpen(s, n) = StillOpen(t, n)
<1>1. ASSUME NEW i \in 1 .. n
      PROVE  (\A k \in i + 1 .. n : ~ (s[k].type \in AgUiEnds /\ BlockKey(s[k]) = BlockKey(s[i])))
             <=> (\A k \in i + 1 .. n : ~ (t[k].type \in AgUiEnds /\ BlockKey(t[k]) = BlockKey(t[i])))
  <2>1. \A k \in i + 1 .. n : k \in 1 .. n
    OBVIOUS
  <2>2. QED BY <2>1
<1>2. QED BY <1>1 DEF StillOpen

LEMMA StillOpenNone ==
    ASSUME NEW s
    PROVE  StillOpen(s, 0) = {}
BY DEF StillOpen

\* One more frame opens a block or closes one.
LEMMA StillOpenGrows ==
    ASSUME NEW s, NEW n \in Nat, s[n + 1].type \notin Sdk!BlockTypes
    PROVE  StillOpen(s, n + 1) = After(StillOpen(s, n), s[n + 1])
<1> PICK f : f = s[n + 1]
  OBVIOUS
<1> DEFINE Ended(i, k) == s[k].type \in AgUiEnds /\ BlockKey(s[k]) = BlockKey(s[i])
           Left(m) == {i \in 1 .. m : s[i].type \in AgUiStarts /\ \A k \in i + 1 .. m : ~ Ended(i, k)}
<1>1. KeyOf(f) = BlockKey(f) /\ (Starts(f) <=> f.type \in AgUiStarts) /\ (Ends(f) <=> f.type \in AgUiEnds)
  BY DEF KeyOf, Starts, Ends, AgUiStarts, AgUiEnds, Sdk!BlockTypes, Sdk!BlockStarts, Sdk!BlockFinishes
<1>2. ~ (f.type \in AgUiStarts /\ f.type \in AgUiEnds)
  BY DEF AgUiStarts, AgUiEnds
<1>3. \A m : StillOpen(s, m) = {BlockKey(s[i]) : i \in Left(m)}
  BY DEF StillOpen
<1>4. ASSUME NEW i \in 1 .. n
      PROVE  i \in Left(n + 1) <=> i \in Left(n) /\ ~ Ended(i, n + 1)
  <2>1. i \in 1 .. n + 1 /\ n + 1 \in i + 1 .. n + 1
    OBVIOUS
  <2>2. \A k : k \in i + 1 .. n + 1 <=> k \in i + 1 .. n \/ k = n + 1
    OBVIOUS
  <2>3. QED BY <2>1, <2>2
<1>5. n + 1 \in Left(n + 1) <=> f.type \in AgUiStarts
  OBVIOUS
<1>6. \A i : i \in Left(n + 1) <=> \/ i \in Left(n) /\ ~ Ended(i, n + 1)
                                   \/ i = n + 1 /\ f.type \in AgUiStarts
  <2>1. \A i : i \in Left(n) => i \in 1 .. n
    OBVIOUS
  <2>2. \A i : i \in Left(n + 1) => i \in 1 .. n \/ i = n + 1
    OBVIOUS
  <2> HIDE DEF Left, Ended
  <2>3. QED BY <1>4, <1>5, <2>1, <2>2
<1>7. \A i : Ended(i, n + 1) <=> f.type \in AgUiEnds /\ BlockKey(f) = BlockKey(s[i])
  OBVIOUS
<1> HIDE DEF Left, Ended
<1>8. CASE f.type \in AgUiStarts
  <2>1. \A i : i \in Left(n + 1) <=> i \in Left(n) \/ i = n + 1
    BY <1>2, <1>6, <1>7, <1>8
  <2>2. {BlockKey(s[i]) : i \in Left(n + 1)} = {BlockKey(s[i]) : i \in Left(n)} \cup {BlockKey(f)}
    BY <2>1
  <2>3. QED BY <1>1, <1>3, <1>8, <2>2 DEF After
<1>9. CASE f.type \in AgUiEnds
  <2>1. \A i : i \in Left(n + 1) <=> i \in Left(n) /\ BlockKey(s[i]) # BlockKey(f)
    BY <1>2, <1>6, <1>7, <1>9
  <2>2. {BlockKey(s[i]) : i \in Left(n + 1)} = {BlockKey(s[i]) : i \in Left(n)} \ {BlockKey(f)}
    BY <2>1
  <2>3. QED BY <1>1, <1>2, <1>3, <1>9, <2>2 DEF After
<1>10. CASE f.type \notin AgUiStarts /\ f.type \notin AgUiEnds
  <2>1. Left(n + 1) = Left(n)
    BY <1>6, <1>7, <1>10
  <2>2. QED BY <1>1, <1>3, <1>10, <2>1 DEF After
<1>11. QED BY <1>8, <1>9, <1>10

LEMMA PairPrefix ==
    ASSUME NEW s, NEW t, IsSequence(s), IsSequence(t), IsPrefix(s, t), FramesPair(t)
    PROVE  FramesPair(s)
<1> PICK m, n : m = Len(s) /\ n = Len(t)
  OBVIOUS
<1>1. /\ m \in Nat /\ n \in Nat /\ m <= n /\ DOMAIN s = 1 .. m /\ DOMAIN t = 1 .. n
      /\ \A i \in 1 .. m : s[i] = t[i]
  BY PrefixMeans, SequenceShape
<1>2. ASSUME NEW i \in 1 .. m
      PROVE  i \in 1 .. n /\ s[i] = t[i] /\ StillOpen(s, i - 1) = StillOpen(t, i - 1)
  <2>1. i - 1 \in Nat /\ \A k \in 1 .. i - 1 : s[k] = t[k]
    BY <1>1
  <2>2. QED BY <1>1, <2>1, StillOpenAgrees
<1>3. QED BY <1>1, <1>2 DEF FramesPair

\* Frames that fit the blocks left open keep the wire paired.
LEMMA PairedGrows ==
    ASSUME NEW w, NEW s, NEW after, IsSequence(w), FramesPair(w),
           \A i \in DOMAIN s : s[i].type \notin Sdk!BlockTypes,
           Walk(StillOpen(w, Len(w)), s, after)
    PROVE  FramesPair(w \o s) /\ StillOpen(w \o s, Len(w \o s)) = after
<1> PICK m, n, ws : m = Len(w) /\ n = Len(s) /\ ws = w \o s
  OBVIOUS
<1>1. /\ IsSequence(s) /\ IsSequence(ws) /\ Len(ws) = m + n /\ DOMAIN ws = 1 .. m + n
      /\ m \in Nat /\ n \in Nat /\ DOMAIN w = 1 .. m /\ DOMAIN s = 1 .. n
      /\ \A i \in 1 .. m : ws[i] = w[i]
      /\ \A i \in 1 .. n : ws[m + i] = s[i]
  BY ConcatIsSequence, SequenceShape DEF Walk
<1>2. PICK trace : /\ trace[0] = StillOpen(w, m) /\ trace[n] = after
                   /\ \A i \in DOMAIN s : Fits(trace[i - 1], s[i]) /\ trace[i] = After(trace[i - 1], s[i])
  BY DEF Walk
<1> DEFINE S == {k \in Nat : k <= n => StillOpen(ws, m + k) = trace[k]}
<1>3. 0 \in S
  <2>1. StillOpen(ws, m) = StillOpen(w, m)
    BY <1>1, StillOpenAgrees
  <2>2. QED BY <1>1, <1>2, <2>1
<1>4. ASSUME NEW k \in Nat, k \in S PROVE k + 1 \in S
  <2>1. SUFFICES ASSUME k + 1 <= n PROVE StillOpen(ws, m + (k + 1)) = trace[k + 1]
    OBVIOUS
  <2>2. k + 1 \in 1 .. n /\ (k + 1) - 1 = k /\ m + (k + 1) = (m + k) + 1 /\ m + k \in Nat /\ k <= n
    BY <1>1, <2>1
  <2>3. StillOpen(ws, m + k) = trace[k] /\ ws[(m + k) + 1] = s[k + 1]
    BY <1>1, <1>4, <2>2
  <2>4. StillOpen(ws, (m + k) + 1) = After(StillOpen(ws, m + k), ws[(m + k) + 1])
    BY <1>1, <2>2, <2>3, StillOpenGrows
  <2>5. trace[k + 1] = After(trace[k], s[k + 1])
    BY <1>1, <1>2, <2>2
  <2>6. QED BY <2>2, <2>3, <2>4, <2>5
<1> HIDE DEF S
<1>5. Nat \subseteq S
  BY <1>3, <1>4, NaturalsAreReached
<1>6. \A k \in 0 .. n : StillOpen(ws, m + k) = trace[k]
  BY <1>1, <1>5 DEF S
<1>7. ASSUME NEW i \in 1 .. m + n
      PROVE  /\ ws[i].type \in AgUiStarts => BlockKey(ws[i]) \notin StillOpen(ws, i - 1)
             /\ ws[i].type \in AgUiContents \cup AgUiEnds => BlockKey(ws[i]) \in StillOpen(ws, i - 1)
             /\ ws[i].type \in AgUiTerminals => StillOpen(ws, i - 1) = {}
  <2>1. CASE i \in 1 .. m
    <3>1. i - 1 \in Nat /\ ws[i] = w[i] /\ \A k \in 1 .. i - 1 : ws[k] = w[k]
      BY <1>1, <2>1
    <3>2. StillOpen(ws, i - 1) = StillOpen(w, i - 1)
      BY <3>1, StillOpenAgrees
    <3>3. QED BY <1>1, <2>1, <3>1, <3>2 DEF FramesPair
  <2>2. CASE i \notin 1 .. m
    <3>1. PICK k \in 1 .. n : k = i - m
      BY <1>1, <2>2
    <3>2. i = m + k /\ i - 1 = m + (k - 1) /\ k - 1 \in 0 .. n
      BY <1>1, <3>1
    <3>3. ws[i] = s[k] /\ StillOpen(ws, i - 1) = trace[k - 1] /\ Fits(trace[k - 1], s[k])
      BY <1>1, <1>2, <1>6, <3>2
    <3>4. s[k].type \notin Sdk!BlockTypes
      BY <1>1
    <3>5. KeyOf(s[k]) = BlockKey(s[k])
      BY <3>4 DEF KeyOf
    <3>6. QED BY <3>3, <3>5 DEF Fits, Starts, Continues, Separates
  <2>3. QED BY <2>1, <2>2
<1>8. StillOpen(ws, m + n) = after
  BY <1>1, <1>2, <1>6
<1>9. QED BY <1>1, <1>7, <1>8 DEF FramesPair

-----------------------------------------------------------------------------
(* The AI SDK encoder: framing and the checker (uistream/ainode/protocol.go). *)

\* The chunks of a run but the last.
SdkTypes == Sdk!BlockTypes \cup Sdk!ToolTypes
            \cup {"start", "start-step", "finish-step", "error", "source-url", "file",
                  "data-structured-output"}

\* The checker's notes aside, d is c.
SameProducer(d, c) ==
    /\ DOMAIN d = SdkFields
    /\ d.text = c.text /\ d.reasoning = c.reasoning /\ d.block = c.block
    /\ d.total = c.total /\ d.current = c.current /\ d.finished = c.finished /\ d.reason = c.reason
    /\ d.violations \cap BlockCodes = c.violations \cap BlockCodes

\* A chunk that fits is no violation of the block rules (uistream/ainode/invariants.go).
LEMMA ObserveFits ==
    ASSUME NEW c, NEW chunk, DOMAIN c = SdkFields, chunk.type \in SdkTypes \cup {"finish"},
           Fits(c.openBlocks, chunk)
    PROVE  SameProducer(Sdk!Observe(c, chunk), c)
           /\ Sdk!Observe(c, chunk).openBlocks = After(c.openBlocks, chunk)
<1>1. CASE chunk.type \in Sdk!ToolTypes
  <2>1. ~ Starts(chunk) /\ ~ Ends(chunk)
    BY <1>1 DEF Starts, Ends, Sdk!ToolTypes, Sdk!Outputs, AgUiStarts, AgUiEnds, Sdk!BlockStarts,
                Sdk!BlockFinishes
  <2>2. Sdk!ToolViolations(c, chunk) \cap BlockCodes = {}
    BY DEF Sdk!ToolViolations, BlockCodes
  <2>3. PICK tools, notes : /\ tools = Sdk!ToolsAfter(c, chunk)
                            /\ notes = c.violations \cup Sdk!ToolViolations(c, chunk)
    OBVIOUS
  <2>4. Sdk!Observe(c, chunk) = [c EXCEPT !.tools = tools, !.violations = notes]
    BY <1>1, <2>3 DEF Sdk!Observe, SdkFields
  <2>5. notes \cap BlockCodes = c.violations \cap BlockCodes
    BY <2>2, <2>3
  <2>6. QED BY <2>1, <2>4, <2>5 DEF SameProducer, After, SdkFields
<1>2. CASE chunk.type \notin Sdk!ToolTypes
  <2>1. /\ (Starts(chunk) <=> chunk.type \in Sdk!BlockStarts)
        /\ (Ends(chunk) <=> chunk.type \in Sdk!BlockFinishes)
        /\ (Continues(chunk) <=> chunk.type \in Sdk!BlockTypes \ Sdk!BlockStarts)
        /\ (Separates(chunk) <=> chunk.type \in {"finish", "finish-step", "start-step"})
        /\ (chunk.type \in Sdk!BlockTypes => KeyOf(chunk) = <<Sdk!FamilyOf(chunk.type), chunk.block>>)
    BY <1>2 DEF Starts, Ends, Continues, Separates, KeyOf, SdkTypes, AgUiStarts, AgUiEnds, AgUiContents,
                AgUiTerminals, Sdk!BlockTypes, Sdk!BlockStarts, Sdk!BlockFinishes
  <2>2. chunk.type \in Sdk!BlockStarts \cup Sdk!BlockFinishes => chunk.type \in Sdk!BlockTypes
    BY DEF Sdk!BlockTypes
  <2>3. Sdk!BlockViolations(c, chunk) = {}
    BY <2>1, <2>2 DEF Sdk!BlockViolations, Fits
  <2>4. Sdk!OpenBlocksAfter(c, chunk) = After(c.openBlocks, chunk)
    <3>1. CASE Starts(chunk)
      <4>1. chunk.type \notin Sdk!BlockFinishes /\ chunk.type \notin {"finish", "finish-step", "start-step"}
        BY <2>1, <3>1 DEF Sdk!BlockStarts, Sdk!BlockFinishes
      <4>2. QED BY <2>1, <2>2, <3>1, <4>1 DEF Sdk!OpenBlocksAfter, After
    <3>2. CASE Ends(chunk)
      <4>1. chunk.type \notin Sdk!BlockStarts /\ chunk.type \notin {"finish", "finish-step", "start-step"}
        BY <2>1, <3>2 DEF Sdk!BlockStarts, Sdk!BlockFinishes
      <4>2. QED BY <2>1, <2>2, <3>2, <4>1 DEF Sdk!OpenBlocksAfter, After
    <3>3. CASE ~ Starts(chunk) /\ ~ Ends(chunk)
      <4>1. CASE Separates(chunk)
        BY <2>1, <3>3, <4>1 DEF Sdk!OpenBlocksAfter, After, Fits
      <4>2. CASE ~ Separates(chunk)
        BY <2>1, <3>3, <4>2 DEF Sdk!OpenBlocksAfter, After
      <4>3. QED BY <4>1, <4>2
    <3>4. QED BY <3>1, <3>2, <3>3
  <2>5. PICK open, notes : open = After(c.openBlocks, chunk) /\ notes = c.violations \cup {}
    OBVIOUS
  <2>6. Sdk!Observe(c, chunk) = [c EXCEPT !.openBlocks = open, !.violations = notes]
    BY <1>2, <2>3, <2>4, <2>5 DEF Sdk!Observe, SdkFields
  <2>7. QED BY <2>5, <2>6 DEF SameProducer, SdkFields
<1>3. QED BY <1>1, <1>2

\* The recursive equation of the framing.
Framings(g, p, chunks, last) ==
    g = [n \in 0 .. last |->
           IF n = 0 THEN [enc |-> p, frames |-> <<>>]
           ELSE [enc    |-> Sdk!Observe(g[n - 1].enc, chunks[n]),
                 frames |-> (g[n - 1].frames \o <<chunks[n]>>)
                            \o Sdk!Option(chunks[n].type = "finish", Sdk!Chunk("[DONE]"))]]

LEMMA FramingExists ==
    ASSUME NEW p, NEW chunks, NEW last \in Nat
    PROVE  \E g : Framings(g, p, chunks, last)
<1> DEFINE S == {n \in Nat : \E g : Framings(g, p, chunks, n)}
           Next1(g, n) == [enc    |-> Sdk!Observe(g[n - 1].enc, chunks[n]),
                           frames |-> (g[n - 1].frames \o <<chunks[n]>>)
                                      \o Sdk!Option(chunks[n].type = "finish", Sdk!Chunk("[DONE]"))]
           First1 == [enc |-> p, frames |-> <<>>]
<1>1. \A g, n : Framings(g, p, chunks, n) <=> g = [i \in 0 .. n |-> IF i = 0 THEN First1 ELSE Next1(g, i)]
  BY DEF Framings
<1>2. \A g, h, n : g[n - 1] = h[n - 1] => Next1(g, n) = Next1(h, n)
  OBVIOUS
<1> HIDE DEF Next1, First1
<1>3. 0 \in S
  <2>1. PICK h : h = [i \in 0 .. 0 |-> First1]
    OBVIOUS
  <2>2. h = [i \in 0 .. 0 |-> IF i = 0 THEN First1 ELSE Next1(h, i)]
    BY <2>1
  <2>3. QED BY <1>1, <2>2
<1>4. ASSUME NEW n \in Nat, n \in S PROVE n + 1 \in S
  <2>1. PICK g : g = [i \in 0 .. n |-> IF i = 0 THEN First1 ELSE Next1(g, i)]
    BY <1>1, <1>4
  <2>2. PICK h : h = [i \in 0 .. n + 1 |-> IF i = n + 1 THEN Next1(g, i) ELSE g[i]]
    OBVIOUS
  <2>3. ASSUME NEW i \in 0 .. n + 1
        PROVE  h[i] = IF i = 0 THEN First1 ELSE Next1(h, i)
    <3>1. CASE i = 0
      BY <2>1, <2>2, <3>1
    <3>2. CASE i # 0
      <4>1. i - 1 \in 0 .. n /\ i - 1 \in 0 .. n + 1 /\ i - 1 # n + 1
        BY <3>2
      <4>2. h[i - 1] = g[i - 1]
        BY <2>2, <4>1
      <4>3. Next1(h, i) = Next1(g, i)
        BY <1>2, <4>2
      <4>4. h[i] = Next1(g, i)
        <5>1. CASE i = n + 1
          BY <2>2, <5>1
        <5>2. CASE i # n + 1
          <6>1. i \in 0 .. n
            BY <5>2
          <6>2. QED BY <2>1, <2>2, <3>2, <5>2, <6>1
        <5>3. QED BY <5>1, <5>2
      <4>5. QED BY <3>2, <4>3, <4>4
    <3>3. QED BY <3>1, <3>2
  <2>4. h = [i \in 0 .. n + 1 |-> IF i = 0 THEN First1 ELSE Next1(h, i)]
    <3>1. h = [i \in 0 .. n + 1 |-> h[i]]
      BY <2>2
    <3>2. QED BY <2>3, <3>1
  <2>5. QED BY <1>1, <2>4
<1> HIDE DEF S
<1>5. last \in S
  BY <1>3, <1>4, NaturalsAreReached
<1>6. QED BY <1>5 DEF S

IsFinish(final, usage) == {"type", "usage"} \subseteq DOMAIN final /\ final.type = "finish" /\ final.usage = usage

\* A finish chunk with this usage ends the frames, and [DONE] follows it.
Ending(frames, usage) ==
    \E s, final : /\ Typed(s, SdkTypes) /\ IsFinish(final, usage)
                  /\ frames = (s \o <<final>>) \o <<Sdk!Chunk("[DONE]")>>

\* The chunks end with a finish chunk with this usage.
Finishing(chunks, usage) ==
    \E init, final : /\ Typed(init, SdkTypes) /\ IsFinish(final, usage)
                     /\ chunks = init \o <<final>>

\* Framing chunks that fit: the checker finds nothing, the frames are the chunks, and a finish
\* chunk is followed by [DONE].
LEMMA FramedRuns ==
    ASSUME NEW produced, NEW p, NEW chunks, NEW after, p = produced.p, chunks = produced.chunks,
           DOMAIN p = SdkFields, Typed(chunks, SdkTypes \cup {"finish"}), Walk(p.openBlocks, chunks, after)
    PROVE  /\ Sdk!Framed(produced).ok
           /\ SameProducer(Sdk!Framed(produced).enc, p) /\ Sdk!Framed(produced).enc.openBlocks = after
           /\ Typed(chunks, SdkTypes) => Typed(Sdk!Framed(produced).frames, SdkTypes)
           /\ chunks = <<>> => Sdk!Framed(produced).frames = <<>>
           /\ \A usage : Finishing(chunks, usage) => Ending(Sdk!Framed(produced).frames, usage)
<1> PICK last : last = Len(chunks)
  OBVIOUS
<1>1. IsSequence(chunks) /\ last \in Nat /\ DOMAIN chunks = 1 .. last
  BY SequenceShape DEF Typed
<1>2. PICK g : Framings(g, p, chunks, last) /\ Sdk!Framed(produced) =
                 [enc |-> g[last].enc, frames |-> g[last].frames, ok |-> TRUE]
  <2>1. Sdk!Framed(produced) =
          [enc    |-> (CHOOSE g : Framings(g, p, chunks, last))[last].enc,
           frames |-> (CHOOSE g : Framings(g, p, chunks, last))[last].frames, ok |-> TRUE]
    BY DEF Sdk!Framed, Framings
  <2>2. \E g : Framings(g, p, chunks, last)
    BY <1>1, FramingExists
  <2>3. QED BY <2>1, <2>2
<1>3. /\ g[0] = [enc |-> p, frames |-> <<>>]
      /\ \A n \in 1 .. last :
           /\ g[n].enc = Sdk!Observe(g[n - 1].enc, chunks[n])
           /\ g[n].frames = (g[n - 1].frames \o <<chunks[n]>>)
                            \o Sdk!Option(chunks[n].type = "finish", Sdk!Chunk("[DONE]"))
  <2> DEFINE Frame1(n) == [enc    |-> Sdk!Observe(g[n - 1].enc, chunks[n]),
                           frames |-> (g[n - 1].frames \o <<chunks[n]>>)
                                      \o Sdk!Option(chunks[n].type = "finish", Sdk!Chunk("[DONE]"))]
             First1 == [enc |-> p, frames |-> <<>>]
  <2>1. g = [n \in 0 .. last |-> IF n = 0 THEN First1 ELSE Frame1(n)]
    BY <1>2 DEF Framings
  <2>2. \A n : /\ Frame1(n).enc = Sdk!Observe(g[n - 1].enc, chunks[n])
               /\ Frame1(n).frames = (g[n - 1].frames \o <<chunks[n]>>)
                                     \o Sdk!Option(chunks[n].type = "finish", Sdk!Chunk("[DONE]"))
    OBVIOUS
  <2> HIDE DEF Frame1, First1
  <2>3. \A n \in 0 .. last : g[n] = IF n = 0 THEN First1 ELSE Frame1(n)
    BY <2>1
  <2>4. 0 \in 0 .. last /\ \A n \in 1 .. last : n \in 0 .. last /\ n # 0
    BY <1>1
  <2>5. g[0] = First1 /\ \A n \in 1 .. last : g[n] = Frame1(n)
    BY <2>3, <2>4
  <2>6. QED BY <2>2, <2>5 DEF First1
<1>4. PICK trace : /\ trace[0] = p.openBlocks /\ trace[last] = after
                   /\ \A i \in DOMAIN chunks : /\ Fits(trace[i - 1], chunks[i])
                                               /\ trace[i] = After(trace[i - 1], chunks[i])
  BY DEF Walk
<1> DEFINE S == {n \in Nat : n <= last => /\ SameProducer(g[n].enc, p) /\ g[n].enc.openBlocks = trace[n]
                                          /\ (\A i \in 1 .. n : chunks[i].type \in SdkTypes)
                                               => Typed(g[n].frames, SdkTypes)}
<1>5. 0 \in S
  <2>1. g[0].enc = p /\ g[0].frames = <<>>
    BY <1>3
  <2>2. Typed(g[0].frames, SdkTypes)
    BY <2>1, TypedNone
  <2>3. SameProducer(g[0].enc, p) /\ g[0].enc.openBlocks = trace[0]
    BY <1>4, <2>1 DEF SameProducer
  <2>4. QED BY <2>2, <2>3
<1>6. ASSUME NEW n \in Nat, n \in S PROVE n + 1 \in S
  <2>1. SUFFICES ASSUME n + 1 <= last
                 PROVE  /\ SameProducer(g[n + 1].enc, p) /\ g[n + 1].enc.openBlocks = trace[n + 1]
                        /\ (\A i \in 1 .. n + 1 : chunks[i].type \in SdkTypes)
                             => Typed(g[n + 1].frames, SdkTypes)
    OBVIOUS
  <2>2. PICK c, chunk : c = g[n].enc /\ chunk = chunks[n + 1]
    OBVIOUS
  <2>3. n + 1 \in 1 .. last /\ (n + 1) - 1 = n /\ n <= last /\ n + 1 \in DOMAIN chunks
    BY <1>1, <2>1
  <2>4. SameProducer(c, p) /\ c.openBlocks = trace[n]
    BY <1>6, <2>2, <2>3
  <2>5. Fits(c.openBlocks, chunk) /\ trace[n + 1] = After(c.openBlocks, chunk)
    BY <1>4, <2>2, <2>3, <2>4
  <2>6. DOMAIN c = SdkFields /\ chunk.type \in SdkTypes \cup {"finish"}
    BY <2>2, <2>3, <2>4 DEF SameProducer, Typed
  <2>7. g[n + 1].enc = Sdk!Observe(c, chunk)
    BY <1>3, <2>2, <2>3
  <2>8. SameProducer(g[n + 1].enc, c) /\ g[n + 1].enc.openBlocks = trace[n + 1]
    BY <2>5, <2>6, <2>7, ObserveFits
  <2>9. ASSUME \A i \in 1 .. n + 1 : chunks[i].type \in SdkTypes
        PROVE  Typed(g[n + 1].frames, SdkTypes)
    <3>1. Typed(g[n].frames, SdkTypes)
      BY <1>6, <2>3, <2>9
    <3>2. chunk.type \in SdkTypes
      BY <2>2, <2>9
    <3>3. chunk.type # "finish"
      BY <3>2 DEF SdkTypes, Sdk!BlockTypes, Sdk!BlockStarts, Sdk!BlockFinishes, Sdk!ToolTypes, Sdk!Outputs
    <3>4. Typed(g[n].frames \o <<chunk>>, SdkTypes)
      BY <3>1, <3>2, TypedOne, TypedConcat
    <3>5. g[n + 1].frames = (g[n].frames \o <<chunk>>) \o <<>>
      BY <1>3, <2>2, <2>3, <3>3 DEF Sdk!Option
    <3>6. QED BY <3>4, <3>5, NothingAdded DEF Typed
  <2>10. SameProducer(g[n + 1].enc, p)
    BY <2>4, <2>8 DEF SameProducer
  <2>11. QED BY <2>8, <2>9, <2>10
<1> HIDE DEF S
<1>7. Nat \subseteq S
  BY <1>5, <1>6, NaturalsAreReached
<1>8. \A n \in 0 .. last : /\ SameProducer(g[n].enc, p) /\ g[n].enc.openBlocks = trace[n]
                           /\ (\A i \in 1 .. n : chunks[i].type \in SdkTypes) => Typed(g[n].frames, SdkTypes)
  BY <1>1, <1>7 DEF S
<1>9. ASSUME NEW init, NEW final, chunks = init \o <<final>>, Typed(init, SdkTypes), final.type = "finish"
      PROVE  \E s : Typed(s, SdkTypes) /\ g[last].frames = (s \o <<final>>) \o <<Sdk!Chunk("[DONE]")>>
  <2>1. PICK k : k = Len(init)
    OBVIOUS
  <2>2. /\ k \in Nat /\ DOMAIN init = 1 .. k /\ last = k + 1 /\ chunks[k + 1] = final
        /\ \A i \in 1 .. k : chunks[i] = init[i]
    <3>1. IsSequence(init) /\ IsSequence(<<final>>) /\ Len(<<final>>) = 1 /\ <<final>>[1] = final
      BY <1>9, OneIsSequence DEF Typed
    <3>2. Len(init \o <<final>>) = Len(init) + 1 /\ (init \o <<final>>)[Len(init) + 1] = final
          /\ \A i \in 1 .. Len(init) : (init \o <<final>>)[i] = init[i]
      BY <3>1, ConcatIsSequence
    <3>3. QED BY <1>9, <2>1, <3>1, <3>2, SequenceShape
  <2>3. k \in 0 .. last /\ k + 1 \in 1 .. last /\ (k + 1) - 1 = k
    BY <2>2
  <2>4. Typed(g[k].frames, SdkTypes)
    BY <1>8, <1>9, <2>2, <2>3 DEF Typed
  <2>5. g[last].frames = (g[k].frames \o <<final>>) \o <<Sdk!Chunk("[DONE]")>>
    BY <1>3, <1>9, <2>2, <2>3 DEF Sdk!Option
  <2>6. QED BY <2>4, <2>5
<1>10. Typed(chunks, SdkTypes) => Typed(g[last].frames, SdkTypes)
  BY <1>1, <1>8 DEF Typed
<1>11. SameProducer(g[last].enc, p) /\ g[last].enc.openBlocks = after
  <2>1. last \in 0 .. last
    BY <1>1
  <2>2. \A n \in 0 .. last : SameProducer(g[n].enc, p) /\ g[n].enc.openBlocks = trace[n]
    BY <1>8
  <2>3. SameProducer(g[last].enc, p) /\ g[last].enc.openBlocks = trace[last]
    BY <2>1, <2>2
  <2>4. QED BY <1>4, <2>3
<1>12. PICK framed : framed = Sdk!Framed(produced)
  OBVIOUS
<1>13. framed.ok /\ framed.enc = g[last].enc /\ framed.frames = g[last].frames
  BY <1>2, <1>12
<1>14. SameProducer(framed.enc, p) /\ framed.enc.openBlocks = after
       /\ (Typed(chunks, SdkTypes) => Typed(framed.frames, SdkTypes))
  BY <1>10, <1>11, <1>13
<1>15. ASSUME NEW usage, Finishing(chunks, usage) PROVE Ending(framed.frames, usage)
  <2>1. PICK init, final : /\ Typed(init, SdkTypes) /\ IsFinish(final, usage)
                           /\ chunks = init \o <<final>>
    BY <1>15 DEF Finishing
  <2>2. PICK s : Typed(s, SdkTypes) /\ g[last].frames = (s \o <<final>>) \o <<Sdk!Chunk("[DONE]")>>
    BY <1>9, <2>1 DEF IsFinish
  <2>3. QED BY <1>13, <2>1, <2>2 DEF Ending
<1>16. chunks = <<>> => framed.frames = <<>>
  <2>1. chunks = <<>> => last = 0
    BY <1>1, SequenceShape
  <2>2. g[0].frames = <<>>
    BY <1>3
  <2>3. QED BY <1>13, <2>1, <2>2
<1>17. QED BY <1>12, <1>13, <1>14, <1>15, <1>16

-----------------------------------------------------------------------------
(* The chunk producer (uistream/ainode/producer*.go). *)

LEMMA SameOption ==
    ASSUME NEW condition, NEW e
    PROVE  /\ Sdk!Option(condition, e) = Option(condition, e)
           /\ Ui!Option(condition, e) = Option(condition, e)
           /\ condition => Option(condition, e) = <<e>>
           /\ ~ condition => Option(condition, e) = <<>>
BY DEF Sdk!Option, Ui!Option, Option

\* The types that open, continue, close or separate no block.
Plain == (Sdk!ToolTypes \cup {"start", "error", "source-url", "file", "data-structured-output"})

LEMMA PlainWalks ==
    ASSUME NEW open, NEW f, f.type \in Plain
    PROVE  Walk(open, <<f>>, open) /\ Typed(<<f>>, SdkTypes)
<1>1. ~ Starts(f) /\ ~ Ends(f) /\ ~ Continues(f) /\ ~ Separates(f)
  BY DEF Plain, Starts, Ends, Continues, Separates, Sdk!ToolTypes, Sdk!Outputs, AgUiStarts, AgUiEnds,
         AgUiContents, AgUiTerminals, Sdk!BlockTypes, Sdk!BlockStarts, Sdk!BlockFinishes
<1>2. Fits(open, f) /\ After(open, f) = open
  BY <1>1 DEF Fits, After
<1>3. f.type \in SdkTypes
  BY DEF Plain, SdkTypes
<1>4. QED BY <1>2, <1>3, WalkOne, TypedOne

\* A separator fits where no block is open.
LEMMA SeparatorWalks ==
    ASSUME NEW f, f.type \in {"finish", "finish-step", "start-step"}
    PROVE  Walk({}, <<f>>, {}) /\ (f.type # "finish" => Typed(<<f>>, SdkTypes))
<1>1. ~ Starts(f) /\ ~ Ends(f) /\ ~ Continues(f)
  BY DEF Starts, Ends, Continues, AgUiStarts, AgUiEnds, AgUiContents, Sdk!BlockTypes, Sdk!BlockStarts,
         Sdk!BlockFinishes
<1>2. Fits({}, f) /\ After({}, f) = {}
  BY <1>1 DEF Fits, After
<1>3. f.type # "finish" => f.type \in SdkTypes
  BY DEF SdkTypes
<1>4. QED BY <1>2, <1>3, WalkOne, TypedOne

\* The frames of a block.
LEMMA BlockFrames ==
    ASSUME NEW f, f.type \in Sdk!BlockTypes
    PROVE  /\ KeyOf(f) = <<Sdk!FamilyOf(f.type), f.block>>
           /\ Starts(f) <=> f.type \in Sdk!BlockStarts
           /\ Ends(f) <=> f.type \in Sdk!BlockFinishes
           /\ Continues(f) <=> f.type \notin Sdk!BlockStarts
           /\ ~ Separates(f) /\ f.type \in SdkTypes
BY DEF KeyOf, Starts, Ends, Continues, Separates, SdkTypes, AgUiStarts, AgUiEnds, AgUiContents,
       AgUiTerminals, Sdk!BlockTypes, Sdk!BlockStarts, Sdk!BlockFinishes

\* A block is opened if it has to be, and continued.
LEMMA DeltaWalks ==
    ASSUME NEW open, NEW start, NEW delta, NEW key, NEW opens \in BOOLEAN,
           start.type \in Sdk!BlockStarts, delta.type \in {"text-delta", "reasoning-delta"},
           KeyOf(start) = key, KeyOf(delta) = key, open = IF opens THEN {} ELSE {key}
    PROVE  /\ Walk(open, Sdk!Option(opens, start) \o <<delta>>, {key})
           /\ Typed(Sdk!Option(opens, start) \o <<delta>>, SdkTypes)
<1>1. /\ start.type \in Sdk!BlockTypes /\ delta.type \in Sdk!BlockTypes
      /\ start.type \notin Sdk!BlockFinishes
      /\ delta.type \notin Sdk!BlockStarts /\ delta.type \notin Sdk!BlockFinishes
  BY DEF Sdk!BlockTypes, Sdk!BlockStarts, Sdk!BlockFinishes
<1>2. /\ Starts(start) /\ ~ Ends(start) /\ ~ Continues(start) /\ ~ Separates(start)
      /\ ~ Starts(delta) /\ ~ Ends(delta) /\ Continues(delta) /\ ~ Separates(delta)
      /\ start.type \in SdkTypes /\ delta.type \in SdkTypes
  BY <1>1, BlockFrames
<1>3. Fits({}, start) /\ After({}, start) = {key}
  BY <1>2 DEF Fits, After
<1>4. Fits({key}, delta) /\ After({key}, delta) = {key}
  BY <1>2 DEF Fits, After
<1>5. PICK first : first = Sdk!Option(opens, start)
  OBVIOUS
<1>6. Walk(open, first, {key}) /\ Typed(first, SdkTypes)
  <2>1. CASE opens
    <3>1. first = <<start>> /\ open = {}
      BY <1>5, <2>1, SameOption
    <3>2. QED BY <1>2, <1>3, <3>1, WalkOne, TypedOne
  <2>2. CASE ~ opens
    <3>1. first = <<>> /\ open = {key}
      BY <1>5, <2>2, SameOption
    <3>2. QED BY <3>1, WalkNone, TypedNone
  <2>3. QED BY <2>1, <2>2
<1>7. Walk({key}, <<delta>>, {key}) /\ Typed(<<delta>>, SdkTypes)
  BY <1>2, <1>4, WalkOne, TypedOne
<1>8. Walk(open, first \o <<delta>>, {key}) /\ Typed(first \o <<delta>>, SdkTypes)
  BY <1>6, <1>7, WalkConcat, TypedConcat
<1>9. QED BY <1>5, <1>8

\* Closing what is open.
LEMMA BlockEndsWalk ==
    ASSUME NEW p, Producer(p)
    PROVE  /\ Walk(SdkBlocks(p), Sdk!BlockEnds(p), {}) /\ Typed(Sdk!BlockEnds(p), SdkTypes)
           /\ Sdk!BlockEnds(p) = <<>> => SdkBlocks(p) = {} /\ ~ p.text /\ ~ p.reasoning
<1>1. PICK text, thinking : /\ text = Sdk!BlockChunk("text-end", p.block)
                            /\ thinking = Sdk!BlockChunk("reasoning-end", p.block)
  OBVIOUS
<1>2. PICK ends : ends = Sdk!BlockEnds(p)
  OBVIOUS
<1>3. ends = Sdk!Option(p.text, text) \o Sdk!Option(p.reasoning, thinking)
  BY <1>1, <1>2 DEF Sdk!BlockEnds
<1>4. text.type = "text-end" /\ text.block = p.block /\ thinking.type = "reasoning-end"
      /\ thinking.block = p.block
  BY <1>1 DEF Sdk!BlockChunk
<1>5. text.type \in Sdk!BlockTypes /\ thinking.type \in Sdk!BlockTypes
      /\ text.type \notin Sdk!BlockStarts /\ thinking.type \notin Sdk!BlockStarts
      /\ text.type \in Sdk!BlockFinishes /\ thinking.type \in Sdk!BlockFinishes
  BY <1>4 DEF Sdk!BlockTypes, Sdk!BlockStarts, Sdk!BlockFinishes
<1>6. KeyOf(text) = <<"text", p.block>> /\ KeyOf(thinking) = <<"reasoning", p.block>>
  BY <1>4, <1>5, BlockFrames DEF Sdk!FamilyOf
<1>7. ASSUME NEW f, f \in {text, thinking}
      PROVE  Fits({KeyOf(f)}, f) /\ After({KeyOf(f)}, f) = {} /\ f.type \in SdkTypes
  BY <1>5, <1>7, BlockFrames DEF Fits, After
<1>8. IsSequence(<<text>>) /\ IsSequence(<<thinking>>)
  BY OneIsSequence
<1>9. CASE p.text
  <2>1. ~ p.reasoning /\ SdkBlocks(p) = {KeyOf(text)}
    BY <1>6, <1>9 DEF Producer, SdkBlocks
  <2>2. ends = <<text>>
    <3>1. ends = <<text>> \o <<>>
      BY <1>3, <1>9, <2>1, SameOption
    <3>2. QED BY <1>8, <3>1, NothingAdded
  <2>3. Walk({KeyOf(text)}, <<text>>, {}) /\ Typed(<<text>>, SdkTypes)
    BY <1>7, WalkOne, TypedOne
  <2>4. <<text>> # <<>>
    OBVIOUS
  <2>5. QED BY <1>2, <2>1, <2>2, <2>3, <2>4
<1>10. CASE p.reasoning
  <2>1. ~ p.text /\ SdkBlocks(p) = {KeyOf(thinking)}
    BY <1>6, <1>10 DEF Producer, SdkBlocks
  <2>2. ends = <<thinking>>
    <3>1. ends = <<>> \o <<thinking>>
      BY <1>3, <1>10, <2>1, SameOption
    <3>2. QED BY <1>8, <3>1, NothingAdded
  <2>3. Walk({KeyOf(thinking)}, <<thinking>>, {}) /\ Typed(<<thinking>>, SdkTypes)
    BY <1>7, WalkOne, TypedOne
  <2>4. <<thinking>> # <<>>
    OBVIOUS
  <2>5. QED BY <1>2, <2>1, <2>2, <2>3, <2>4
<1>11. CASE ~ p.text /\ ~ p.reasoning
  <2>1. SdkBlocks(p) = {}
    BY <1>11 DEF SdkBlocks
  <2>2. ends = <<>>
    <3>1. ends = <<>> \o <<>>
      BY <1>3, <1>11, SameOption
    <3>2. QED BY <3>1, NoneIsSequence, NothingAdded
  <2>3. QED BY <1>2, <1>11, <2>1, <2>2, WalkNone, TypedNone
<1>12. QED BY <1>9, <1>10, <1>11 DEF Producer

\* What the producer moves to, and the chunks it makes on the way.
Produces(p, q, chunks) ==
    /\ Producer(q)
    /\ q.openBlocks = p.openBlocks /\ q.violations = p.violations /\ q.finished = p.finished
    /\ Walk(SdkBlocks(p), chunks, SdkBlocks(q))

SameTotals(p, q) == q.total = p.total /\ q.current = p.current
Quieter(p, q)    == q.text \/ q.reasoning => p.text \/ p.reasoning

\* Chunks that open and close nothing.
LEMMA PlainProduces ==
    ASSUME NEW p, NEW q, NEW chunks, Producer(p), Producer(q),
           q.block = p.block, q.text = p.text, q.reasoning = p.reasoning,
           q.openBlocks = p.openBlocks, q.violations = p.violations, q.finished = p.finished,
           Walk(SdkBlocks(p), chunks, SdkBlocks(p))
    PROVE  Produces(p, q, chunks) /\ Quieter(p, q)
BY DEF Produces, Quieter, SdkBlocks

LEMMA NoBlockShape ==
    ASSUME NEW p, Producer(p)
    PROVE  /\ Producer(Sdk!NoBlock(p)) /\ Producer(Sdk!Advance(Sdk!NoBlock(p)))
           /\ SdkBlocks(Sdk!NoBlock(p)) = {} /\ SdkBlocks(Sdk!Advance(Sdk!NoBlock(p))) = {}
           /\ SameTotals(p, Sdk!NoBlock(p)) /\ SameTotals(p, Sdk!Advance(Sdk!NoBlock(p)))
           /\ \A q \in {Sdk!NoBlock(p), Sdk!Advance(Sdk!NoBlock(p))} :
                /\ ~ q.text /\ ~ q.reasoning
                /\ q.openBlocks = p.openBlocks /\ q.violations = p.violations /\ q.finished = p.finished
<1>1. PICK one, two : one = Sdk!NoBlock(p) /\ two = Sdk!Advance(one)
  OBVIOUS
<1>2. one = [p EXCEPT !.text = FALSE, !.reasoning = FALSE]
  BY <1>1 DEF Sdk!NoBlock
<1>3. two = [one EXCEPT !.block = one.block + 1]
  BY <1>1 DEF Sdk!Advance
<1>4. /\ DOMAIN one = SdkFields /\ one.text = FALSE /\ one.reasoning = FALSE /\ SameTotals(p, one)
      /\ one.openBlocks = p.openBlocks /\ one.violations = p.violations /\ one.finished = p.finished
  BY <1>2 DEF Producer, SdkFields, SameTotals
<1>5. /\ DOMAIN two = SdkFields /\ two.text = FALSE /\ two.reasoning = FALSE /\ SameTotals(p, two)
      /\ two.openBlocks = p.openBlocks /\ two.violations = p.violations /\ two.finished = p.finished
  BY <1>3, <1>4 DEF SdkFields, SameTotals
<1>6. Producer(one) /\ Producer(two) /\ SdkBlocks(one) = {} /\ SdkBlocks(two) = {}
  BY <1>4, <1>5 DEF Producer, SameTotals, SdkBlocks
<1>7. \A q \in {one, two} : /\ ~ q.text /\ ~ q.reasoning
                            /\ q.openBlocks = p.openBlocks /\ q.violations = p.violations
                            /\ q.finished = p.finished
  BY <1>4, <1>5
<1>8. QED BY <1>1, <1>4, <1>5, <1>6, <1>7

-----------------------------------------------------------------------------
(* The handlers of the producer. *)

LEMMA OnStepStartProduces ==
    ASSUME NEW p, Producer(p), ~ p.text, ~ p.reasoning
    PROVE  /\ Produces(p, Sdk!OnStepStart(p).p, Sdk!OnStepStart(p).chunks)
           /\ Typed(Sdk!OnStepStart(p).chunks, SdkTypes)
           /\ Quieter(p, Sdk!OnStepStart(p).p)
           /\ Sdk!OnStepStart(p).p.total = p.total /\ Sdk!OnStepStart(p).p.current = NoUsage
<1>1. PICK produced, chunk : produced = Sdk!OnStepStart(p) /\ chunk = Sdk!Chunk("start-step")
  OBVIOUS
<1>2. PICK one : one = Sdk!NoBlock(Sdk!Advance(p))
  OBVIOUS
<1>3. /\ DOMAIN one = SdkFields /\ one.text = FALSE /\ one.reasoning = FALSE
      /\ one.total = p.total /\ one.openBlocks = p.openBlocks /\ one.violations = p.violations
      /\ one.finished = p.finished
  BY <1>2 DEF Sdk!NoBlock, Sdk!Advance, Producer, SdkFields
<1>4. produced.chunks = <<chunk>> /\ chunk.type = "start-step"
  BY <1>1 DEF Sdk!OnStepStart, Sdk!Produced, Sdk!Chunk
<1>5. produced.p = [one EXCEPT !.sig = Sdk!NoSig, !.started = {}, !.args = Sdk!EmptyFold,
                               !.current = Sdk!NoUsage]
  BY <1>1, <1>2 DEF Sdk!OnStepStart, Sdk!Produced
<1>6. Sdk!NoUsage = NoUsage
  BY DEF Sdk!NoUsage, NoUsage
<1>7. PICK q : q = produced.p
  OBVIOUS
<1>8. /\ DOMAIN q = SdkFields /\ q.text = FALSE /\ q.reasoning = FALSE
      /\ q.total = p.total /\ q.openBlocks = p.openBlocks /\ q.violations = p.violations
      /\ q.finished = p.finished /\ q.current = NoUsage
  BY <1>3, <1>5, <1>6, <1>7 DEF SdkFields
<1>9. Producer(q) /\ SdkBlocks(q) = {} /\ SdkBlocks(p) = {}
  BY <1>8, NoUsageShape DEF Producer, SdkBlocks
<1>10. Walk({}, <<chunk>>, {}) /\ Typed(<<chunk>>, SdkTypes)
  BY <1>4, SeparatorWalks
<1>11. Produces(p, q, <<chunk>>) /\ Quieter(p, q)
  BY <1>8, <1>9, <1>10 DEF Produces, Quieter
<1>12. QED BY <1>1, <1>4, <1>7, <1>8, <1>10, <1>11

LEMMA OnDeltaProduces ==
    ASSUME NEW p, NEW event, Producer(p), event.type \in {"text", "reasoning"}
    PROVE  /\ Produces(p, Sdk!OnDelta(p, event).p, Sdk!OnDelta(p, event).chunks)
           /\ Typed(Sdk!OnDelta(p, event).chunks, SdkTypes)
           /\ SameTotals(p, Sdk!OnDelta(p, event).p)
<1>1. PICK produced, isText : produced = Sdk!OnDelta(p, event) /\ isText = (event.type = "text")
  OBVIOUS
<1>2. PICK other, ended :
        /\ other = (IF isText THEN p.reasoning ELSE p.text)
        /\ ended = IF other THEN Sdk!Advance(Sdk!NoBlock(p)) ELSE p
  OBVIOUS
<1>3. PICK opens, opened :
        /\ opens = (IF isText THEN ~ ended.text ELSE ~ ended.reasoning)
        /\ opened = IF isText THEN [ended EXCEPT !.text = TRUE]
                    ELSE [ended EXCEPT !.reasoning = TRUE,
                                       !.sig = IF event.sig # Sdk!NoSig THEN event.sig ELSE @]
  OBVIOUS
<1>4. PICK start, delta :
        /\ start = Sdk!BlockChunk(IF isText THEN "text-start" ELSE "reasoning-start", opened.block)
        /\ delta = Sdk!DeltaChunk(IF isText THEN "text-delta" ELSE "reasoning-delta", opened.block, event.text)
  OBVIOUS
<1>5. PICK ends : ends = IF other THEN Sdk!BlockEnds(p) ELSE <<>>
  OBVIOUS
<1>6. produced = Sdk!Produced(opened, (ends \o Sdk!Option(opens, start)) \o <<delta>>)
  BY <1>1, <1>2, <1>3, <1>4, <1>5 DEF Sdk!OnDelta
<1>7. produced.p = opened /\ produced.chunks = (ends \o Sdk!Option(opens, start)) \o <<delta>>
  BY <1>6 DEF Sdk!Produced
<1>8. /\ Producer(ended) /\ SameTotals(p, ended) /\ ended.openBlocks = p.openBlocks
      /\ ended.violations = p.violations /\ ended.finished = p.finished
      /\ IF isText THEN ~ ended.reasoning ELSE ~ ended.text
      /\ other => ~ ended.text /\ ~ ended.reasoning
  <2>1. CASE other
    BY <1>2, <2>1, NoBlockShape
  <2>2. CASE ~ other
    <3>1. ended = p
      BY <1>2, <2>2
    <3>2. IF isText THEN ~ p.reasoning ELSE ~ p.text
      BY <1>2, <2>2
    <3>3. QED BY <2>2, <3>1, <3>2 DEF SameTotals
  <2>3. QED BY <2>1, <2>2
<1>9. /\ DOMAIN opened = SdkFields /\ SameTotals(p, opened) /\ opened.openBlocks = p.openBlocks
      /\ opened.violations = p.violations /\ opened.finished = p.finished
      /\ opened.block = ended.block
      /\ opened.text = (IF isText THEN TRUE ELSE ended.text)
      /\ opened.reasoning = (IF isText THEN ended.reasoning ELSE TRUE)
  <2>1. CASE isText
    BY <1>3, <1>8, <2>1 DEF Producer, SdkFields, SameTotals
  <2>2. CASE ~ isText
    <3>1. PICK sig : sig = IF event.sig # Sdk!NoSig THEN event.sig ELSE ended.sig
      OBVIOUS
    <3>2. opened = [ended EXCEPT !.reasoning = TRUE, !.sig = sig]
      BY <1>3, <2>2, <3>1
    <3>3. QED BY <1>8, <2>2, <3>2 DEF Producer, SdkFields, SameTotals
  <2>3. QED BY <2>1, <2>2
<1>10. Producer(opened)
  BY <1>8, <1>9 DEF Producer, SameTotals
<1>11. /\ start.type = (IF isText THEN "text-start" ELSE "reasoning-start")
       /\ delta.type = (IF isText THEN "text-delta" ELSE "reasoning-delta")
       /\ start.block = opened.block /\ delta.block = opened.block
  BY <1>4 DEF Sdk!BlockChunk, Sdk!DeltaChunk
<1>12. /\ start.type \in Sdk!BlockStarts /\ delta.type \in {"text-delta", "reasoning-delta"}
       /\ start.type \in Sdk!BlockTypes /\ delta.type \in Sdk!BlockTypes
  BY <1>11 DEF Sdk!BlockTypes, Sdk!BlockStarts, Sdk!BlockFinishes
<1>13. PICK key : key = <<IF isText THEN "text" ELSE "reasoning", opened.block>>
  OBVIOUS
<1>14. KeyOf(start) = key /\ KeyOf(delta) = key
  <2>1. KeyOf(start) = <<Sdk!FamilyOf(start.type), opened.block>>
        /\ KeyOf(delta) = <<Sdk!FamilyOf(delta.type), opened.block>>
    BY <1>11, <1>12, BlockFrames
  <2>2. Sdk!FamilyOf(start.type) = (IF isText THEN "text" ELSE "reasoning")
        /\ Sdk!FamilyOf(delta.type) = (IF isText THEN "text" ELSE "reasoning")
    BY <1>11 DEF Sdk!FamilyOf
  <2>3. QED BY <1>13, <2>1, <2>2
<1>15. SdkBlocks(opened) = {key}
  BY <1>8, <1>9, <1>13 DEF SdkBlocks
<1>16. SdkBlocks(ended) = (IF opens THEN {} ELSE {key}) /\ opens \in BOOLEAN
  BY <1>3, <1>8, <1>9, <1>13 DEF SdkBlocks
<1>17. Walk(SdkBlocks(p), ends, SdkBlocks(ended)) /\ Typed(ends, SdkTypes)
  <2>1. CASE other
    <3>1. SdkBlocks(ended) = {}
      BY <1>8, <2>1 DEF SdkBlocks
    <3>2. QED BY <1>5, <2>1, <3>1, BlockEndsWalk
  <2>2. CASE ~ other
    BY <1>2, <1>5, <2>2, WalkNone, TypedNone
  <2>3. QED BY <2>1, <2>2
<1>18. PICK first : first = Sdk!Option(opens, start)
  OBVIOUS
<1>19. /\ Walk(SdkBlocks(ended), first \o <<delta>>, {key})
       /\ Typed(first \o <<delta>>, SdkTypes)
  BY <1>12, <1>14, <1>16, <1>18, DeltaWalks
<1>20. (ends \o first) \o <<delta>> = ends \o (first \o <<delta>>)
  <2>1. IsSequence(first)
    <3>1. CASE opens
      <4>1. first = <<start>>
        BY <1>18, <3>1, SameOption
      <4>2. QED BY <4>1, OneIsSequence
    <3>2. CASE ~ opens
      <4>1. first = <<>>
        BY <1>18, <3>2, SameOption
      <4>2. QED BY <4>1, NoneIsSequence
    <3>3. QED BY <3>1, <3>2
  <2>2. IsSequence(ends) /\ IsSequence(<<delta>>)
    BY <1>17, OneIsSequence DEF Typed
  <2>3. QED BY <2>1, <2>2, ConcatAssociates
<1>21. PICK chunks : chunks = produced.chunks
  OBVIOUS
<1>22. Walk(SdkBlocks(p), chunks, {key}) /\ Typed(chunks, SdkTypes)
  <2>1. chunks = ends \o (first \o <<delta>>)
    BY <1>7, <1>18, <1>20, <1>21
  <2>2. QED BY <1>17, <1>19, <2>1, WalkConcat, TypedConcat
<1>23. Produces(p, opened, chunks)
  BY <1>9, <1>10, <1>15, <1>22 DEF Produces
<1>24. QED BY <1>1, <1>7, <1>9, <1>21, <1>22, <1>23

LEMMA OnToolCallStartProduces ==
    ASSUME NEW p, NEW event, Producer(p)
    PROVE  /\ Produces(p, Sdk!OnToolCallStart(p, event).p, Sdk!OnToolCallStart(p, event).chunks)
           /\ Typed(Sdk!OnToolCallStart(p, event).chunks, SdkTypes)
           /\ SameTotals(p, Sdk!OnToolCallStart(p, event).p)
           /\ Quieter(p, Sdk!OnToolCallStart(p, event).p)
<1>1. PICK produced, ends : produced = Sdk!OnToolCallStart(p, event) /\ ends = Sdk!BlockEnds(p)
  OBVIOUS
<1>2. CASE event.id = ""
  <2>1. produced = Sdk!Produced(p, <<>>)
    BY <1>1, <1>2 DEF Sdk!OnToolCallStart
  <2>2. produced.p = p /\ produced.chunks = <<>>
    BY <2>1 DEF Sdk!Produced
  <2>3. Produces(p, p, <<>>) /\ Quieter(p, p) /\ SameTotals(p, p)
    BY WalkNone DEF Produces, Quieter, SameTotals
  <2>4. QED BY <1>1, <2>2, <2>3, TypedNone
<1>3. CASE event.id # ""
  <2>1. PICK moved : moved = IF ends # <<>> THEN Sdk!Advance(Sdk!NoBlock(p)) ELSE p
    OBVIOUS
  <2>2. PICK q, start, delta :
          /\ q = [moved EXCEPT !.started = moved.started \cup {event.id},
                               !.args = [i \in DOMAIN moved.args \cup {event.id} |->
                                           IF i = event.id THEN event.args ELSE moved.args[i]]]
          /\ start = Sdk!ToolChunk("tool-input-start", event.id, event.name, <<>>)
          /\ delta = Sdk!ToolChunk("tool-input-delta", event.id, "", event.args)
    OBVIOUS
  <2>3. /\ Producer(moved) /\ SameTotals(p, moved) /\ moved.openBlocks = p.openBlocks
        /\ moved.violations = p.violations /\ moved.finished = p.finished
        /\ SdkBlocks(moved) = {} /\ ~ moved.text /\ ~ moved.reasoning
    <3>1. CASE ends # <<>>
      BY <2>1, <3>1, NoBlockShape
    <3>2. CASE ends = <<>>
      BY <1>1, <2>1, <3>2, BlockEndsWalk DEF SameTotals
    <3>3. QED BY <3>1, <3>2
  <2>4. PICK chunks : chunks = (ends \o <<start>>) \o Sdk!Option(event.args # <<>>, delta)
    OBVIOUS
  <2>5. produced.p = q /\ produced.chunks = chunks
    <3>1. produced = Sdk!Produced(q, chunks)
      BY <1>1, <1>3, <2>1, <2>2, <2>4, <2>3 DEF Sdk!OnToolCallStart, Producer, SdkFields
    <3>2. QED BY <3>1 DEF Sdk!Produced
  <2>6. /\ Producer(q) /\ SameTotals(p, q) /\ q.openBlocks = p.openBlocks
        /\ q.violations = p.violations /\ q.finished = p.finished /\ ~ q.text /\ ~ q.reasoning
    <3>1. PICK started, args : q = [moved EXCEPT !.started = started, !.args = args]
      BY <2>2
    <3>2. /\ DOMAIN q = SdkFields /\ SameTotals(p, q) /\ q.openBlocks = p.openBlocks
          /\ q.violations = p.violations /\ q.finished = p.finished /\ q.text = moved.text
          /\ q.reasoning = moved.reasoning
      BY <2>3, <3>1 DEF Producer, SdkFields, SameTotals
    <3>3. QED BY <2>3, <3>2 DEF Producer, SameTotals
  <2>7. Walk(SdkBlocks(p), ends \o <<start>>, {}) /\ Typed(ends \o <<start>>, SdkTypes)
    <3>1. start.type \in Plain
      BY <2>2 DEF Sdk!ToolChunk, Plain, Sdk!ToolTypes
    <3>2. Walk({}, <<start>>, {}) /\ Typed(<<start>>, SdkTypes)
      BY <3>1, PlainWalks
    <3>3. Walk(SdkBlocks(p), ends, {}) /\ Typed(ends, SdkTypes)
      BY <1>1, BlockEndsWalk
    <3>4. QED BY <3>2, <3>3, WalkConcat, TypedConcat
  <2>8. PICK second : second = Sdk!Option(event.args # <<>>, delta)
    OBVIOUS
  <2>9. Walk({}, second, {}) /\ Typed(second, SdkTypes)
    <3>1. delta.type \in Plain
      BY <2>2 DEF Sdk!ToolChunk, Plain, Sdk!ToolTypes
    <3>2. CASE event.args # <<>>
      <4>1. second = <<delta>>
        BY <2>8, <3>2, SameOption
      <4>2. QED BY <3>1, <4>1, PlainWalks
    <3>3. CASE event.args = <<>>
      <4>1. second = <<>>
        BY <2>8, <3>3, SameOption
      <4>2. QED BY <4>1, WalkNone, TypedNone
    <3>4. QED BY <3>2, <3>3
  <2>10. SdkBlocks(q) = {}
    BY <2>6 DEF SdkBlocks
  <2>11. Walk(SdkBlocks(p), chunks, {}) /\ Typed(chunks, SdkTypes)
    BY <2>4, <2>7, <2>8, <2>9, WalkConcat, TypedConcat
  <2>12. Produces(p, q, chunks) /\ Quieter(p, q)
    BY <2>6, <2>10, <2>11 DEF Produces, Quieter
  <2>13. QED BY <1>1, <2>5, <2>6, <2>11, <2>12
<1>4. QED BY <1>2, <1>3

\* Chunks that concern no block fit anywhere.
LEMMA PlainChunksWalk ==
    ASSUME NEW open, NEW chunks, Typed(chunks, Plain)
    PROVE  Walk(open, chunks, open) /\ Typed(chunks, SdkTypes)
<1>1. PICK m : m = Len(chunks)
  OBVIOUS
<1>2. IsSequence(chunks) /\ m \in Nat /\ DOMAIN chunks = 1 .. m
  BY <1>1, SequenceShape DEF Typed
<1>3. PICK trace : trace = [i \in 0 .. m |-> open]
  OBVIOUS
<1>4. ASSUME NEW i \in 1 .. m PROVE Fits(open, chunks[i]) /\ open = After(open, chunks[i])
  <2>1. PICK f : f = chunks[i]
    OBVIOUS
  <2>2. f.type \in Plain
    BY <1>2, <2>1 DEF Typed
  <2>3. ~ Starts(f) /\ ~ Ends(f) /\ ~ Continues(f) /\ ~ Separates(f)
    BY <2>2 DEF Plain, Starts, Ends, Continues, Separates, Sdk!ToolTypes, Sdk!Outputs, AgUiStarts,
                AgUiEnds, AgUiContents, AgUiTerminals, Sdk!BlockTypes, Sdk!BlockStarts, Sdk!BlockFinishes
  <2>4. QED BY <2>1, <2>3 DEF Fits, After
<1>5. \A i \in 1 .. m : trace[i - 1] = open /\ trace[i] = open
  BY <1>2, <1>3
<1>6. trace[0] = open /\ trace[m] = open
  BY <1>2, <1>3
<1>7. \A i \in DOMAIN chunks : Fits(trace[i - 1], chunks[i]) /\ trace[i] = After(trace[i - 1], chunks[i])
  BY <1>2, <1>4, <1>5
<1>8. Walk(open, chunks, open)
  BY <1>1, <1>2, <1>6, <1>7 DEF Walk
<1>9. Plain \subseteq SdkTypes
  BY DEF Plain, SdkTypes
<1>10. QED BY <1>8, <1>9, TypedMore

\* Only what is known of the calls changes.
Unmoved(p, q) ==
    /\ DOMAIN q = SdkFields
    /\ q.block = p.block /\ q.text = p.text /\ q.reasoning = p.reasoning
    /\ q.openBlocks = p.openBlocks /\ q.violations = p.violations /\ q.finished = p.finished

LEMMA UnmovedProduces ==
    ASSUME NEW p, NEW q, NEW chunks, Producer(p), Unmoved(p, q), q.total \in Usage, q.current \in Usage,
           Typed(chunks, Plain)
    PROVE  Produces(p, q, chunks) /\ Quieter(p, q) /\ Typed(chunks, SdkTypes)
<1>1. Producer(q)
  BY DEF Unmoved, Producer
<1>2. Walk(SdkBlocks(p), chunks, SdkBlocks(p)) /\ Typed(chunks, SdkTypes)
  BY PlainChunksWalk
<1>3. QED BY <1>1, <1>2, PlainProduces DEF Unmoved

LEMMA OnToolCallDeltaProduces ==
    ASSUME NEW p, NEW event, Producer(p)
    PROVE  /\ Produces(p, Sdk!OnToolCallDelta(p, event).p, Sdk!OnToolCallDelta(p, event).chunks)
           /\ Typed(Sdk!OnToolCallDelta(p, event).chunks, SdkTypes)
           /\ SameTotals(p, Sdk!OnToolCallDelta(p, event).p)
           /\ Quieter(p, Sdk!OnToolCallDelta(p, event).p)
<1>1. PICK produced, delta : /\ produced = Sdk!OnToolCallDelta(p, event)
                             /\ delta = Sdk!ToolChunk("tool-input-delta", event.id, "", event.args)
  OBVIOUS
<1>2. PICK q, chunks : q = produced.p /\ chunks = produced.chunks
  OBVIOUS
<1>3. Unmoved(p, q) /\ SameTotals(p, q) /\ Typed(chunks, Plain)
  <2>1. CASE event.id \notin p.started \/ event.args = <<>> \/ Sdk!ValidJSON(p.args[event.id])
    <3>1. produced = Sdk!Produced(p, <<>>)
      BY <1>1, <2>1 DEF Sdk!OnToolCallDelta
    <3>2. q = p /\ chunks = <<>>
      BY <1>2, <3>1 DEF Sdk!Produced
    <3>3. QED BY <3>2, TypedNone DEF Unmoved, SameTotals, Producer
  <2>2. CASE ~ (event.id \notin p.started \/ event.args = <<>> \/ Sdk!ValidJSON(p.args[event.id]))
    <3>1. produced = Sdk!Produced([p EXCEPT !.args[event.id] = @ \o event.args], <<delta>>)
      BY <1>1, <2>2 DEF Sdk!OnToolCallDelta
    <3>2. PICK args : produced = Sdk!Produced([p EXCEPT !.args = args], <<delta>>)
      BY <3>1
    <3>3. q = [p EXCEPT !.args = args] /\ chunks = <<delta>>
      BY <1>2, <3>2 DEF Sdk!Produced
    <3>4. delta.type \in Plain
      BY <1>1 DEF Sdk!ToolChunk, Plain, Sdk!ToolTypes
    <3>5. QED BY <3>3, <3>4, TypedOne DEF Unmoved, SameTotals, Producer, SdkFields
  <2>3. QED BY <2>1, <2>2
<1>4. QED BY <1>1, <1>2, <1>3, UnmovedProduces DEF SameTotals, Producer

LEMMA OnReadyProduces ==
    ASSUME NEW p, NEW event, Producer(p)
    PROVE  /\ Produces(p, Sdk!OnReady(p, event).p, Sdk!OnReady(p, event).chunks)
           /\ Typed(Sdk!OnReady(p, event).chunks, SdkTypes)
           /\ SameTotals(p, Sdk!OnReady(p, event).p)
           /\ Quieter(p, Sdk!OnReady(p, event).p)
<1>1. PICK produced : produced = Sdk!OnReady(p, event)
  OBVIOUS
<1>2. PICK q, chunks : q = produced.p /\ chunks = produced.chunks
  OBVIOUS
<1>3. Unmoved(p, q) /\ SameTotals(p, q) /\ Typed(chunks, Plain)
  <2>1. CASE event.id = "" \/ event.id \in p.ready
    <3>1. produced = Sdk!Produced(p, <<>>)
      BY <1>1, <2>1 DEF Sdk!OnReady
    <3>2. q = p /\ chunks = <<>>
      BY <1>2, <3>1 DEF Sdk!Produced
    <3>3. QED BY <3>2, TypedNone DEF Unmoved, SameTotals, Producer
  <2>2. CASE ~ (event.id = "" \/ event.id \in p.ready)
    <3>1. PICK ready, args : produced = Sdk!Produced([p EXCEPT !.ready = ready],
                                <<Sdk!ToolChunk("tool-input-available", event.id, event.name, args)>>)
      BY <1>1, <2>2 DEF Sdk!OnReady
    <3>2. PICK available : available = Sdk!ToolChunk("tool-input-available", event.id, event.name, args)
      OBVIOUS
    <3>3. q = [p EXCEPT !.ready = ready] /\ chunks = <<available>>
      BY <1>2, <3>1, <3>2 DEF Sdk!Produced
    <3>4. available.type \in Plain
      BY <3>2 DEF Sdk!ToolChunk, Plain, Sdk!ToolTypes
    <3>5. QED BY <3>3, <3>4, TypedOne DEF Unmoved, SameTotals, Producer, SdkFields
  <2>3. QED BY <2>1, <2>2
<1>4. QED BY <1>1, <1>2, <1>3, UnmovedProduces DEF SameTotals, Producer

LEMMA OnResultProduces ==
    ASSUME NEW p, NEW result, Producer(p)
    PROVE  /\ Produces(p, Sdk!OnResult(p, result).p, Sdk!OnResult(p, result).chunks)
           /\ Typed(Sdk!OnResult(p, result).chunks, SdkTypes)
           /\ SameTotals(p, Sdk!OnResult(p, result).p)
           /\ Quieter(p, Sdk!OnResult(p, result).p)
<1>1. PICK produced : produced = Sdk!OnResult(p, result)
  OBVIOUS
<1>2. PICK announced, outcome :
        /\ announced = (result.id = "" \/ result.id \in p.ready)
        /\ outcome = IF result.disposition = "error" THEN "tool-output-error" ELSE "tool-output-available"
  OBVIOUS
<1>3. PICK available, output :
        /\ available = Sdk!ToolChunk("tool-input-available", result.id, result.name,
                                     Sdk!ParseToolArgs(result.args))
        /\ output = Sdk!ToolChunk(outcome, result.id, "", <<result.output>>)
  OBVIOUS
<1>4. PICK ready : ready = p.ready \cup ({result.id} \ {""})
  OBVIOUS
<1>5. produced = Sdk!Produced([p EXCEPT !.ready = ready],
                              Sdk!Option(~ announced, available) \o <<output>>)
  BY <1>1, <1>2, <1>3, <1>4 DEF Sdk!OnResult
<1>6. PICK q, chunks : q = produced.p /\ chunks = produced.chunks
  OBVIOUS
<1>7. q = [p EXCEPT !.ready = ready] /\ chunks = Option(~ announced, available) \o <<output>>
  BY <1>5, <1>6, SameOption DEF Sdk!Produced
<1>8. available.type \in Plain /\ output.type \in Plain
  BY <1>2, <1>3 DEF Sdk!ToolChunk, Plain, Sdk!ToolTypes, Sdk!Outputs
<1>9. Typed(chunks, Plain)
  BY <1>7, <1>8, TypedOption, TypedOne, TypedConcat
<1>10. Unmoved(p, q) /\ SameTotals(p, q)
  BY <1>7 DEF Unmoved, SameTotals, Producer, SdkFields
<1>11. QED BY <1>1, <1>6, <1>9, <1>10, UnmovedProduces DEF SameTotals, Producer

LEMMA OnUsageProduces ==
    ASSUME NEW p, NEW usage \in Usage, Producer(p)
    PROVE  /\ Produces(p, Sdk!OnUsage(p, usage).p, Sdk!OnUsage(p, usage).chunks)
           /\ Typed(Sdk!OnUsage(p, usage).chunks, SdkTypes)
           /\ Sdk!OnUsage(p, usage).p.total = [f \in Counters |-> p.total[f] + usage[f] - p.current[f]]
           /\ Sdk!OnUsage(p, usage).p.current = usage
           /\ Quieter(p, Sdk!OnUsage(p, usage).p)
<1>1. PICK produced, total : /\ produced = Sdk!OnUsage(p, usage)
                             /\ total = [f \in Counters |-> p.total[f] + usage[f] - p.current[f]]
  OBVIOUS
<1>2. p.total \in Usage /\ p.current \in Usage
  BY DEF Producer
<1>3. total \in Usage
  <2>1. \A f \in Counters : p.total[f] \in Int /\ usage[f] \in Int /\ p.current[f] \in Int
    BY <1>2, UsageShape
  <2>2. \A f \in Counters : p.total[f] + usage[f] - p.current[f] \in Int
    BY <2>1
  <2>3. QED BY <1>1, <2>2, NoUsageShape DEF Usage
<1>4. produced = Sdk!Produced([p EXCEPT !.total = total, !.current = usage], <<>>)
  <2>1. DOMAIN p.total = Counters
    BY <1>2, UsageShape
  <2>2. QED BY <1>1, <2>1 DEF Sdk!OnUsage, Producer, SdkFields
<1>5. PICK q, chunks : q = produced.p /\ chunks = produced.chunks
  OBVIOUS
<1>6. q = [p EXCEPT !.total = total, !.current = usage] /\ chunks = <<>>
  BY <1>4, <1>5 DEF Sdk!Produced
<1>7. Unmoved(p, q) /\ q.total = total /\ q.current = usage
  BY <1>6 DEF Unmoved, Producer, SdkFields
<1>8. Typed(chunks, Plain)
  BY <1>6, TypedNone
<1>9. QED BY <1>1, <1>3, <1>5, <1>7, <1>8, UnmovedProduces

LEMMA OnStepEndProduces ==
    ASSUME NEW p, NEW event, Producer(p)
    PROVE  /\ Produces(p, Sdk!OnStepEnd(p, event).p, Sdk!OnStepEnd(p, event).chunks)
           /\ Typed(Sdk!OnStepEnd(p, event).chunks, SdkTypes)
           /\ SameTotals(p, Sdk!OnStepEnd(p, event).p)
           /\ Quieter(p, Sdk!OnStepEnd(p, event).p)
           /\ ~ Sdk!OnStepEnd(p, event).p.text /\ ~ Sdk!OnStepEnd(p, event).p.reasoning
<1>1. PICK produced, one, finish, ends :
        /\ produced = Sdk!OnStepEnd(p, event) /\ one = Sdk!NoBlock(p)
        /\ finish = Sdk!Chunk("finish-step") /\ ends = Sdk!BlockEnds(p)
  OBVIOUS
<1>2. PICK q, chunks : q = [one EXCEPT !.reason = event.reason] /\ chunks = ends \o <<finish>>
  OBVIOUS
<1>3. produced.p = q /\ produced.chunks = chunks
  BY <1>1, <1>2 DEF Sdk!OnStepEnd, Sdk!Produced
<1>4. /\ Producer(one) /\ SameTotals(p, one) /\ ~ one.text /\ ~ one.reasoning
      /\ one.openBlocks = p.openBlocks /\ one.violations = p.violations /\ one.finished = p.finished
  BY <1>1, NoBlockShape
<1>5. /\ Producer(q) /\ SameTotals(p, q) /\ ~ q.text /\ ~ q.reasoning
      /\ q.openBlocks = p.openBlocks /\ q.violations = p.violations /\ q.finished = p.finished
  BY <1>2, <1>4 DEF Producer, SdkFields, SameTotals
<1>6. Walk(SdkBlocks(p), chunks, {}) /\ Typed(chunks, SdkTypes)
  <2>1. Walk(SdkBlocks(p), ends, {}) /\ Typed(ends, SdkTypes)
    BY <1>1, BlockEndsWalk
  <2>2. finish.type = "finish-step"
    BY <1>1 DEF Sdk!Chunk
  <2>3. Walk({}, <<finish>>, {}) /\ Typed(<<finish>>, SdkTypes)
    BY <2>2, SeparatorWalks
  <2>4. QED BY <1>2, <2>1, <2>3, WalkConcat, TypedConcat
<1>7. SdkBlocks(q) = {}
  BY <1>5 DEF SdkBlocks
<1>8. Produces(p, q, chunks) /\ Quieter(p, q)
  BY <1>5, <1>6, <1>7 DEF Produces, Quieter
<1>9. QED BY <1>1, <1>3, <1>5, <1>6, <1>8

\* Every event the run emits, translated.
Translated(p, event, q, chunks) ==
    /\ Produces(p, q, chunks)
    /\ event.type # "done" => Typed(chunks, SdkTypes)
    /\ event.type = "done" => q = p /\ chunks = <<Sdk!FinishChunk(p.reason, p.total)>>
    /\ event.type \notin {"text", "reasoning"} => Quieter(p, q)
    /\ event.type = "stepEnd" => ~ q.text /\ ~ q.reasoning
    /\ event.type = "usage" =>
         /\ q.total = [f \in Counters |-> p.total[f] + event.usage[f] - p.current[f]]
         /\ q.current = event.usage
    /\ event.type = "stepStart" => q.total = p.total /\ q.current = NoUsage
    /\ event.type \notin {"usage", "stepStart"} => SameTotals(p, q)

LEMMA HandlersProduce ==
    ASSUME NEW p, NEW e
    PROVE  /\ DOMAIN Sdk!OnStepStart(p) = {"p", "chunks"}
           /\ DOMAIN Sdk!OnDelta(p, e) = {"p", "chunks"}
           /\ DOMAIN Sdk!OnToolCallStart(p, e) = {"p", "chunks"}
           /\ DOMAIN Sdk!OnToolCallDelta(p, e) = {"p", "chunks"}
           /\ DOMAIN Sdk!OnReady(p, e) = {"p", "chunks"}
           /\ DOMAIN Sdk!OnResult(p, e) = {"p", "chunks"}
           /\ DOMAIN Sdk!OnUsage(p, e) = {"p", "chunks"}
           /\ DOMAIN Sdk!OnStepEnd(p, e) = {"p", "chunks"}
<1>1. \A t, q, chunks : t = Sdk!Produced(q, chunks) => DOMAIN t = {"p", "chunks"}
  BY DEF Sdk!Produced
<1>2. DOMAIN Sdk!OnStepStart(p) = {"p", "chunks"}
  <2>1. \E q, chunks : Sdk!OnStepStart(p) = Sdk!Produced(q, chunks)
    BY DEF Sdk!OnStepStart
  <2>2. QED BY <1>1, <2>1
<1>3. DOMAIN Sdk!OnDelta(p, e) = {"p", "chunks"}
  <2>1. \E q, chunks : Sdk!OnDelta(p, e) = Sdk!Produced(q, chunks)
    BY DEF Sdk!OnDelta
  <2>2. QED BY <1>1, <2>1
<1>4. DOMAIN Sdk!OnToolCallStart(p, e) = {"p", "chunks"}
  <2>1. \E q, chunks : Sdk!OnToolCallStart(p, e) = Sdk!Produced(q, chunks)
    BY Zenon DEF Sdk!OnToolCallStart
  <2>2. QED BY <1>1, <2>1
<1>5. DOMAIN Sdk!OnToolCallDelta(p, e) = {"p", "chunks"}
  <2>1. \E q, chunks : Sdk!OnToolCallDelta(p, e) = Sdk!Produced(q, chunks)
    BY Zenon DEF Sdk!OnToolCallDelta
  <2>2. QED BY <1>1, <2>1
<1>6. DOMAIN Sdk!OnReady(p, e) = {"p", "chunks"}
  <2>1. \E q, chunks : Sdk!OnReady(p, e) = Sdk!Produced(q, chunks)
    BY Zenon DEF Sdk!OnReady
  <2>2. QED BY <1>1, <2>1
<1>7. DOMAIN Sdk!OnResult(p, e) = {"p", "chunks"}
  <2>1. \E q, chunks : Sdk!OnResult(p, e) = Sdk!Produced(q, chunks)
    BY DEF Sdk!OnResult
  <2>2. QED BY <1>1, <2>1
<1>8. DOMAIN Sdk!OnUsage(p, e) = {"p", "chunks"}
  <2>1. \E q, chunks : Sdk!OnUsage(p, e) = Sdk!Produced(q, chunks)
    BY DEF Sdk!OnUsage
  <2>2. QED BY <1>1, <2>1
<1>9. DOMAIN Sdk!OnStepEnd(p, e) = {"p", "chunks"}
  <2>1. \E q, chunks : Sdk!OnStepEnd(p, e) = Sdk!Produced(q, chunks)
    BY DEF Sdk!OnStepEnd
  <2>2. QED BY <1>1, <2>1
<1>10. QED BY <1>2, <1>3, <1>4, <1>5, <1>6, <1>7, <1>8, <1>9

LEMMA Translates ==
    ASSUME NEW p, NEW event, Producer(p), event.type \in EventTypes,
           event.type = "usage" => event.usage \in Usage,
           event.type \in {"stepStart", "done"} => ~ p.text /\ ~ p.reasoning,
           NEW t, t = Sdk!TranslateEvent(p, event)
    PROVE  DOMAIN t = {"p", "chunks"} /\ Translated(p, event, t.p, t.chunks)
<1>1. CASE event.type = "stepStart"
  <2>1. t = Sdk!OnStepStart(p)
    BY <1>1 DEF Sdk!TranslateEvent
  <2>2. QED BY <1>1, <2>1, OnStepStartProduces, HandlersProduce DEF Translated
<1>2. CASE event.type \in {"text", "reasoning"}
  <2>1. t = Sdk!OnDelta(p, event)
    BY <1>2 DEF Sdk!TranslateEvent
  <2>2. QED BY <1>2, <2>1, OnDeltaProduces, HandlersProduce DEF Translated
<1>3. CASE event.type = "toolCallStart"
  <2>1. t = Sdk!OnToolCallStart(p, event)
    BY <1>3 DEF Sdk!TranslateEvent
  <2>2. QED BY <1>3, <2>1, OnToolCallStartProduces, HandlersProduce DEF Translated
<1>4. CASE event.type = "toolCallDelta"
  <2>1. t = Sdk!OnToolCallDelta(p, event)
    BY <1>4 DEF Sdk!TranslateEvent
  <2>2. QED BY <1>4, <2>1, OnToolCallDeltaProduces, HandlersProduce DEF Translated
<1>5. CASE event.type = "ready"
  <2>1. t = Sdk!OnReady(p, event)
    BY <1>5 DEF Sdk!TranslateEvent
  <2>2. QED BY <1>5, <2>1, OnReadyProduces, HandlersProduce DEF Translated
<1>6. CASE event.type = "result"
  <2>1. t = Sdk!OnResult(p, event.result)
    BY <1>6 DEF Sdk!TranslateEvent
  <2>2. QED BY <1>6, <2>1, OnResultProduces, HandlersProduce DEF Translated
<1>7. CASE event.type = "usage"
  <2>1. t = Sdk!OnUsage(p, event.usage)
    BY <1>7 DEF Sdk!TranslateEvent
  <2>2. QED BY <1>7, <2>1, OnUsageProduces, HandlersProduce DEF Translated
<1>8. CASE event.type = "stepEnd"
  <2>1. t = Sdk!OnStepEnd(p, event)
    BY <1>8 DEF Sdk!TranslateEvent
  <2>2. QED BY <1>8, <2>1, OnStepEndProduces, HandlersProduce DEF Translated
<1>9. CASE event.type = "done"
  <2>1. PICK chunk : chunk = Sdk!FinishChunk(p.reason, p.total)
    OBVIOUS
  <2>2. t = Sdk!Produced(p, <<chunk>>)
    BY <1>9, <2>1 DEF Sdk!TranslateEvent
  <2>3. t.p = p /\ t.chunks = <<chunk>> /\ DOMAIN t = {"p", "chunks"}
    BY <2>2 DEF Sdk!Produced
  <2>4. chunk.type = "finish"
    BY <2>1 DEF Sdk!FinishChunk
  <2>5. SdkBlocks(p) = {}
    BY <1>9 DEF SdkBlocks
  <2>6. Walk(SdkBlocks(p), <<chunk>>, SdkBlocks(p))
    BY <2>4, <2>5, SeparatorWalks
  <2>7. Produces(p, p, <<chunk>>) /\ Quieter(p, p) /\ SameTotals(p, p)
    BY <2>6 DEF Produces, Quieter, SameTotals
  <2>8. QED BY <1>9, <2>1, <2>3, <2>7 DEF Translated
<1>10. CASE event.type \notin {"stepStart", "text", "reasoning", "toolCallStart", "toolCallDelta", "ready",
                               "result", "usage", "stepEnd", "done"}
  <2>1. PICK chunks : t = Sdk!Produced(p, chunks) /\ Typed(chunks, Plain)
    <3>1. CASE event.type = "approvalRequest"
      <4>1. PICK chunk : chunk = Sdk!ToolChunk("tool-approval-request", event.id, event.name, event.args)
        OBVIOUS
      <4>2. t = Sdk!Produced(p, <<chunk>>) /\ chunk.type \in Plain
        BY <3>1, <4>1 DEF Sdk!TranslateEvent, Sdk!ToolChunk, Plain, Sdk!ToolTypes
      <4>3. QED BY <4>2, TypedOne
    <3>2. CASE event.type = "outputDenied"
      <4>1. PICK chunk : chunk = Sdk!ToolChunk("tool-output-denied", event.id, "", <<>>)
        OBVIOUS
      <4>2. t = Sdk!Produced(p, <<chunk>>) /\ chunk.type \in Plain
        BY <3>2, <4>1 DEF Sdk!TranslateEvent, Sdk!ToolChunk, Plain, Sdk!ToolTypes, Sdk!Outputs
      <4>3. QED BY <4>2, TypedOne
    <3>3. CASE event.type = "invalid"
      <4>1. PICK chunk : chunk = Sdk!ToolChunk("tool-input-error", event.id, event.name, <<"invalid">>)
        OBVIOUS
      <4>2. t = Sdk!Produced(p, <<chunk>>) /\ chunk.type \in Plain
        BY <3>3, <4>1 DEF Sdk!TranslateEvent, Sdk!ToolChunk, Plain, Sdk!ToolTypes
      <4>3. QED BY <4>2, TypedOne
    <3>4. CASE event.type = "source"
      <4>1. PICK chunk : chunk = [type |-> "source-url", val |-> event.url]
        OBVIOUS
      <4>2. t = Sdk!Produced(p, <<chunk>>) /\ chunk.type \in Plain
        BY <3>4, <4>1 DEF Sdk!TranslateEvent, Plain
      <4>3. QED BY <4>2, TypedOne
    <3>5. CASE event.type = "file"
      <4>1. PICK chunk : chunk = [type |-> "file", val |-> [event.data EXCEPT !.source = "url"]]
        OBVIOUS
      <4>2. t = Sdk!Produced(p, <<chunk>>) /\ chunk.type \in Plain
        BY <3>5, <4>1 DEF Sdk!TranslateEvent, Plain
      <4>3. QED BY <4>2, TypedOne
    <3>6. CASE event.type = "structuredOutput"
      <4>1. PICK chunk : chunk = [type |-> "data-structured-output", val |-> event.object]
        OBVIOUS
      <4>2. t = Sdk!Produced(p, <<chunk>>) /\ chunk.type \in Plain
        BY <3>6, <4>1 DEF Sdk!TranslateEvent, Plain
      <4>3. QED BY <4>2, TypedOne
    <3>7. CASE event.type \notin {"approvalRequest", "outputDenied", "invalid", "source", "file",
                                  "structuredOutput"}
      <4>1. t = Sdk!Produced(p, <<>>)
        BY <1>10, <3>7 DEF Sdk!TranslateEvent
      <4>2. QED BY <4>1, TypedNone
    <3>8. QED BY <3>1, <3>2, <3>3, <3>4, <3>5, <3>6, <3>7
  <2>2. t.p = p /\ t.chunks = chunks /\ DOMAIN t = {"p", "chunks"}
    BY <2>1 DEF Sdk!Produced
  <2>3. Unmoved(p, p) /\ SameTotals(p, p) /\ p.total \in Usage /\ p.current \in Usage
    BY DEF Unmoved, SameTotals, Producer
  <2>4. QED BY <1>10, <2>1, <2>2, <2>3, UnmovedProduces DEF Translated
<1>11. QED BY <1>1, <1>2, <1>3, <1>4, <1>5, <1>6, <1>7, <1>8, <1>9, <1>10

-----------------------------------------------------------------------------
(* The AI SDK encoder as a whole. *)

LEMMA FinishingOne ==
    ASSUME NEW final, NEW usage, IsFinish(final, usage)
    PROVE  Finishing(<<final>>, usage)
<1>1. PICK none : none = <<>>
  OBVIOUS
<1>2. <<final>> = none \o <<final>> /\ Typed(none, SdkTypes)
  BY <1>1, OneIsSequence, NothingAdded, TypedNone
<1>3. QED BY <1>2 DEF Finishing

LEMMA PairIsConcat ==
    ASSUME NEW a, NEW b
    PROVE  <<a, b>> = <<a>> \o <<b>>
<1> DEFINE S == {a, b}
<1>1. <<a>> \in Seq(S) /\ <<b>> \in Seq(S) /\ Len(<<a>>) = 1 /\ Len(<<b>>) = 1
      /\ <<a>>[1] = a /\ <<b>>[1] = b
  OBVIOUS
<1>2. PICK s, t, st : s = <<a>> /\ t = <<b>> /\ st = s \o t
  OBVIOUS
<1> HIDE DEF S
<1>3. st \in Seq(S) /\ Len(st) = 2 /\ st[1] = a /\ st[2] = b
  BY <1>1, <1>2
<1>4. st = [i \in 1 .. 2 |-> st[i]]
  BY <1>3
<1>5. PICK pair : pair = <<a, b>>
  OBVIOUS
<1>6. pair \in Seq(S) /\ Len(pair) = 2 /\ pair[1] = a /\ pair[2] = b
  BY <1>5 DEF S
<1>7. pair = [i \in 1 .. 2 |-> pair[i]]
  BY <1>6
<1>8. \A i \in 1 .. 2 : st[i] = pair[i]
  BY <1>3, <1>6
<1>9. st = pair
  BY <1>4, <1>7, <1>8
<1>10. QED BY <1>2, <1>5, <1>9

\* Framing what the producer made.
LEMMA FramedProduces ==
    ASSUME NEW e, NEW q, NEW chunks, NEW p, NEW produced, NEW r, SdkOk(e), Produces(e, q, chunks),
           DOMAIN p = SdkFields, p.text = q.text, p.reasoning = q.reasoning, p.block = q.block,
           p.total = q.total, p.current = q.current,
           p.openBlocks = q.openBlocks, p.violations = q.violations,
           produced.p = p, produced.chunks = chunks, r = Sdk!Framed(produced),
           Typed(chunks, SdkTypes) \/ \E usage : Finishing(chunks, usage)
    PROVE  /\ r.ok /\ SdkOk(r.enc) /\ SameTotals(q, r.enc)
           /\ r.enc.text = q.text /\ r.enc.reasoning = q.reasoning /\ r.enc.finished = p.finished
           /\ Typed(chunks, SdkTypes) => Typed(r.frames, SdkTypes)
           /\ chunks = <<>> => r.frames = <<>>
           /\ \A usage : Finishing(chunks, usage) => Ending(r.frames, usage)
<1>1. Typed(chunks, SdkTypes \cup {"finish"})
  <2>1. CASE Typed(chunks, SdkTypes)
    <3>1. SdkTypes \subseteq SdkTypes \cup {"finish"}
      OBVIOUS
    <3>2. QED BY <2>1, <3>1, TypedMore
  <2>2. ASSUME NEW usage, Finishing(chunks, usage)
        PROVE  Typed(chunks, SdkTypes \cup {"finish"})
    <3>0. PICK init, final : Typed(init, SdkTypes) /\ final.type = "finish" /\ chunks = init \o <<final>>
      BY <2>2 DEF Finishing, IsFinish
    <3>1. SdkTypes \subseteq SdkTypes \cup {"finish"} /\ final.type \in SdkTypes \cup {"finish"}
      BY <3>0
    <3>2. Typed(init, SdkTypes \cup {"finish"}) /\ Typed(<<final>>, SdkTypes \cup {"finish"})
      BY <3>0, <3>1, TypedMore, TypedOne
    <3>3. QED BY <3>0, <3>2, TypedConcat
  <2>3. QED BY <2>1, <2>2
<1>2. Walk(p.openBlocks, chunks, SdkBlocks(q))
  BY DEF SdkOk, Produces
<1>3. /\ r.ok /\ SameProducer(r.enc, p) /\ r.enc.openBlocks = SdkBlocks(q)
      /\ Typed(chunks, SdkTypes) => Typed(r.frames, SdkTypes)
      /\ chunks = <<>> => r.frames = <<>>
  BY <1>1, <1>2, FramedRuns
<1>4. Producer(r.enc) /\ SdkBlocks(r.enc) = SdkBlocks(q)
  BY <1>3 DEF SameProducer, Producer, Produces, SdkBlocks
<1>5. r.enc.violations \cap BlockCodes = {}
  BY <1>3 DEF SameProducer, Produces, SdkOk
<1>6. /\ SameTotals(q, r.enc) /\ r.enc.text = q.text /\ r.enc.reasoning = q.reasoning
      /\ r.enc.finished = p.finished
  BY <1>3 DEF SameProducer, SameTotals
<1>7. \A usage : Finishing(chunks, usage) => Ending(r.frames, usage)
  BY <1>1, <1>2, FramedRuns
<1>8. QED BY <1>3, <1>4, <1>5, <1>6, <1>7 DEF SdkOk

\* encoder.Encode
LEMMA SdkEncodes ==
    ASSUME NEW e, NEW event, SdkOk(e), event.type \in EventTypes,
           event.type = "usage" => event.usage \in Usage,
           event.type \in {"stepStart", "done"} => ~ e.text /\ ~ e.reasoning,
           NEW r, r = Sdk!AiSdkEncode(e, event)
    PROVE  /\ r.ok /\ SdkOk(r.enc) /\ r.enc.finished = (e.finished \/ event.type = "done")
           /\ event.type # "done" => Typed(r.frames, SdkTypes)
           /\ event.type = "done" => Ending(r.frames, [e.total EXCEPT !.toolUse = 0])
           /\ event.type \notin {"text", "reasoning"} => Quieter(e, r.enc)
           /\ event.type = "stepEnd" => ~ r.enc.text /\ ~ r.enc.reasoning
           /\ event.type = "usage" =>
                /\ r.enc.total = [f \in Counters |-> e.total[f] + event.usage[f] - e.current[f]]
                /\ r.enc.current = event.usage
           /\ event.type = "stepStart" => r.enc.total = e.total /\ r.enc.current = NoUsage
           /\ event.type \notin {"usage", "stepStart"} => SameTotals(e, r.enc)
<1>1. PICK t : t = Sdk!TranslateEvent(e, event)
  OBVIOUS
<1>2. PICK q, chunks : q = t.p /\ chunks = t.chunks
  OBVIOUS
<1>3. DOMAIN t = {"p", "chunks"} /\ Translated(e, event, q, chunks)
  BY <1>1, <1>2, Translates DEF SdkOk
<1>4. PICK produced : produced = [t EXCEPT !.p = [q EXCEPT !.finished = q.finished \/ event.type = "done"]]
  OBVIOUS
<1>5. r = Sdk!Framed(produced)
  BY <1>1, <1>2, <1>3, <1>4 DEF Sdk!AiSdkEncode, Translated, Produces, Producer, SdkFields
<1>6. PICK p : p = [q EXCEPT !.finished = q.finished \/ event.type = "done"]
  OBVIOUS
<1>7. produced.p = p /\ produced.chunks = chunks
  BY <1>2, <1>3, <1>4, <1>6
<1>8. /\ DOMAIN p = SdkFields /\ p.text = q.text /\ p.reasoning = q.reasoning /\ p.block = q.block
      /\ p.total = q.total /\ p.current = q.current
      /\ p.openBlocks = q.openBlocks /\ p.violations = q.violations
      /\ p.finished = (q.finished \/ event.type = "done")
  BY <1>3, <1>6 DEF Translated, Produces, Producer, SdkFields
<1>9. p.finished = (e.finished \/ event.type = "done")
  BY <1>3, <1>8 DEF Translated, Produces
<1>10. PICK final : final = Sdk!FinishChunk(e.reason, e.total)
  OBVIOUS
<1>11. IsFinish(final, [e.total EXCEPT !.toolUse = 0])
  BY <1>10 DEF Sdk!FinishChunk, IsFinish
<1>12. Finishing(<<final>>, [e.total EXCEPT !.toolUse = 0])
  BY <1>11, FinishingOne
<1>13. event.type = "done" => Finishing(chunks, [e.total EXCEPT !.toolUse = 0])
  BY <1>3, <1>10, <1>12 DEF Translated
<1>14. /\ r.ok /\ SdkOk(r.enc) /\ SameTotals(q, r.enc)
       /\ r.enc.text = q.text /\ r.enc.reasoning = q.reasoning /\ r.enc.finished = p.finished
       /\ Typed(chunks, SdkTypes) => Typed(r.frames, SdkTypes)
       /\ \A usage : Finishing(chunks, usage) => Ending(r.frames, usage)
  <2>1. Produces(e, q, chunks) /\ (event.type # "done" => Typed(chunks, SdkTypes))
    BY <1>3 DEF Translated
  <2>2. Typed(chunks, SdkTypes) \/ \E usage : Finishing(chunks, usage)
    BY <1>13, <2>1
  <2>3. QED BY <1>5, <1>7, <1>8, <2>1, <2>2, FramedProduces
<1>15. event.type = "done" => Ending(r.frames, [e.total EXCEPT !.toolUse = 0])
  BY <1>13, <1>14
<1>16. event.type # "done" => Typed(r.frames, SdkTypes)
  BY <1>3, <1>14 DEF Translated
<1>17. event.type \notin {"text", "reasoning"} => Quieter(e, r.enc)
  BY <1>3, <1>14 DEF Translated, Quieter
<1>18. /\ event.type = "stepEnd" => ~ r.enc.text /\ ~ r.enc.reasoning
       /\ event.type = "usage" =>
            /\ r.enc.total = [f \in Counters |-> e.total[f] + event.usage[f] - e.current[f]]
            /\ r.enc.current = event.usage
       /\ event.type = "stepStart" => r.enc.total = e.total /\ r.enc.current = NoUsage
       /\ event.type \notin {"usage", "stepStart"} => SameTotals(e, r.enc)
  BY <1>3, <1>14 DEF Translated, SameTotals
<1>19. QED BY <1>9, <1>14, <1>15, <1>16, <1>17, <1>18

\* encoder.Start
LEMMA SdkBegins ==
    ASSUME NEW r, r = Sdk!AiSdkStart(Sdk!NewAiSdk)
    PROVE  /\ r.ok /\ SdkOk(r.enc) /\ Typed(r.frames, SdkTypes)
           /\ ~ r.enc.text /\ ~ r.enc.reasoning /\ r.enc.finished = FALSE
           /\ r.enc.total = NoUsage /\ r.enc.current = NoUsage
<1>1. PICK p, chunk : p = Sdk!NewAiSdk /\ chunk = Sdk!Chunk("start")
  OBVIOUS
<1>2. PICK produced : produced = Sdk!Produced(p, <<chunk>>)
  OBVIOUS
<1>3. r = Sdk!Framed(produced) /\ produced.p = p /\ produced.chunks = <<chunk>>
  BY <1>1, <1>2 DEF Sdk!AiSdkStart, Sdk!Produced
<1>4. Sdk!NoUsage = NoUsage
  BY DEF Sdk!NoUsage, NoUsage
<1>5. /\ DOMAIN p = SdkFields /\ p.text = FALSE /\ p.reasoning = FALSE /\ p.finished = FALSE
      /\ p.total = NoUsage /\ p.current = NoUsage /\ p.openBlocks = {} /\ p.violations = {}
  BY <1>1, <1>4 DEF Sdk!NewAiSdk, SdkFields
<1>6. SdkOk(p)
  BY <1>5, NoUsageShape DEF SdkOk, Producer, SdkBlocks
<1>7. chunk.type \in Plain
  BY <1>1 DEF Sdk!Chunk, Plain
<1>8. Produces(p, p, <<chunk>>) /\ Typed(<<chunk>>, SdkTypes)
  BY <1>6, <1>7, PlainWalks DEF Produces, SdkOk
<1>9. /\ r.ok /\ SdkOk(r.enc) /\ SameTotals(p, r.enc) /\ r.enc.text = p.text
      /\ r.enc.reasoning = p.reasoning /\ r.enc.finished = p.finished /\ Typed(r.frames, SdkTypes)
  <2>1. PICK chunks : chunks = <<chunk>>
    OBVIOUS
  <2>2. Produces(p, p, chunks) /\ Typed(chunks, SdkTypes) /\ produced.chunks = chunks
    BY <1>3, <1>8, <2>1
  <2>3. QED BY <1>3, <1>5, <1>6, <2>2, FramedProduces
<1>10. QED BY <1>5, <1>9 DEF SameTotals

\* encoder.Finish, which does not finish twice unless the run failed.
LEMMA SdkFinishes ==
    ASSUME NEW e, NEW failed \in BOOLEAN, SdkOk(e), ~ failed => ~ e.text /\ ~ e.reasoning,
           e.finished \in BOOLEAN, NEW r, r = Sdk!AiSdkFinish(e, failed)
    PROVE  /\ SdkOk(r.enc)
           /\ ~ failed /\ e.finished => r.frames = <<>>
           /\ ~ failed /\ ~ e.finished => Ending(r.frames, [e.total EXCEPT !.toolUse = 0])
           /\ failed => \E usage : Ending(r.frames, usage)
<1>1. CASE ~ failed /\ e.finished
  <2>1. PICK produced, chunks : produced = Sdk!Produced(e, chunks) /\ chunks = <<>>
    OBVIOUS
  <2>2. r = Sdk!Framed(produced) /\ produced.p = e /\ produced.chunks = chunks
    BY <1>1, <2>1 DEF Sdk!AiSdkFinish, Sdk!Produced
  <2>3. Produces(e, e, chunks) /\ Typed(chunks, SdkTypes) /\ DOMAIN e = SdkFields
    BY <2>1, WalkNone, TypedNone DEF Produces, SdkOk, Producer
  <2>4. SdkOk(r.enc) /\ r.frames = <<>>
    BY <2>1, <2>2, <2>3, FramedProduces
  <2>5. QED BY <1>1, <2>4
<1>2. CASE ~ failed /\ ~ e.finished
  <2>1. PICK done, t : done = Sdk!Done /\ t = Sdk!TranslateEvent(e, done)
    OBVIOUS
  <2>2. done.type = "done" /\ done.type \in EventTypes
    BY <2>1 DEF Sdk!Done, EventTypes
  <2>3. PICK q, chunks : q = t.p /\ chunks = t.chunks
    OBVIOUS
  <2>4. DOMAIN t = {"p", "chunks"} /\ Translated(e, done, q, chunks)
    BY <1>2, <2>1, <2>2, <2>3, Translates DEF SdkOk
  <2>5. PICK p, produced : p = [q EXCEPT !.finished = TRUE] /\ produced = [t EXCEPT !.p = p]
    OBVIOUS
  <2>6. r = Sdk!Framed(produced)
    BY <1>2, <2>1, <2>3, <2>4, <2>5 DEF Sdk!AiSdkFinish
  <2>7. produced.p = p /\ produced.chunks = chunks
    BY <2>3, <2>4, <2>5
  <2>8. /\ DOMAIN p = SdkFields /\ p.text = q.text /\ p.reasoning = q.reasoning /\ p.block = q.block
        /\ p.total = q.total /\ p.current = q.current
        /\ p.openBlocks = q.openBlocks /\ p.violations = q.violations
    BY <2>4, <2>5 DEF Translated, Produces, Producer, SdkFields
  <2>9. PICK final, usage : /\ final = Sdk!FinishChunk(e.reason, e.total)
                            /\ usage = [e.total EXCEPT !.toolUse = 0]
    OBVIOUS
  <2>10. IsFinish(final, usage)
    BY <2>9 DEF Sdk!FinishChunk, IsFinish
  <2>11. Finishing(chunks, usage) /\ Produces(e, q, chunks)
    <3>1. Finishing(<<final>>, usage)
      BY <2>10, FinishingOne
    <3>2. QED BY <2>2, <2>4, <2>9, <3>1 DEF Translated
  <2>12. SdkOk(r.enc) /\ Ending(r.frames, usage)
    BY <2>6, <2>7, <2>8, <2>11, FramedProduces
  <2>13. QED BY <1>2, <2>9, <2>12
<1>3. CASE failed
  <2>1. PICK one, ends, error, final :
          /\ one = Sdk!NoBlock(e) /\ ends = Sdk!BlockEnds(e)
          /\ error = Sdk!Chunk("error") /\ final = Sdk!FinishChunk("error", Sdk!NoUsage)
    OBVIOUS
  <2>2. PICK q, chunks, produced : /\ q = [one EXCEPT !.reason = "error"]
                                   /\ chunks = ends \o <<error, final>>
                                   /\ produced = Sdk!Produced(q, chunks)
    OBVIOUS
  <2>3. r = Sdk!Framed(produced) /\ produced.p = q /\ produced.chunks = chunks
    BY <1>3, <2>1, <2>2 DEF Sdk!AiSdkFinish, Sdk!OnError, Sdk!Produced
  <2>4. /\ Producer(one) /\ ~ one.text /\ ~ one.reasoning
        /\ one.openBlocks = e.openBlocks /\ one.violations = e.violations /\ one.finished = e.finished
    BY <2>1, NoBlockShape DEF SdkOk
  <2>5. /\ Producer(q) /\ ~ q.text /\ ~ q.reasoning
        /\ q.openBlocks = e.openBlocks /\ q.violations = e.violations /\ q.finished = e.finished
    BY <2>2, <2>4 DEF Producer, SdkFields
  <2>6. error.type \in Plain /\ final.type = "finish"
    BY <2>1 DEF Sdk!Chunk, Plain, Sdk!FinishChunk
  <2>7. Walk(SdkBlocks(e), ends, {}) /\ Typed(ends, SdkTypes)
    BY <2>1, BlockEndsWalk DEF SdkOk
  <2>8. Walk({}, <<error>>, {}) /\ Typed(<<error>>, SdkTypes) /\ Walk({}, <<final>>, {})
    BY <2>6, PlainWalks, SeparatorWalks
  <2>9. chunks = (ends \o <<error>>) \o <<final>>
    <3>1. <<error, final>> = <<error>> \o <<final>>
      BY PairIsConcat
    <3>2. IsSequence(ends) /\ IsSequence(<<error>>) /\ IsSequence(<<final>>)
      BY <2>7, OneIsSequence DEF Typed
    <3>3. QED BY <2>2, <3>1, <3>2, ConcatAssociates
  <2>10. PICK init : init = ends \o <<error>>
    OBVIOUS
  <2>11. Walk(SdkBlocks(e), chunks, {}) /\ Typed(init, SdkTypes) /\ chunks = init \o <<final>>
    BY <2>7, <2>8, <2>9, <2>10, WalkConcat, TypedConcat
  <2>12. SdkBlocks(q) = {}
    BY <2>5 DEF SdkBlocks
  <2>13. Produces(e, q, chunks) /\ DOMAIN q = SdkFields
    BY <2>5, <2>11, <2>12 DEF Produces, Producer
  <2>14. PICK usage : usage = final.usage
    OBVIOUS
  <2>15. Finishing(chunks, usage)
    <3>1. IsFinish(final, usage)
      BY <2>1, <2>14 DEF Sdk!FinishChunk, IsFinish
    <3>2. QED BY <2>11, <3>1 DEF Finishing
  <2>16. SdkOk(r.enc) /\ Ending(r.frames, usage)
    BY <2>3, <2>13, <2>15, FramedProduces
  <2>17. QED BY <1>3, <2>16
<1>4. QED BY <1>1, <1>2, <1>3

-----------------------------------------------------------------------------
(* The AG-UI encoder: blocks (uistream/agui/encoder*.go). *)

\* The frames that concern no block, and the frames of a run but the last.
AsidesUi == {"REASONING_START", "REASONING_END", "STEP_STARTED", "STEP_FINISHED", "TOOL_CALL_RESULT",
             "CUSTOM", "STATE_DELTA", "RUN_STARTED", "MESSAGES_SNAPSHOT", "STATE_SNAPSHOT"}

AgUiTypes == AsidesUi \cup AgUiStarts \cup AgUiContents \cup AgUiEnds

LEMMA UiFrames ==
    ASSUME NEW f, f.type \in AgUiTypes \cup AgUiTerminals
    PROVE  /\ KeyOf(f) = BlockKey(f)
           /\ Starts(f) <=> f.type \in AgUiStarts
           /\ Ends(f) <=> f.type \in AgUiEnds
           /\ Continues(f) <=> f.type \in AgUiContents \cup AgUiEnds
           /\ Separates(f) <=> f.type \in AgUiTerminals
           /\ f.type \notin Sdk!BlockTypes
BY DEF KeyOf, Starts, Ends, Continues, Separates, AgUiTypes, AsidesUi, AgUiStarts, AgUiEnds, AgUiContents,
       AgUiTerminals, Sdk!BlockTypes, Sdk!BlockStarts, Sdk!BlockFinishes

LEMMA AsidesWalk ==
    ASSUME NEW open, NEW frames, Typed(frames, AsidesUi)
    PROVE  Walk(open, frames, open) /\ Typed(frames, AgUiTypes)
<1>1. PICK m : m = Len(frames)
  OBVIOUS
<1>2. IsSequence(frames) /\ m \in Nat /\ DOMAIN frames = 1 .. m
  BY <1>1, SequenceShape DEF Typed
<1>3. PICK trace : trace = [i \in 0 .. m |-> open]
  OBVIOUS
<1>4. ASSUME NEW i \in 1 .. m PROVE Fits(open, frames[i]) /\ open = After(open, frames[i])
  <2>1. PICK f : f = frames[i]
    OBVIOUS
  <2>2. f.type \in AsidesUi
    BY <1>2, <2>1 DEF Typed
  <2>3. f.type \in AgUiTypes /\ f.type \notin AgUiStarts \cup AgUiContents \cup AgUiEnds \cup AgUiTerminals
    BY <2>2 DEF AgUiTypes, AsidesUi, AgUiStarts, AgUiContents, AgUiEnds, AgUiTerminals
  <2>4. ~ Starts(f) /\ ~ Ends(f) /\ ~ Continues(f) /\ ~ Separates(f)
    BY <2>3, UiFrames
  <2>5. QED BY <2>1, <2>4 DEF Fits, After
<1>5. \A i \in 1 .. m : trace[i - 1] = open /\ trace[i] = open
  BY <1>2, <1>3
<1>6. trace[0] = open /\ trace[m] = open
  BY <1>2, <1>3
<1>7. \A i \in DOMAIN frames : Fits(trace[i - 1], frames[i]) /\ trace[i] = After(trace[i - 1], frames[i])
  BY <1>2, <1>4, <1>5
<1>8. Walk(open, frames, open)
  BY <1>1, <1>2, <1>6, <1>7 DEF Walk
<1>9. AsidesUi \subseteq AgUiTypes
  BY DEF AgUiTypes
<1>10. QED BY <1>8, <1>9, TypedMore

\* One frame of a block.
LEMMA StartWalks ==
    ASSUME NEW open, NEW f, f.type \in AgUiStarts, BlockKey(f) \notin open
    PROVE  Walk(open, <<f>>, open \cup {BlockKey(f)}) /\ Typed(<<f>>, AgUiTypes)
<1>1. f.type \in AgUiTypes /\ f.type \notin AgUiContents \cup AgUiEnds \cup AgUiTerminals
  BY DEF AgUiTypes, AgUiStarts, AgUiContents, AgUiEnds, AgUiTerminals
<1>2. Fits(open, f) /\ After(open, f) = open \cup {BlockKey(f)}
  BY <1>1, UiFrames DEF Fits, After
<1>3. QED BY <1>1, <1>2, WalkOne, TypedOne

LEMMA ContentWalks ==
    ASSUME NEW open, NEW f, f.type \in AgUiContents, BlockKey(f) \in open
    PROVE  Walk(open, <<f>>, open) /\ Typed(<<f>>, AgUiTypes)
<1>1. f.type \in AgUiTypes /\ f.type \notin AgUiStarts \cup AgUiEnds \cup AgUiTerminals
  BY DEF AgUiTypes, AgUiStarts, AgUiContents, AgUiEnds, AgUiTerminals
<1>2. Fits(open, f) /\ After(open, f) = open
  BY <1>1, UiFrames DEF Fits, After
<1>3. QED BY <1>1, <1>2, WalkOne, TypedOne

LEMMA EndWalks ==
    ASSUME NEW open, NEW f, f.type \in AgUiEnds, BlockKey(f) \in open
    PROVE  Walk(open, <<f>>, open \ {BlockKey(f)}) /\ Typed(<<f>>, AgUiTypes)
<1>1. f.type \in AgUiTypes /\ f.type \notin AgUiStarts \cup AgUiTerminals
  BY DEF AgUiTypes, AgUiStarts, AgUiContents, AgUiEnds, AgUiTerminals
<1>2. Fits(open, f) /\ After(open, f) = open \ {BlockKey(f)}
  BY <1>1, UiFrames DEF Fits, After
<1>3. QED BY <1>1, <1>2, WalkOne, TypedOne

\* The keys of the three kinds of block.
TextKey(e)      == <<"text", e.step>>
ReasoningKey(e) == <<"reasoning", e.step>>
ToolKeys(ids)   == {<<"tool", id>> : id \in ids}

LEMMA KeysDiffer ==
    ASSUME NEW e, NEW ids
    PROVE  /\ TextKey(e) # ReasoningKey(e)
           /\ TextKey(e) \notin ToolKeys(ids) /\ ReasoningKey(e) \notin ToolKeys(ids)
BY DEF TextKey, ReasoningKey, ToolKeys

LEMMA BlocksOpen ==
    ASSUME NEW e, AgUiOk(e)
    PROVE  /\ TextKey(e) \in AgUiBlocks(e) <=> e.textOpen
           /\ ReasoningKey(e) \in AgUiBlocks(e) <=> e.reasoningOpen
           /\ \A id : <<"tool", id>> \in AgUiBlocks(e) <=> id \in e.openTools
           /\ AgUiBlocks(e) = {key \in {TextKey(e)} : e.textOpen}
                              \cup {key \in {ReasoningKey(e)} : e.reasoningOpen} \cup ToolKeys(e.openTools)
<1>1. AgUiBlocks(e) = {key \in {TextKey(e)} : e.textOpen}
                      \cup {key \in {ReasoningKey(e)} : e.reasoningOpen} \cup ToolKeys(e.openTools)
  BY DEF AgUiBlocks, TextKey, ReasoningKey, ToolKeys
<1>2. \A id : <<"tool", id>> \in ToolKeys(e.openTools) <=> id \in e.openTools
  BY DEF ToolKeys
<1>3. \A id : <<"tool", id>> # TextKey(e) /\ <<"tool", id>> # ReasoningKey(e)
  BY DEF TextKey, ReasoningKey
<1>4. QED BY <1>1, <1>2, <1>3, KeysDiffer

\* closeReasoning
LEMMA ReasoningEndsWalk ==
    ASSUME NEW e, NEW open, e.reasoningOpen <=> ReasoningKey(e) \in open
    PROVE  /\ Walk(open, Ui!ReasoningEnds(e), open \ {ReasoningKey(e)})
           /\ Typed(Ui!ReasoningEnds(e), AgUiTypes)
<1>1. CASE e.reasoningOpen
  <2>1. PICK end, after : /\ end = Ui!MessageFrame("REASONING_MESSAGE_END", e.step)
                          /\ after = Ui!MessageFrame("REASONING_END", e.step)
    OBVIOUS
  <2>2. end.type = "REASONING_MESSAGE_END" /\ end.step = e.step /\ after.type = "REASONING_END"
    BY <2>1 DEF Ui!MessageFrame
  <2>3. BlockKey(end) = ReasoningKey(e) /\ end.type \in AgUiEnds
    BY <2>2 DEF BlockKey, ReasoningKey, AgUiEnds
  <2>4. Walk(open, <<end>>, open \ {ReasoningKey(e)}) /\ Typed(<<end>>, AgUiTypes)
    BY <1>1, <2>3, EndWalks
  <2>5. after.type \in AsidesUi
    BY <2>2 DEF AsidesUi
  <2>6. Typed(<<after>>, AsidesUi)
    BY <2>5, TypedOne
  <2>7. /\ Walk(open \ {ReasoningKey(e)}, <<after>>, open \ {ReasoningKey(e)})
        /\ Typed(<<after>>, AgUiTypes)
    BY <2>6, AsidesWalk
  <2>8. Ui!ReasoningEnds(e) = <<end>> \o <<after>>
    <3>1. Ui!ReasoningEnds(e) = <<end, after>>
      BY <1>1, <2>1 DEF Ui!ReasoningEnds
    <3>2. QED BY <3>1, PairIsConcat
  <2>9. PICK ends : ends = <<end>> \o <<after>>
    OBVIOUS
  <2>10. Walk(open, ends, open \ {ReasoningKey(e)}) /\ Typed(ends, AgUiTypes)
    BY <2>4, <2>7, <2>9, WalkConcat, TypedConcat
  <2>11. QED BY <2>8, <2>9, <2>10
<1>2. CASE ~ e.reasoningOpen
  <2>1. Ui!ReasoningEnds(e) = <<>> /\ open \ {ReasoningKey(e)} = open
    BY <1>2 DEF Ui!ReasoningEnds
  <2>2. QED BY <2>1, WalkNone, TypedNone
<1>3. QED BY <1>1, <1>2

\* closeTool
LEMMA ToolEndsWalk ==
    ASSUME NEW e, NEW id, NEW open, id \in e.openTools => <<"tool", id>> \in open
    PROVE  /\ Walk(open, Ui!ToolEnds(e, id),
                   IF id \in e.openTools THEN open \ {<<"tool", id>>} ELSE open)
           /\ Typed(Ui!ToolEnds(e, id), AgUiTypes)
<1>1. PICK end : end = Ui!ToolFrame("TOOL_CALL_END", id, <<>>)
  OBVIOUS
<1>2. end.type = "TOOL_CALL_END" /\ end.id = id
  BY <1>1 DEF Ui!ToolFrame
<1>3. BlockKey(end) = <<"tool", id>> /\ end.type \in AgUiEnds
  BY <1>2 DEF BlockKey, AgUiEnds
<1>4. Ui!ToolEnds(e, id) = Option(id \in e.openTools, end)
  BY <1>1, SameOption DEF Ui!ToolEnds
<1>5. CASE id \in e.openTools
  <2>1. Ui!ToolEnds(e, id) = <<end>>
    BY <1>4, <1>5, SameOption
  <2>2. Walk(open, <<end>>, open \ {<<"tool", id>>}) /\ Typed(<<end>>, AgUiTypes)
    BY <1>3, <1>5, EndWalks
  <2>3. QED BY <1>5, <2>1, <2>2
<1>6. CASE id \notin e.openTools
  <2>1. Ui!ToolEnds(e, id) = <<>>
    BY <1>4, <1>6, SameOption
  <2>2. QED BY <1>6, <2>1, WalkNone, TypedNone
<1>7. QED BY <1>5, <1>6

\* The recursive equation of the closings of the tools.
IsFirst(e, n) == \A j \in 1 .. n - 1 : e.toolOrder[j] # e.toolOrder[n]

Closing(e, n) == IF IsFirst(e, n) THEN Ui!ToolEnds(e, e.toolOrder[n]) ELSE <<>>

Closings(g, e, last) ==
    g = [n \in 0 .. last |-> IF n = 0 THEN <<>> ELSE g[n - 1] \o Closing(e, n)]

LEMMA ClosingsExist ==
    ASSUME NEW e, NEW last \in Nat
    PROVE  \E g : Closings(g, e, last)
<1> DEFINE S == {n \in Nat : \E g : Closings(g, e, n)}
<1>1. 0 \in S
  <2>1. PICK h : h = [i \in 0 .. 0 |-> <<>>]
    OBVIOUS
  <2>2. h = [i \in 0 .. 0 |-> IF i = 0 THEN <<>> ELSE h[i - 1] \o Closing(e, i)]
    BY <2>1
  <2>3. QED BY <2>2 DEF Closings
<1>2. ASSUME NEW n \in Nat, n \in S PROVE n + 1 \in S
  <2>1. PICK g : g = [i \in 0 .. n |-> IF i = 0 THEN <<>> ELSE g[i - 1] \o Closing(e, i)]
    BY <1>2 DEF Closings
  <2>2. PICK h : h = [i \in 0 .. n + 1 |-> IF i = n + 1 THEN g[i - 1] \o Closing(e, i) ELSE g[i]]
    OBVIOUS
  <2>3. ASSUME NEW i \in 0 .. n + 1
        PROVE  h[i] = IF i = 0 THEN <<>> ELSE h[i - 1] \o Closing(e, i)
    <3>1. CASE i = 0
      BY <2>1, <2>2, <3>1
    <3>2. CASE i # 0
      <4>1. i - 1 \in 0 .. n /\ i - 1 \in 0 .. n + 1 /\ i - 1 # n + 1
        BY <3>2
      <4>2. h[i - 1] = g[i - 1]
        BY <2>2, <4>1
      <4>3. h[i] = g[i - 1] \o Closing(e, i)
        <5>1. CASE i = n + 1
          BY <2>2, <5>1
        <5>2. CASE i # n + 1
          <6>1. i \in 0 .. n
            BY <5>2
          <6>2. QED BY <2>1, <2>2, <3>2, <5>2, <6>1
        <5>3. QED BY <5>1, <5>2
      <4>4. QED BY <3>2, <4>2, <4>3
    <3>3. QED BY <3>1, <3>2
  <2>4. h = [i \in 0 .. n + 1 |-> IF i = 0 THEN <<>> ELSE h[i - 1] \o Closing(e, i)]
    <3>1. h = [i \in 0 .. n + 1 |-> h[i]]
      BY <2>2
    <3>2. QED BY <2>3, <3>1
  <2>5. Closings(h, e, n + 1)
    BY <2>4 DEF Closings
  <2>6. QED BY <2>5
<1> HIDE DEF S
<1>3. last \in S
  BY <1>1, <1>2, NaturalsAreReached
<1>4. QED BY <1>3 DEF S

\* Closing every open tool once, in the order they were started.
LEMMA ClosingsWalk ==
    ASSUME NEW e, AgUiOk(e), NEW open, NEW g, NEW last, last = Len(e.toolOrder), Closings(g, e, last),
           ToolKeys(e.openTools) \subseteq open
    PROVE  Walk(open, g[last], open \ ToolKeys(e.openTools)) /\ Typed(g[last], AgUiTypes)
<1>1. /\ IsSequence(e.toolOrder) /\ last \in Nat /\ DOMAIN e.toolOrder = 1 .. last
      /\ e.openTools \subseteq ToSet(e.toolOrder)
  BY SequenceShape DEF AgUiOk
<1>2. /\ g[0] = <<>>
      /\ \A n \in 1 .. last : g[n] = g[n - 1] \o Closing(e, n)
  <2>1. \A n \in 0 .. last : g[n] = IF n = 0 THEN <<>> ELSE g[n - 1] \o Closing(e, n)
    BY DEF Closings
  <2>2. 0 \in 0 .. last /\ \A n \in 1 .. last : n \in 0 .. last /\ n # 0
    BY <1>1
  <2>3. QED BY <2>1, <2>2
<1> DEFINE Gone(n) == {id \in e.openTools : \E i \in 1 .. n : e.toolOrder[i] = id}
           S == {n \in Nat : n <= last => /\ Walk(open, g[n], open \ ToolKeys(Gone(n)))
                                          /\ Typed(g[n], AgUiTypes)}
<1> HIDE DEF Gone
<1>3. 0 \in S
  <2>1. Gone(0) = {}
    BY DEF Gone
  <2>2. open \ ToolKeys({}) = open
    BY DEF ToolKeys
  <2>3. QED BY <1>2, <2>1, <2>2, WalkNone, TypedNone
<1>4. ASSUME NEW n \in Nat, n \in S PROVE n + 1 \in S
  <2>1. SUFFICES ASSUME n + 1 <= last
                 PROVE  Walk(open, g[n + 1], open \ ToolKeys(Gone(n + 1))) /\ Typed(g[n + 1], AgUiTypes)
    OBVIOUS
  <2>2. n <= last /\ n + 1 \in 1 .. last /\ (n + 1) - 1 = n
    BY <1>1, <2>1
  <2>3. PICK id, closing, left : /\ id = e.toolOrder[n + 1] /\ closing = Closing(e, n + 1)
                                 /\ left = open \ ToolKeys(Gone(n))
    OBVIOUS
  <2>4. /\ Walk(open, g[n], left) /\ Typed(g[n], AgUiTypes) /\ g[n + 1] = g[n] \o closing
    BY <1>2, <1>4, <2>2, <2>3
  <2>5. \A other : other \in Gone(n + 1) <=> other \in Gone(n) \/ (other = id /\ id \in e.openTools)
    <3>1. \A i : i \in 1 .. n + 1 <=> i \in 1 .. n \/ i = n + 1
      OBVIOUS
    <3>2. QED BY <2>3, <3>1 DEF Gone
  <2>6. IsFirst(e, n + 1) <=> \A j \in 1 .. n : e.toolOrder[j] # id
    BY <2>2, <2>3 DEF IsFirst
  <2>7. Walk(left, closing, open \ ToolKeys(Gone(n + 1))) /\ Typed(closing, AgUiTypes)
    <3>1. CASE IsFirst(e, n + 1) /\ id \in e.openTools
      <4>1. id \notin Gone(n)
        BY <2>6, <3>1 DEF Gone
      <4>2. <<"tool", id>> \in left
        BY <2>3, <3>1, <4>1 DEF ToolKeys
      <4>3. closing = Ui!ToolEnds(e, id)
        BY <2>3, <3>1 DEF Closing
      <4>4. open \ ToolKeys(Gone(n + 1)) = left \ {<<"tool", id>>}
        <5>1. Gone(n + 1) = Gone(n) \cup {id}
          BY <2>5, <3>1
        <5>2. QED BY <2>3, <5>1 DEF ToolKeys
      <4>5. QED BY <3>1, <4>2, <4>3, <4>4, ToolEndsWalk
    <3>2. CASE ~ IsFirst(e, n + 1) \/ id \notin e.openTools
      <4>1. Gone(n + 1) = Gone(n)
        <5>1. CASE id \in e.openTools
          <6>1. \E j \in 1 .. n : e.toolOrder[j] = id
            BY <2>6, <3>2, <5>1
          <6>2. id \in Gone(n)
            BY <5>1, <6>1 DEF Gone
          <6>3. QED BY <2>5, <6>2
        <5>2. CASE id \notin e.openTools
          <6>1. QED BY <2>5, <5>2
        <5>3. QED BY <5>1, <5>2
      <4>2. closing = <<>>
        <5>1. CASE IsFirst(e, n + 1)
          <6>1. closing = Ui!ToolEnds(e, id)
            BY <2>3, <5>1 DEF Closing
          <6>2. id \notin e.openTools
            BY <3>2, <5>1
          <6>3. QED BY <6>1, <6>2 DEF Ui!ToolEnds, Ui!Option
        <5>2. CASE ~ IsFirst(e, n + 1)
          BY <2>3, <5>2 DEF Closing
        <5>3. QED BY <5>1, <5>2
      <4>3. open \ ToolKeys(Gone(n + 1)) = left
        BY <2>3, <4>1
      <4>4. QED BY <4>2, <4>3, WalkNone, TypedNone
    <3>3. QED BY <3>1, <3>2
  <2>8. QED BY <2>4, <2>7, WalkConcat, TypedConcat
<1> HIDE DEF S
<1>5. last \in S
  BY <1>1, <1>3, <1>4, NaturalsAreReached
<1>6. Gone(last) = e.openTools
  <2>1. \A id \in e.openTools : \E i \in 1 .. last : e.toolOrder[i] = id
    BY <1>1 DEF ToSet
  <2>2. QED BY <2>1 DEF Gone
<1>7. Walk(open, g[last], open \ ToolKeys(Gone(last))) /\ Typed(g[last], AgUiTypes)
  <2>1. PICK m : m = last /\ m \in S
    BY <1>5
  <2>2. m <= last => Walk(open, g[m], open \ ToolKeys(Gone(m))) /\ Typed(g[m], AgUiTypes)
    BY <2>1, Zenon DEF S
  <2>3. m <= last
    BY <1>1, <2>1
  <2>4. QED BY <2>1, <2>2, <2>3
<1>8. QED BY <1>6, <1>7

\* closeOpenContent closes what is open.
LEMMA ContentEndsWalk ==
    ASSUME NEW e, AgUiOk(e)
    PROVE  Walk(AgUiBlocks(e), Ui!ContentEnds(e), {}) /\ Typed(Ui!ContentEnds(e), AgUiTypes)
<1>1. PICK last, open : last = Len(e.toolOrder) /\ open = AgUiBlocks(e)
  OBVIOUS
<1>2. last \in Nat
  BY <1>1, SequenceShape DEF AgUiOk
<1>3. PICK thinking, end : /\ thinking = Ui!ReasoningEnds(e)
                           /\ end = Ui!MessageFrame("TEXT_MESSAGE_END", e.step)
  OBVIOUS
<1>4. PICK g : Closings(g, e, last) /\ Ui!ContentEnds(e) = (thinking \o Option(e.textOpen, end)) \o g[last]
  <2>1. Ui!ContentEnds(e) = (thinking \o Ui!Option(e.textOpen, end))
                            \o (CHOOSE g : Closings(g, e, last))[last]
    BY <1>1, <1>3 DEF Ui!ContentEnds, Closings, Closing, IsFirst
  <2>2. \E g : Closings(g, e, last)
    BY <1>2, ClosingsExist
  <2>3. PICK g : g = CHOOSE h : Closings(h, e, last)
    OBVIOUS
  <2>4. Closings(g, e, last)
    BY <2>2, <2>3
  <2>5. QED BY <2>1, <2>3, <2>4, SameOption
<1>5. PICK one, two : one = open \ {ReasoningKey(e)} /\ two = one \ {TextKey(e)}
  OBVIOUS
<1>6. Walk(open, thinking, one) /\ Typed(thinking, AgUiTypes)
  BY <1>1, <1>3, <1>5, BlocksOpen, ReasoningEndsWalk
<1>7. PICK text : text = Option(e.textOpen, end)
  OBVIOUS
<1>8. Walk(one, text, two) /\ Typed(text, AgUiTypes)
  <2>1. end.type = "TEXT_MESSAGE_END" /\ end.step = e.step
    BY <1>3 DEF Ui!MessageFrame
  <2>2. BlockKey(end) = TextKey(e) /\ end.type \in AgUiEnds
    BY <2>1 DEF BlockKey, TextKey, AgUiEnds
  <2>3. CASE e.textOpen
    <3>1. text = <<end>>
      BY <1>7, <2>3, SameOption
    <3>2. TextKey(e) \in one
      BY <1>1, <1>5, <2>3, BlocksOpen, KeysDiffer
    <3>3. QED BY <1>5, <2>2, <3>1, <3>2, EndWalks
  <2>4. CASE ~ e.textOpen
    <3>1. text = <<>>
      BY <1>7, <2>4, SameOption
    <3>2. two = one
      BY <1>1, <1>5, <2>4, BlocksOpen
    <3>3. QED BY <3>1, <3>2, WalkNone, TypedNone
  <2>5. QED BY <2>3, <2>4
<1>9. ToolKeys(e.openTools) \subseteq two /\ two \ ToolKeys(e.openTools) = {}
  BY <1>1, <1>5, BlocksOpen, KeysDiffer
<1>10. Walk(two, g[last], {}) /\ Typed(g[last], AgUiTypes)
  BY <1>1, <1>4, <1>9, ClosingsWalk
<1>11. Walk(open, thinking \o text, two) /\ Typed(thinking \o text, AgUiTypes)
  BY <1>6, <1>8, WalkConcat, TypedConcat
<1>12. PICK both : both = thinking \o text
  OBVIOUS
<1>13. Walk(open, both \o g[last], {}) /\ Typed(both \o g[last], AgUiTypes)
  BY <1>10, <1>11, <1>12, WalkConcat, TypedConcat
<1>14. QED BY <1>1, <1>4, <1>7, <1>12, <1>13

-----------------------------------------------------------------------------
(* The AG-UI encoder: one event. *)

\* What an event does to the blocks that are open, and to the usage of the step.
UiMoves(e, event, r) ==
    /\ AgUiOk(r.enc) /\ Walk(AgUiBlocks(e), r.frames, AgUiBlocks(r.enc)) /\ Typed(r.frames, AgUiTypes)
    /\ r.ok \/ (r.enc = e /\ r.frames = <<>>)
    /\ event.type \notin Streamed => AgUiBlocks(r.enc) \subseteq AgUiBlocks(e)
    /\ event.type = "stepEnd" => AgUiBlocks(r.enc) = {}
    /\ \A id \in r.enc.openTools :
         id \in e.openTools \/ (event.type = "toolCallStart" /\ id = event.id /\ id # NoId)
    /\ event.type = "usage" =>
         r.enc.totalUsage = e.totalUsage /\ r.enc.stepUsage = MergeUsage(e.stepUsage, event.usage)
    /\ event.type = "stepEnd" =>
         r.enc.totalUsage = AddUsage(e.totalUsage, e.stepUsage) /\ r.enc.stepUsage = NoUsage
    /\ event.type \notin {"usage", "stepEnd"} =>
         r.enc.totalUsage = e.totalUsage /\ r.enc.stepUsage = e.stepUsage

SameUiUsage(e, q) == q.totalUsage = e.totalUsage /\ q.stepUsage = e.stepUsage

\* An encoder that keeps the blocks keeps its invariant.
SameUiBlocks(e, q) ==
    /\ DOMAIN q = DOMAIN e /\ q.step = e.step /\ q.textOpen = e.textOpen
    /\ q.reasoningOpen = e.reasoningOpen /\ q.openTools = e.openTools /\ q.toolOrder = e.toolOrder

LEMMA SameUiBlocksOk ==
    ASSUME NEW e, NEW q, AgUiOk(e), SameUiBlocks(e, q), q.stepUsage \in Usage, q.totalUsage \in Usage
    PROVE  AgUiOk(q) /\ AgUiBlocks(q) = AgUiBlocks(e)
<1>1. AgUiOk(q)
  BY DEF AgUiOk, SameUiBlocks
<1>2. AgUiBlocks(q) = AgUiBlocks(e)
  BY DEF SameUiBlocks, AgUiBlocks
<1>3. QED BY <1>1, <1>2

LEMMA SameUsageOps ==
    ASSUME NEW usage, NEW other
    PROVE  /\ Ui!NoUsage = NoUsage /\ Ui!MergeUsage(usage, other) = MergeUsage(usage, other)
           /\ Ui!AddUsage(usage, other) = AddUsage(usage, other)
           /\ Ui!HasUsageValues(usage) <=> HasUsageValues(usage)
BY DEF Ui!NoUsage, NoUsage, Ui!MergeUsage, MergeUsage, Ui!AddUsage, AddUsage, Ui!HasUsageValues,
       HasUsageValues

LEMMA NoValues ==
    ASSUME NEW usage \in Usage, ~ HasUsageValues(usage)
    PROVE  usage = NoUsage
<1>1. DOMAIN usage = Counters /\ usage = [f \in Counters |-> usage[f]]
  BY UsageShape
<1>2. \A f \in Counters : usage[f] = 0
  BY <1>1 DEF HasUsageValues
<1>3. NoUsage = [f \in Counters |-> 0]
  <2>1. NoUsage = [f \in Counters |-> NoUsage[f]]
    BY NoUsageShape, UsageShape
  <2>2. QED BY <2>1, NoUsageShape
<1>4. QED BY <1>1, <1>2, <1>3

\* Everything closed and the usage of the step committed.
LEMMA ClosedShape ==
    ASSUME NEW e, AgUiOk(e), NEW c, c = Ui!UsageCommitted(Ui!ContentClosed(e))
    PROVE  /\ AgUiOk(c) /\ AgUiBlocks(c) = {} /\ c.openTools = {}
           /\ c.stepUsage = NoUsage /\ c.totalUsage = AddUsage(e.totalUsage, e.stepUsage)
           /\ c.options = e.options /\ c.interrupts = e.interrupts
<1>1. PICK one : one = Ui!ContentClosed(e)
  OBVIOUS
<1>2. one = [e EXCEPT !.reasoningOpen = FALSE, !.textOpen = FALSE, !.openTools = {}]
  BY <1>1 DEF Ui!ContentClosed
<1>3. /\ DOMAIN one = DOMAIN e /\ one.reasoningOpen = FALSE /\ one.textOpen = FALSE /\ one.openTools = {}
      /\ one.toolOrder = e.toolOrder /\ one.step = e.step /\ SameUiUsage(e, one)
      /\ one.options = e.options /\ one.interrupts = e.interrupts
  BY <1>2 DEF AgUiOk, SameUiUsage
<1>4. AgUiOk(one) /\ AgUiBlocks(one) = {}
  BY <1>3 DEF AgUiOk, AgUiBlocks, SameUiUsage
<1>5. one.stepUsage \in Usage /\ one.totalUsage \in Usage
  BY <1>4 DEF AgUiOk
<1>6. CASE HasUsageValues(one.stepUsage)
  <2>1. PICK total : total = AddUsage(one.totalUsage, one.stepUsage)
    OBVIOUS
  <2>2. c = [one EXCEPT !.totalUsage = total, !.stepUsage = NoUsage]
    BY <1>1, <1>6, <2>1, SameUsageOps DEF Ui!UsageCommitted
  <2>3. total \in Usage
    BY <1>5, <2>1, UsageAdds
  <2>4. SameUiBlocks(one, c) /\ c.totalUsage = total /\ c.stepUsage = NoUsage
        /\ c.options = e.options /\ c.interrupts = e.interrupts
    BY <1>3, <1>4, <2>2 DEF AgUiOk, SameUiBlocks
  <2>5. QED BY <1>3, <1>4, <2>1, <2>3, <2>4, NoUsageShape, SameUiBlocksOk DEF SameUiBlocks, SameUiUsage
<1>7. CASE ~ HasUsageValues(one.stepUsage)
  <2>1. c = one
    BY <1>1, <1>7, SameUsageOps DEF Ui!UsageCommitted
  <2>2. one.stepUsage = NoUsage
    BY <1>5, <1>7, NoValues
  <2>3. AddUsage(one.totalUsage, one.stepUsage) = one.totalUsage
    BY <1>5, <2>2, UsageAdds
  <2>4. QED BY <1>3, <1>4, <2>1, <2>2, <2>3 DEF SameUiUsage
<1>8. QED BY <1>6, <1>7

LEMMA UiOptionAside ==
    ASSUME NEW condition, NEW f, f.type \in AsidesUi
    PROVE  Typed(Ui!Option(condition, f), AsidesUi)
BY SameOption, TypedOption

LEMMA UiStepStart ==
    ASSUME NEW e, NEW event, AgUiOk(e), AgUiBlocks(e) = {}, event.type = "stepStart",
           NEW r, r = Ui!OnStepStart(e, event)
    PROVE  UiMoves(e, event, r)
<1>1. PICK q, f : /\ q = [e EXCEPT !.step = event.step, !.openTools = {}, !.toolOrder = <<>>]
                  /\ f = Ui!MessageFrame("STEP_STARTED", event.step)
  OBVIOUS
<1>2. PICK frames : frames = Ui!Option(e.options.emitSteps, f)
  OBVIOUS
<1>3. r.enc = q /\ r.frames = frames /\ r.ok
  BY <1>1, <1>2 DEF Ui!OnStepStart, Ui!Encoded
<1>4. f.type \in AsidesUi
  BY <1>1 DEF Ui!MessageFrame, AsidesUi
<1>5. Walk(AgUiBlocks(e), frames, AgUiBlocks(e)) /\ Typed(frames, AgUiTypes)
  BY <1>2, <1>4, UiOptionAside, AsidesWalk
<1>6. /\ DOMAIN q = DOMAIN e /\ q.openTools = {} /\ q.toolOrder = <<>> /\ q.textOpen = e.textOpen
      /\ q.reasoningOpen = e.reasoningOpen /\ SameUiUsage(e, q)
  BY <1>1 DEF AgUiOk, SameUiUsage
<1>7. ~ e.textOpen /\ ~ e.reasoningOpen
  BY BlocksOpen
<1>8. AgUiOk(q) /\ AgUiBlocks(q) = {}
  BY <1>6, <1>7, NoneIsSequence DEF AgUiOk, AgUiBlocks, SameUiUsage
<1>9. QED BY <1>3, <1>5, <1>6, <1>8 DEF UiMoves, SameUiUsage

LEMMA UiStepEnd ==
    ASSUME NEW e, NEW event, AgUiOk(e), event.type = "stepEnd", NEW r, r = Ui!OnStepEnd(e, event)
    PROVE  UiMoves(e, event, r)
<1>1. PICK c, f, reason :
        /\ c = Ui!UsageCommitted(Ui!ContentClosed(e))
        /\ f = Ui!MessageFrame("STEP_FINISHED", e.step)
        /\ reason = IF Ui!WireReason(event.reason) # "" THEN Ui!WireReason(event.reason) ELSE c.reason
  OBVIOUS
<1>2. PICK q, ends, frames : /\ q = [c EXCEPT !.reason = reason] /\ ends = Ui!ContentEnds(e)
                             /\ frames = Ui!Option(e.options.emitSteps, f)
  OBVIOUS
<1>3. r.enc = q /\ r.frames = ends \o frames /\ r.ok
  BY <1>1, <1>2 DEF Ui!OnStepEnd, Ui!Encoded
<1>4. f.type \in AsidesUi
  BY <1>1 DEF Ui!MessageFrame, AsidesUi
<1>5. Walk({}, frames, {}) /\ Typed(frames, AgUiTypes)
  BY <1>2, <1>4, UiOptionAside, AsidesWalk
<1>6. Walk(AgUiBlocks(e), ends \o frames, {}) /\ Typed(ends \o frames, AgUiTypes)
  BY <1>2, <1>5, ContentEndsWalk, WalkConcat, TypedConcat
<1>7. /\ AgUiOk(c) /\ AgUiBlocks(c) = {} /\ c.openTools = {}
      /\ c.stepUsage = NoUsage /\ c.totalUsage = AddUsage(e.totalUsage, e.stepUsage)
  BY <1>1, ClosedShape
<1>8. SameUiBlocks(c, q) /\ SameUiUsage(c, q)
  BY <1>2, <1>7 DEF AgUiOk, SameUiBlocks, SameUiUsage
<1>9. AgUiOk(q) /\ AgUiBlocks(q) = {}
  BY <1>7, <1>8, SameUiBlocksOk DEF SameUiUsage, AgUiOk
<1>10. QED BY <1>3, <1>6, <1>7, <1>8, <1>9 DEF UiMoves, SameUiUsage, SameUiBlocks

LEMMA UiText ==
    ASSUME NEW e, NEW event, AgUiOk(e), event.type = "text", NEW r, r = Ui!OnText(e, event)
    PROVE  UiMoves(e, event, r)
<1>1. PICK q, ends, start, content :
        /\ q = [e EXCEPT !.reasoningOpen = FALSE, !.textOpen = TRUE, !.textBuf = e.textBuf \o event.text]
        /\ ends = Ui!ReasoningEnds(e) /\ start = Ui!MessageFrame("TEXT_MESSAGE_START", e.step)
        /\ content = Ui!ContentFrame("TEXT_MESSAGE_CONTENT", e.step, event.text)
  OBVIOUS
<1>2. PICK first : first = Option(~ e.textOpen, start)
  OBVIOUS
<1>3. r.enc = q /\ r.frames = (ends \o first) \o <<content>> /\ r.ok
  BY <1>1, <1>2, SameOption DEF Ui!OnText, Ui!Encoded, AgUiOk
<1>4. PICK open, one, two : /\ open = AgUiBlocks(e) /\ one = open \ {ReasoningKey(e)}
                            /\ two = one \cup {TextKey(e)}
  OBVIOUS
<1>5. Walk(open, ends, one) /\ Typed(ends, AgUiTypes)
  BY <1>1, <1>4, BlocksOpen, ReasoningEndsWalk
<1>6. /\ start.type \in AgUiStarts /\ BlockKey(start) = TextKey(e)
      /\ content.type \in AgUiContents /\ BlockKey(content) = TextKey(e)
  <2>1. start.type = "TEXT_MESSAGE_START" /\ start.step = e.step
        /\ content.type = "TEXT_MESSAGE_CONTENT" /\ content.step = e.step
    BY <1>1 DEF Ui!MessageFrame, Ui!ContentFrame
  <2>2. QED BY <2>1 DEF BlockKey, TextKey, AgUiStarts, AgUiContents
<1>7. Walk(one, first, two) /\ Typed(first, AgUiTypes)
  <2>1. CASE e.textOpen
    <3>1. first = <<>> /\ two = one
      BY <1>2, <1>4, <2>1, SameOption, BlocksOpen, KeysDiffer
    <3>2. QED BY <3>1, WalkNone, TypedNone
  <2>2. CASE ~ e.textOpen
    <3>1. first = <<start>> /\ TextKey(e) \notin one
      BY <1>2, <1>4, <2>2, SameOption, BlocksOpen
    <3>2. QED BY <1>4, <1>6, <3>1, StartWalks
  <2>3. QED BY <2>1, <2>2
<1>8. Walk(two, <<content>>, two) /\ Typed(<<content>>, AgUiTypes)
  BY <1>4, <1>6, ContentWalks
<1>9. PICK frames : frames = (ends \o first) \o <<content>>
  OBVIOUS
<1>10. Walk(open, frames, two) /\ Typed(frames, AgUiTypes)
  <2>1. PICK both : both = ends \o first
    OBVIOUS
  <2>2. Walk(open, both, two) /\ Typed(both, AgUiTypes)
    BY <1>5, <1>7, <2>1, WalkConcat, TypedConcat
  <2>3. QED BY <1>8, <1>9, <2>1, <2>2, WalkConcat, TypedConcat
<1>11. /\ DOMAIN q = DOMAIN e /\ q.reasoningOpen = FALSE /\ q.textOpen = TRUE /\ q.openTools = e.openTools
       /\ q.toolOrder = e.toolOrder /\ q.step = e.step /\ SameUiUsage(e, q)
  BY <1>1 DEF AgUiOk, SameUiUsage
<1>12. AgUiOk(q) /\ AgUiBlocks(q) = two
  <2>1. AgUiOk(q)
    BY <1>11 DEF AgUiOk, SameUiUsage
  <2>2. TextKey(q) = TextKey(e) /\ ReasoningKey(q) = ReasoningKey(e)
    BY <1>11 DEF TextKey, ReasoningKey
  <2>3. AgUiBlocks(q) = {TextKey(e)} \cup ToolKeys(e.openTools)
    BY <1>11, <2>1, <2>2, BlocksOpen
  <2>4. two = {TextKey(e)} \cup ToolKeys(e.openTools)
    BY <1>4, BlocksOpen, KeysDiffer
  <2>5. QED BY <2>1, <2>3, <2>4
<1>13. QED BY <1>3, <1>4, <1>9, <1>10, <1>11, <1>12 DEF UiMoves, SameUiUsage, Streamed

LEMMA UiReasoning ==
    ASSUME NEW e, NEW event, AgUiOk(e), event.type = "reasoning", NEW r, r = Ui!OnReasoning(e, event)
    PROVE  UiMoves(e, event, r)
<1>1. PICK q, aside, start, content :
        /\ q = [e EXCEPT !.reasoningOpen = TRUE] /\ aside = Ui!MessageFrame("REASONING_START", e.step)
        /\ start = Ui!MessageFrame("REASONING_MESSAGE_START", e.step)
        /\ content = Ui!ContentFrame("REASONING_MESSAGE_CONTENT", e.step, event.text)
  OBVIOUS
<1>2. PICK first : first = IF e.reasoningOpen THEN <<>> ELSE <<aside>> \o <<start>>
  OBVIOUS
<1>3. r.enc = q /\ r.frames = first \o <<content>> /\ r.ok
  <2>1. <<aside, start>> = <<aside>> \o <<start>>
    BY PairIsConcat
  <2>2. QED BY <1>1, <1>2, <2>1 DEF Ui!OnReasoning, Ui!Encoded, AgUiOk
<1>4. PICK open, two : open = AgUiBlocks(e) /\ two = open \cup {ReasoningKey(e)}
  OBVIOUS
<1>5. /\ start.type \in AgUiStarts /\ BlockKey(start) = ReasoningKey(e)
      /\ content.type \in AgUiContents /\ BlockKey(content) = ReasoningKey(e)
      /\ aside.type \in AsidesUi
  <2>1. start.type = "REASONING_MESSAGE_START" /\ start.step = e.step /\ aside.type = "REASONING_START"
        /\ content.type = "REASONING_MESSAGE_CONTENT" /\ content.step = e.step
    BY <1>1 DEF Ui!MessageFrame, Ui!ContentFrame
  <2>2. QED BY <2>1 DEF BlockKey, ReasoningKey, AgUiStarts, AgUiContents, AsidesUi
<1>6. Walk(open, first, two) /\ Typed(first, AgUiTypes)
  <2>1. CASE e.reasoningOpen
    <3>1. first = <<>> /\ two = open
      BY <1>2, <1>4, <2>1, BlocksOpen
    <3>2. QED BY <3>1, WalkNone, TypedNone
  <2>2. CASE ~ e.reasoningOpen
    <3>1. first = <<aside>> \o <<start>> /\ ReasoningKey(e) \notin open
      BY <1>2, <1>4, <2>2, BlocksOpen
    <3>2. Walk(open, <<aside>>, open) /\ Typed(<<aside>>, AgUiTypes)
      BY <1>5, TypedOne, AsidesWalk
    <3>3. Walk(open, <<start>>, two) /\ Typed(<<start>>, AgUiTypes)
      BY <1>4, <1>5, <3>1, StartWalks
    <3>4. QED BY <3>1, <3>2, <3>3, WalkConcat, TypedConcat
  <2>3. QED BY <2>1, <2>2
<1>7. Walk(two, <<content>>, two) /\ Typed(<<content>>, AgUiTypes)
  BY <1>4, <1>5, ContentWalks
<1>8. PICK frames : frames = first \o <<content>>
  OBVIOUS
<1>9. Walk(open, frames, two) /\ Typed(frames, AgUiTypes)
  BY <1>6, <1>7, <1>8, WalkConcat, TypedConcat
<1>10. /\ DOMAIN q = DOMAIN e /\ q.reasoningOpen = TRUE /\ q.textOpen = e.textOpen
       /\ q.openTools = e.openTools
       /\ q.toolOrder = e.toolOrder /\ q.step = e.step /\ SameUiUsage(e, q)
  BY <1>1 DEF AgUiOk, SameUiUsage
<1>11. AgUiOk(q) /\ AgUiBlocks(q) = two
  <2>1. AgUiOk(q)
    BY <1>10 DEF AgUiOk, SameUiUsage
  <2>2. TextKey(q) = TextKey(e) /\ ReasoningKey(q) = ReasoningKey(e)
    BY <1>10 DEF TextKey, ReasoningKey
  <2>3. AgUiBlocks(q) = {key \in {TextKey(e)} : e.textOpen} \cup {ReasoningKey(e)} \cup ToolKeys(e.openTools)
    BY <1>10, <2>1, <2>2, BlocksOpen
  <2>4. two = {key \in {TextKey(e)} : e.textOpen} \cup {ReasoningKey(e)} \cup ToolKeys(e.openTools)
    BY <1>4, BlocksOpen
  <2>5. QED BY <2>1, <2>3, <2>4
<1>12. QED BY <1>3, <1>4, <1>8, <1>9, <1>10, <1>11 DEF UiMoves, SameUiUsage, Streamed

\* An event that only says something.
LEMMA UiAside ==
    ASSUME NEW e, NEW event, AgUiOk(e), NEW q, SameUiBlocks(e, q), SameUiUsage(e, q),
           NEW frames, Typed(frames, AsidesUi), event.type \notin {"usage", "stepEnd"},
           NEW r, r = Ui!Encoded(q, frames)
    PROVE  UiMoves(e, event, r)
<1>1. r.enc = q /\ r.frames = frames /\ r.ok
  BY DEF Ui!Encoded
<1>2. q.stepUsage \in Usage /\ q.totalUsage \in Usage
  BY DEF AgUiOk, SameUiUsage
<1>3. AgUiOk(q) /\ AgUiBlocks(q) = AgUiBlocks(e)
  BY <1>2, SameUiBlocksOk
<1>4. Walk(AgUiBlocks(e), frames, AgUiBlocks(e)) /\ Typed(frames, AgUiTypes)
  BY AsidesWalk
<1>5. QED BY <1>1, <1>3, <1>4 DEF UiMoves, SameUiUsage, SameUiBlocks

\* An event the encoder refuses.
LEMMA UiRefused ==
    ASSUME NEW e, NEW event, AgUiOk(e), event.type \notin {"usage", "stepEnd"},
           NEW r, r = Ui!Refused(e)
    PROVE  UiMoves(e, event, r)
<1>1. r.enc = e /\ r.frames = <<>>
  BY DEF Ui!Refused
<1>2. QED BY <1>1, WalkNone, TypedNone DEF UiMoves

LEMMA UiToolStart ==
    ASSUME NEW e, NEW event, AgUiOk(e), event.type = "toolCallStart", event.id \notin e.openTools,
           NEW r, r = Ui!OnToolStart(e, event)
    PROVE  UiMoves(e, event, r)
<1>1. CASE event.id = ""
  <2>1. r = Ui!Refused(e)
    BY <1>1 DEF Ui!OnToolStart
  <2>2. QED BY <2>1, UiRefused
<1>2. CASE event.id # ""
  <2>1. PICK calls, order, q :
          /\ calls = Ui!RecordArgs(Ui!Record(e.toolCalls, event.id, event.name), event.id, event.args)
          /\ order = Append(e.toolOrder, event.id)
          /\ q = [e EXCEPT !.reasoningOpen = FALSE, !.openTools = e.openTools \cup {event.id},
                           !.toolOrder = order, !.toolCalls = calls]
    OBVIOUS
  <2>2. PICK ends, start, args :
          /\ ends = Ui!ReasoningEnds(e)
          /\ start = Ui!ToolFrame("TOOL_CALL_START", event.id, <<event.name>>)
          /\ args = Ui!ToolFrame("TOOL_CALL_ARGS", event.id, event.args)
    OBVIOUS
  <2>3. PICK more : more = Option(event.args # <<>>, args)
    OBVIOUS
  <2>4. r.enc = q /\ r.frames = (ends \o <<start>>) \o more /\ r.ok
    <3>1. r = Ui!Encoded(
            [e EXCEPT !.reasoningOpen = FALSE, !.openTools = @ \cup {event.id},
                      !.toolOrder = Append(@, event.id),
                      !.toolCalls = Ui!RecordArgs(Ui!Record(@, event.id, event.name), event.id, event.args)],
            Ui!ReasoningEnds(e) \o <<Ui!ToolFrame("TOOL_CALL_START", event.id, <<event.name>>)>>
            \o Ui!Option(event.args # <<>>, Ui!ToolFrame("TOOL_CALL_ARGS", event.id, event.args)))
      BY <1>2 DEF Ui!OnToolStart
    <3>2. r = Ui!Encoded(q, (ends \o <<start>>) \o more)
      BY <2>1, <2>2, <2>3, <3>1, SameOption DEF AgUiOk
    <3>3. QED BY <3>2 DEF Ui!Encoded
  <2>5. PICK open, one, two, key : /\ open = AgUiBlocks(e) /\ one = open \ {ReasoningKey(e)}
                                   /\ key = <<"tool", event.id>> /\ two = one \cup {key}
    OBVIOUS
  <2>6. Walk(open, ends, one) /\ Typed(ends, AgUiTypes)
    BY <2>2, <2>5, BlocksOpen, ReasoningEndsWalk
  <2>7. /\ start.type \in AgUiStarts /\ BlockKey(start) = key
        /\ args.type \in AgUiContents /\ BlockKey(args) = key
    <3>1. start.type = "TOOL_CALL_START" /\ start.id = event.id
          /\ args.type = "TOOL_CALL_ARGS" /\ args.id = event.id
      BY <2>2 DEF Ui!ToolFrame
    <3>2. QED BY <2>5, <3>1 DEF BlockKey, AgUiStarts, AgUiContents
  <2>8. key \notin one
    BY <2>5, BlocksOpen
  <2>9. Walk(one, <<start>>, two) /\ Typed(<<start>>, AgUiTypes)
    BY <2>5, <2>7, <2>8, StartWalks
  <2>10. Walk(two, more, two) /\ Typed(more, AgUiTypes)
    <3>1. CASE event.args # <<>>
      <4>1. more = <<args>>
        BY <2>3, <3>1, SameOption
      <4>2. key \in two
        BY <2>5
      <4>3. QED BY <2>7, <4>1, <4>2, ContentWalks
    <3>2. CASE event.args = <<>>
      <4>1. more = <<>>
        BY <2>3, <3>2, SameOption
      <4>2. QED BY <4>1, WalkNone, TypedNone
    <3>3. QED BY <3>1, <3>2
  <2>11. PICK both : both = ends \o <<start>>
    OBVIOUS
  <2>12. Walk(open, both, two) /\ Typed(both, AgUiTypes)
    BY <2>6, <2>9, <2>11, WalkConcat, TypedConcat
  <2>13. PICK frames : frames = both \o more
    OBVIOUS
  <2>14. Walk(open, frames, two) /\ Typed(frames, AgUiTypes)
    BY <2>10, <2>12, <2>13, WalkConcat, TypedConcat
  <2>15. /\ DOMAIN q = DOMAIN e /\ q.reasoningOpen = FALSE /\ q.textOpen = e.textOpen
         /\ q.openTools = e.openTools \cup {event.id} /\ q.toolOrder = order
         /\ q.step = e.step /\ SameUiUsage(e, q)
    BY <2>1 DEF AgUiOk, SameUiUsage
  <2>16. IsSequence(order) /\ q.openTools \subseteq ToSet(order)
    <3>1. IsSequence(e.toolOrder) /\ e.openTools \subseteq ToSet(e.toolOrder)
      BY DEF AgUiOk
    <3>2. PICK m : m = Len(e.toolOrder)
      OBVIOUS
    <3>3. m \in Nat /\ DOMAIN e.toolOrder = 1 .. m
      BY <3>1, <3>2, SequenceShape
    <3>4. /\ DOMAIN order = 1 .. m + 1 /\ order[m + 1] = event.id
          /\ \A i \in 1 .. m : order[i] = e.toolOrder[i]
          /\ order \in Seq(ToSet(e.toolOrder) \cup {event.id})
      <4>1. PICK S : S = ToSet(e.toolOrder) \cup {event.id}
        OBVIOUS
      <4>2. e.toolOrder \in Seq(S)
        <5>1. e.toolOrder \in Seq(ToSet(e.toolOrder)) /\ ToSet(e.toolOrder) \subseteq S
          BY <3>1, <4>1 DEF IsSequence
        <5>2. PICK T : T = ToSet(e.toolOrder)
          OBVIOUS
        <5>3. QED BY <5>1, <5>2
      <4>3. event.id \in S
        BY <4>1
      <4>4. QED BY <2>1, <3>2, <4>1, <4>2, <4>3
    <3>5. IsSequence(order)
      BY <3>4, SequenceOverItself
    <3>6. ASSUME NEW id \in q.openTools PROVE id \in ToSet(order)
      <4>1. CASE id = event.id
        BY <3>3, <3>4, <4>1 DEF ToSet
      <4>2. CASE id # event.id
        <5>1. id \in ToSet(e.toolOrder)
          BY <2>15, <3>1, <3>6, <4>2
        <5>2. PICK i \in 1 .. m : e.toolOrder[i] = id
          BY <3>3, <5>1 DEF ToSet
        <5>3. i \in DOMAIN order /\ order[i] = id
          BY <3>3, <3>4, <5>2
        <5>4. QED BY <5>3 DEF ToSet
      <4>3. QED BY <4>1, <4>2
    <3>7. QED BY <3>5, <3>6
  <2>17. AgUiOk(q) /\ AgUiBlocks(q) = two
    <3>1. AgUiOk(q)
      BY <2>15, <2>16 DEF AgUiOk, SameUiUsage
    <3>2. TextKey(q) = TextKey(e) /\ ReasoningKey(q) = ReasoningKey(e)
      BY <2>15 DEF TextKey, ReasoningKey
    <3>3. ToolKeys(q.openTools) = ToolKeys(e.openTools) \cup {key}
      BY <2>5, <2>15 DEF ToolKeys
    <3>4. AgUiBlocks(q) = {k \in {TextKey(e)} : e.textOpen} \cup ToolKeys(e.openTools) \cup {key}
      BY <2>15, <3>1, <3>2, <3>3, BlocksOpen
    <3>5. one = {k \in {TextKey(e)} : e.textOpen} \cup ToolKeys(e.openTools)
      BY <2>5, BlocksOpen, KeysDiffer
    <3>6. QED BY <2>5, <3>1, <3>4, <3>5
  <2>18. NoId = ""
    BY DEF NoId
  <2>19. QED BY <1>2, <2>4, <2>5, <2>11, <2>13, <2>14, <2>15, <2>17, <2>18 DEF UiMoves, SameUiUsage, Streamed
<1>3. QED BY <1>1, <1>2

LEMMA UiToolArgs ==
    ASSUME NEW e, NEW event, AgUiOk(e), event.type = "toolCallDelta",
           NEW r, r = Ui!OnToolArgs(e, event)
    PROVE  UiMoves(e, event, r)
<1>1. CASE event.args = <<>> \/ event.id \notin e.openTools
  <2>1. r = Ui!Encoded(e, <<>>)
    BY <1>1 DEF Ui!OnToolArgs
  <2>2. QED BY <2>1, UiAside, TypedNone DEF SameUiBlocks, SameUiUsage
<1>2. CASE ~ (event.args = <<>> \/ event.id \notin e.openTools)
  <2>1. PICK q, args : /\ q = [e EXCEPT !.toolCalls = Ui!RecordArgs(e.toolCalls, event.id, event.args)]
                       /\ args = Ui!ToolFrame("TOOL_CALL_ARGS", event.id, event.args)
    OBVIOUS
  <2>2. r.enc = q /\ r.frames = <<args>> /\ r.ok
    BY <1>2, <2>1 DEF Ui!OnToolArgs, Ui!Encoded, AgUiOk
  <2>3. args.type = "TOOL_CALL_ARGS" /\ args.id = event.id
    BY <2>1 DEF Ui!ToolFrame
  <2>4. args.type \in AgUiContents /\ BlockKey(args) = <<"tool", event.id>>
    BY <2>3 DEF BlockKey, AgUiContents
  <2>5. BlockKey(args) \in AgUiBlocks(e)
    BY <1>2, <2>4, BlocksOpen
  <2>6. Walk(AgUiBlocks(e), <<args>>, AgUiBlocks(e)) /\ Typed(<<args>>, AgUiTypes)
    BY <2>4, <2>5, ContentWalks
  <2>7. SameUiBlocks(e, q) /\ SameUiUsage(e, q)
    BY <2>1 DEF AgUiOk, SameUiBlocks, SameUiUsage
  <2>8. AgUiOk(q) /\ AgUiBlocks(q) = AgUiBlocks(e)
    BY <2>7, SameUiBlocksOk DEF SameUiUsage, AgUiOk
  <2>9. QED BY <2>2, <2>6, <2>7, <2>8 DEF UiMoves, SameUiUsage, SameUiBlocks, Streamed
<1>3. QED BY <1>1, <1>2

\* ready and invalid: the call is closed, and what is said after it concerns no block.
LEMMA UiToolCloses ==
    ASSUME NEW e, NEW event, AgUiOk(e), event.type \in {"ready", "invalid"},
           NEW more, Typed(more, AsidesUi),
           NEW r, r = Ui!Encoded(Ui!ToolClosed(e, event.id), Ui!ToolEnds(e, event.id) \o more)
    PROVE  UiMoves(e, event, r)
<1>1. PICK q, ends, open, two :
        /\ q = Ui!ToolClosed(e, event.id) /\ ends = Ui!ToolEnds(e, event.id) /\ open = AgUiBlocks(e)
        /\ two = IF event.id \in e.openTools THEN open \ {<<"tool", event.id>>} ELSE open
  OBVIOUS
<1>2. r.enc = q /\ r.frames = ends \o more /\ r.ok
  BY <1>1 DEF Ui!Encoded
<1>3. Walk(open, ends, two) /\ Typed(ends, AgUiTypes)
  BY <1>1, BlocksOpen, ToolEndsWalk
<1>4. Walk(two, more, two) /\ Typed(more, AgUiTypes)
  BY AsidesWalk
<1>5. Walk(open, ends \o more, two) /\ Typed(ends \o more, AgUiTypes)
  BY <1>3, <1>4, WalkConcat, TypedConcat
<1>6. q = [e EXCEPT !.openTools = e.openTools \ {event.id}]
  BY <1>1 DEF Ui!ToolClosed, AgUiOk
<1>7. /\ DOMAIN q = DOMAIN e /\ q.reasoningOpen = e.reasoningOpen /\ q.textOpen = e.textOpen
      /\ q.openTools = e.openTools \ {event.id} /\ q.toolOrder = e.toolOrder
      /\ q.step = e.step /\ SameUiUsage(e, q)
  BY <1>6 DEF AgUiOk, SameUiUsage
<1>8. AgUiOk(q)
  BY <1>7 DEF AgUiOk, SameUiUsage
<1>9. AgUiBlocks(q) = two
  <2>1. TextKey(q) = TextKey(e) /\ ReasoningKey(q) = ReasoningKey(e)
    BY <1>7 DEF TextKey, ReasoningKey
  <2>2. ToolKeys(q.openTools) = ToolKeys(e.openTools) \ {<<"tool", event.id>>}
    BY <1>7 DEF ToolKeys
  <2>3. <<"tool", event.id>> # TextKey(e) /\ <<"tool", event.id>> # ReasoningKey(e)
    BY DEF TextKey, ReasoningKey
  <2>4. AgUiBlocks(q) = open \ {<<"tool", event.id>>}
    BY <1>1, <1>7, <1>8, <2>1, <2>2, <2>3, BlocksOpen
  <2>5. event.id \notin e.openTools => open \ {<<"tool", event.id>>} = open
    BY <1>1, BlocksOpen
  <2>6. QED BY <1>1, <2>4, <2>5
<1>10. two \subseteq open
  BY <1>1
<1>11. QED BY <1>1, <1>2, <1>5, <1>7, <1>8, <1>9, <1>10 DEF UiMoves, SameUiUsage

LEMMA UiUsage ==
    ASSUME NEW e, NEW event, AgUiOk(e), event.type = "usage", event.usage \in Usage,
           NEW r, r = Ui!Encoded([e EXCEPT !.stepUsage = Ui!MergeUsage(@, event.usage)], <<>>)
    PROVE  UiMoves(e, event, r)
<1>1. PICK merged, q : merged = MergeUsage(e.stepUsage, event.usage) /\ q = [e EXCEPT !.stepUsage = merged]
  OBVIOUS
<1>2. r.enc = q /\ r.frames = <<>> /\ r.ok
  BY <1>1, SameUsageOps DEF Ui!Encoded, AgUiOk
<1>3. merged \in Usage
  BY <1>1, UsageAdds DEF AgUiOk
<1>4. SameUiBlocks(e, q) /\ q.totalUsage = e.totalUsage /\ q.stepUsage = merged
  BY <1>1 DEF AgUiOk, SameUiBlocks
<1>5. AgUiOk(q) /\ AgUiBlocks(q) = AgUiBlocks(e)
  BY <1>3, <1>4, SameUiBlocksOk DEF AgUiOk
<1>6. Walk(AgUiBlocks(e), <<>>, AgUiBlocks(q)) /\ Typed(<<>>, AgUiTypes)
  BY <1>5, WalkNone, TypedNone
<1>7. QED BY <1>1, <1>2, <1>4, <1>5, <1>6 DEF UiMoves, SameUiBlocks

\* encoder.Encode
LEMMA UiEncodes ==
    ASSUME NEW e, NEW event, AgUiOk(e), event.type \in EventTypes \ {"error"},
           event.type = "usage" => event.usage \in Usage,
           event.type = "stepStart" => AgUiBlocks(e) = {},
           event.type = "toolCallStart" => event.id \notin e.openTools,
           NEW r, r = Ui!AgUiEncode(e, event)
    PROVE  UiMoves(e, event, r)
<1>1. CASE event.type = "stepStart"
  <2>1. r = Ui!OnStepStart(e, event)
    BY <1>1 DEF Ui!AgUiEncode
  <2>2. QED BY <1>1, <2>1, UiStepStart
<1>2. CASE event.type = "stepEnd"
  <2>1. r = Ui!OnStepEnd(e, event)
    BY <1>2 DEF Ui!AgUiEncode
  <2>2. QED BY <1>2, <2>1, UiStepEnd
<1>3. CASE event.type = "text"
  <2>1. r = Ui!OnText(e, event)
    BY <1>3 DEF Ui!AgUiEncode
  <2>2. QED BY <1>3, <2>1, UiText
<1>4. CASE event.type = "reasoning"
  <2>1. r = Ui!OnReasoning(e, event)
    BY <1>4 DEF Ui!AgUiEncode
  <2>2. QED BY <1>4, <2>1, UiReasoning
<1>5. CASE event.type = "toolCallStart"
  <2>1. r = Ui!OnToolStart(e, event)
    BY <1>5 DEF Ui!AgUiEncode
  <2>2. QED BY <1>5, <2>1, UiToolStart
<1>6. CASE event.type = "toolCallDelta"
  <2>1. r = Ui!OnToolArgs(e, event)
    BY <1>6 DEF Ui!AgUiEncode
  <2>2. QED BY <1>6, <2>1, UiToolArgs
<1>7. CASE event.type = "ready"
  <2>1. r = Ui!Encoded(Ui!ToolClosed(e, event.id), Ui!ToolEnds(e, event.id))
    BY <1>7 DEF Ui!AgUiEncode
  <2>2. PICK ends : ends = Ui!ToolEnds(e, event.id)
    OBVIOUS
  <2>3. IsSequence(ends)
    BY <2>2, BlocksOpen, ToolEndsWalk DEF Typed
  <2>4. ends = ends \o <<>>
    BY <2>3, NothingAdded
  <2>5. QED BY <1>7, <2>1, <2>2, <2>4, TypedNone, UiToolCloses
<1>8. CASE event.type = "invalid"
  <2>1. PICK f : f = Ui!ResultFrame(event.id, "invalid")
    OBVIOUS
  <2>2. r = Ui!Encoded(Ui!ToolClosed(e, event.id), Ui!ToolEnds(e, event.id) \o <<f>>)
    BY <1>8, <2>1 DEF Ui!AgUiEncode
  <2>3. f.type \in AsidesUi
    BY <2>1 DEF Ui!ResultFrame, Ui!ToolFrame, AsidesUi
  <2>4. QED BY <1>8, <2>2, <2>3, TypedOne, UiToolCloses
<1>9. CASE event.type = "usage"
  <2>1. r = Ui!Encoded([e EXCEPT !.stepUsage = Ui!MergeUsage(@, event.usage)], <<>>)
    BY <1>9 DEF Ui!AgUiEncode
  <2>2. QED BY <1>9, <2>1, UiUsage
<1>10. CASE event.type \in {"result", "outputDenied", "source", "file", "structuredOutput"}
  <2>1. PICK f : r = Ui!Encoded(e, <<f>>) /\ f.type \in AsidesUi
    <3>1. CASE event.type = "result"
      BY <3>1 DEF Ui!AgUiEncode, Ui!ResultFrame, Ui!ToolFrame, AsidesUi
    <3>2. CASE event.type = "outputDenied"
      BY <3>2 DEF Ui!AgUiEncode, Ui!ResultFrame, Ui!ToolFrame, AsidesUi
    <3>3. CASE event.type = "source"
      BY <3>3 DEF Ui!AgUiEncode, Ui!CustomFrame, AsidesUi
    <3>4. CASE event.type = "file"
      BY <3>4 DEF Ui!AgUiEncode, Ui!CustomFrame, AsidesUi
    <3>5. CASE event.type = "structuredOutput"
      BY <3>5 DEF Ui!AgUiEncode, Ui!CustomFrame, AsidesUi
    <3>6. QED BY <1>10, <3>1, <3>2, <3>3, <3>4, <3>5
  <2>2. QED BY <1>10, <2>1, TypedOne, UiAside DEF SameUiBlocks, SameUiUsage
<1>11. CASE event.type \in {"approvalRequest", "clientRequest"}
  <2>1. PICK kind : r = Ui!Encoded(Ui!Interrupted(e, event.id, kind), <<>>)
    BY <1>11 DEF Ui!AgUiEncode
  <2>2. PICK q, list : /\ q = Ui!Interrupted(e, event.id, kind)
                       /\ list = Append(e.interrupts, [id |-> event.id, kind |-> kind])
    OBVIOUS
  <2>3. q = [e EXCEPT !.interrupts = list]
    BY <2>2 DEF Ui!Interrupted, AgUiOk
  <2>4. SameUiBlocks(e, q) /\ SameUiUsage(e, q)
    BY <2>3 DEF AgUiOk, SameUiBlocks, SameUiUsage
  <2>5. QED BY <1>11, <2>1, <2>2, <2>4, TypedNone, UiAside
<1>12. CASE event.type = "stateDelta"
  <2>1. CASE event.valid
    <3>1. r = Ui!Encoded(e, <<Ui!Frame("STATE_DELTA")>>)
      BY <1>12, <2>1 DEF Ui!AgUiEncode
    <3>2. Ui!Frame("STATE_DELTA").type \in AsidesUi
      BY DEF Ui!Frame, AsidesUi
    <3>3. QED BY <1>12, <3>1, <3>2, TypedOne, UiAside DEF SameUiBlocks, SameUiUsage
  <2>2. CASE ~ event.valid
    <3>1. r = Ui!Refused(e)
      BY <1>12, <2>2 DEF Ui!AgUiEncode
    <3>2. QED BY <1>12, <3>1, UiRefused
  <2>3. QED BY <2>1, <2>2
<1>13. CASE event.type = "done"
  <2>1. r = Ui!Encoded(e, <<>>)
    BY <1>13 DEF Ui!AgUiEncode
  <2>2. QED BY <1>13, <2>1, TypedNone, UiAside DEF SameUiBlocks, SameUiUsage
<1>14. QED BY <1>1, <1>2, <1>3, <1>4, <1>5, <1>6, <1>7, <1>8, <1>9, <1>10, <1>11, <1>12, <1>13
          DEF EventTypes, Streamed, CallTypes

\* The frames that end a run, the last of which says so.
UiEnding(frames, open) ==
    /\ \E s, final : /\ Typed(s, AgUiTypes) /\ final.type \in AgUiTerminals /\ frames = s \o <<final>>
    /\ Walk(open, frames, {})

UiUsageIs(frames, usage) == frames[Len(frames)].usage = usage

LEMMA LastOfConcat ==
    ASSUME NEW s, NEW f, IsSequence(s)
    PROVE  /\ IsSequence(s \o <<f>>) /\ Len(s \o <<f>>) = Len(s) + 1 /\ Len(s) \in Nat
           /\ (s \o <<f>>)[Len(s) + 1] = f
<1>1. IsSequence(<<f>>) /\ Len(<<f>>) = 1 /\ 1 \in 1 .. 1 /\ <<f>>[1] = f
  BY OneIsSequence
<1>2. QED BY <1>1, ConcatIsSequence, SequenceShape

LEMMA TerminalWalks ==
    ASSUME NEW f, f.type \in AgUiTerminals
    PROVE  Walk({}, <<f>>, {})
<1>1. f.type \notin AgUiStarts \cup AgUiContents \cup AgUiEnds
  BY DEF AgUiStarts, AgUiContents, AgUiEnds, AgUiTerminals
<1>2. Fits({}, f) /\ After({}, f) = {}
  BY <1>1, UiFrames DEF Fits, After
<1>3. QED BY <1>2, WalkOne

\* Everything open is closed, something is said, and the run is ended.
LEMMA UiEnds ==
    ASSUME NEW e, AgUiOk(e), NEW mid, Typed(mid, AsidesUi), NEW final, final.type \in AgUiTerminals,
           NEW frames, frames = Ui!ContentEnds(e) \o (mid \o <<final>>)
    PROVE  UiEnding(frames, AgUiBlocks(e)) /\ UiUsageIs(frames, final.usage)
<1>1. PICK ends, s : ends = Ui!ContentEnds(e) /\ s = ends \o mid
  OBVIOUS
<1>2. Walk(AgUiBlocks(e), ends, {}) /\ Typed(ends, AgUiTypes)
  BY <1>1, ContentEndsWalk
<1>3. Walk({}, mid, {}) /\ Typed(mid, AgUiTypes)
  BY AsidesWalk
<1>4. Walk(AgUiBlocks(e), s, {}) /\ Typed(s, AgUiTypes)
  BY <1>1, <1>2, <1>3, WalkConcat, TypedConcat
<1>5. frames = s \o <<final>>
  BY <1>1, <1>2, <1>3, OneIsSequence, ConcatAssociates DEF Typed
<1>6. Walk(AgUiBlocks(e), s \o <<final>>, {})
  BY <1>4, TerminalWalks, WalkConcat
<1>7. frames[Len(frames)] = final
  BY <1>4, <1>5, LastOfConcat DEF Typed
<1>8. QED BY <1>4, <1>5, <1>6, <1>7 DEF UiEnding, UiUsageIs

\* encoder.Finish
LEMMA UiFinishes ==
    ASSUME NEW e, AgUiOk(e), NEW failed \in BOOLEAN, NEW r, r = Ui!AgUiFinish(e, failed)
    PROVE  /\ UiEnding(r.frames, AgUiBlocks(e))
           /\ ~ failed => UiUsageIs(r.frames, Ui!UsagePayload(AddUsage(e.totalUsage, e.stepUsage)))
<1>1. PICK c, ends, usage : /\ c = Ui!UsageCommitted(Ui!ContentClosed(e)) /\ ends = Ui!ContentEnds(e)
                            /\ usage = Ui!UsagePayload(AddUsage(e.totalUsage, e.stepUsage))
  OBVIOUS
<1>2. c.totalUsage = AddUsage(e.totalUsage, e.stepUsage)
  BY <1>1, ClosedShape
<1>3. CASE failed
  <2>1. PICK final : final = Ui!Frame("RUN_ERROR")
    OBVIOUS
  <2>2. final.type \in AgUiTerminals
    BY <2>1 DEF Ui!Frame, AgUiTerminals
  <2>3. r.frames = ends \o <<final>>
    BY <1>1, <1>3, <2>1 DEF Ui!AgUiFinish, Ui!Encoded
  <2>4. <<final>> = <<>> \o <<final>>
    BY OneIsSequence, NothingAdded
  <2>5. PICK mid : mid = <<>>
    OBVIOUS
  <2>6. Typed(mid, AsidesUi)
    BY <2>5, TypedNone
  <2>7. r.frames = Ui!ContentEnds(e) \o (mid \o <<final>>)
    BY <1>1, <2>3, <2>4, <2>5
  <2>8. QED BY <1>3, <2>2, <2>6, <2>7, UiEnds
<1>4. CASE ~ failed /\ e.interrupts # <<>>
  <2>1. PICK snapshot, state, final :
          /\ snapshot = Ui!SnapshotFrame(e) /\ state = Ui!Frame("STATE_SNAPSHOT")
          /\ final = Ui!RunFinished("interrupt", e.interrupts, "", c.totalUsage)
    OBVIOUS
  <2>2. /\ snapshot.type \in AsidesUi /\ state.type \in AsidesUi /\ final.type \in AgUiTerminals
        /\ final.usage = usage
    BY <1>1, <1>2, <2>1 DEF Ui!SnapshotFrame, Ui!Frame, Ui!RunFinished, AsidesUi, AgUiTerminals
  <2>3. PICK more, mid : more = Ui!Option(e.options.hasState, state) /\ mid = <<snapshot>> \o more
    OBVIOUS
  <2>4. Typed(mid, AsidesUi)
    BY <2>2, <2>3, UiOptionAside, TypedOne, TypedConcat
  <2>5. r.frames = ends \o (mid \o <<final>>)
    BY <1>1, <1>4, <2>1, <2>3 DEF Ui!AgUiFinish, Ui!Encoded
  <2>6. QED BY <1>1, <2>2, <2>4, <2>5, UiEnds
<1>5. CASE ~ failed /\ e.interrupts = <<>>
  <2>1. PICK final : final = Ui!RunFinished("success", <<>>, e.reason, c.totalUsage)
    OBVIOUS
  <2>2. final.type \in AgUiTerminals /\ final.usage = usage
    BY <1>1, <1>2, <2>1 DEF Ui!RunFinished, AgUiTerminals
  <2>3. r.frames = ends \o <<final>>
    BY <1>1, <1>5, <2>1 DEF Ui!AgUiFinish, Ui!Encoded
  <2>4. <<final>> = <<>> \o <<final>>
    BY OneIsSequence, NothingAdded
  <2>5. PICK mid : mid = <<>>
    OBVIOUS
  <2>6. Typed(mid, AsidesUi)
    BY <2>5, TypedNone
  <2>7. r.frames = Ui!ContentEnds(e) \o (mid \o <<final>>)
    BY <1>1, <2>3, <2>4, <2>5
  <2>8. QED BY <1>1, <2>2, <2>6, <2>7, UiEnds
<1>6. QED BY <1>3, <1>4, <1>5

\* encoder.Start
LEMMA UiBegins ==
    ASSUME NEW options, NEW r, r = Ui!AgUiStart(Ui!NewAgUi(options))
    PROVE  /\ AgUiOk(r.enc) /\ AgUiBlocks(r.enc) = {} /\ r.enc.openTools = {}
           /\ r.enc.stepUsage = NoUsage /\ r.enc.totalUsage = NoUsage
           /\ Typed(r.frames, AsidesUi)
<1>1. PICK e : e = Ui!NewAgUi(options)
  OBVIOUS
<1>2. /\ DOMAIN e = {"options", "step", "textOpen", "reasoningOpen", "textBuf", "openTools", "toolOrder",
                     "toolCalls", "interrupts", "stepUsage", "totalUsage", "reason"}
      /\ e.textOpen = FALSE /\ e.reasoningOpen = FALSE /\ e.openTools = {} /\ e.toolOrder = <<>>
      /\ e.stepUsage = NoUsage /\ e.totalUsage = NoUsage
  BY <1>1, SameUsageOps DEF Ui!NewAgUi
<1>3. AgUiOk(e) /\ AgUiBlocks(e) = {}
  BY <1>2, NoneIsSequence, NoUsageShape DEF AgUiOk, AgUiBlocks
<1>4. PICK one, two : one = Ui!Frame("RUN_STARTED") /\ two = Ui!CustomFrame("structured-output.start", "")
  OBVIOUS
<1>5. one.type \in AsidesUi /\ two.type \in AsidesUi
  BY <1>4 DEF Ui!Frame, Ui!CustomFrame, AsidesUi
<1>6. PICK more : more = Ui!Option(e.options.structuredStart, two)
  OBVIOUS
<1>7. r.enc = e /\ r.frames = <<one>> \o more
  BY <1>1, <1>4, <1>6 DEF Ui!AgUiStart, Ui!Encoded
<1>8. Typed(r.frames, AsidesUi)
  BY <1>5, <1>6, <1>7, UiOptionAside, TypedOne, TypedConcat
<1>9. QED BY <1>2, <1>3, <1>7, <1>8

-----------------------------------------------------------------------------
(* The frames that end a run. *)

TerminalTypes == AgUiTerminals \cup {"finish"}

LEMMA TerminalsOfConcat ==
    ASSUME NEW w, NEW s, IsSequence(w), IsSequence(s)
    PROVE  Terminals(w \o s) = Terminals(w) \cup {Len(w) + i : i \in Terminals(s)}
<1> PICK m, n, ws : m = Len(w) /\ n = Len(s) /\ ws = w \o s
  OBVIOUS
<1>1. /\ m \in Nat /\ n \in Nat /\ DOMAIN w = 1 .. m /\ DOMAIN s = 1 .. n /\ DOMAIN ws = 1 .. m + n
      /\ \A i \in 1 .. m : ws[i] = w[i]
      /\ \A i \in 1 .. n : ws[m + i] = s[i]
  BY ConcatIsSequence, SequenceShape
<1>2. ASSUME NEW i \in Terminals(ws) PROVE i \in Terminals(w) \/ \E j \in Terminals(s) : i = m + j
  <2>1. CASE i \in 1 .. m
    BY <1>1, <2>1 DEF Terminals
  <2>2. CASE i \notin 1 .. m
    <3>1. i \in 1 .. m + n
      BY <1>1 DEF Terminals
    <3>2. i - m \in 1 .. n /\ i = m + (i - m)
      BY <1>1, <2>2, <3>1
    <3>3. i - m \in Terminals(s)
      <4>1. PICK j : j = i - m
        OBVIOUS
      <4>2. ws[i] = s[j] /\ j \in DOMAIN s
        BY <1>1, <3>2, <4>1
      <4>3. QED BY <4>1, <4>2 DEF Terminals
    <3>4. QED BY <3>2, <3>3
  <2>3. QED BY <2>1, <2>2
<1>3. ASSUME NEW i \in Terminals(w) PROVE i \in Terminals(ws)
  BY <1>1 DEF Terminals
<1>4. ASSUME NEW j \in Terminals(s) PROVE m + j \in Terminals(ws)
  <2>1. j \in 1 .. n /\ m + j \in 1 .. m + n
    BY <1>1 DEF Terminals
  <2>2. QED BY <1>1, <2>1 DEF Terminals
<1>5. QED BY <1>2, <1>3, <1>4

LEMMA NoTerminals ==
    ASSUME NEW s, NEW types, Typed(s, types), types \cap TerminalTypes = {}
    PROVE  IsSequence(s) /\ Terminals(s) = {}
BY DEF Typed, Terminals, TerminalTypes

LEMMA QuietTypes ==
    SdkTypes \cap TerminalTypes = {} /\ AgUiTypes \cap TerminalTypes = {} /\ "[DONE]" \notin TerminalTypes
<1>1. \A type \in TerminalTypes : type \notin SdkTypes
  BY DEF SdkTypes, TerminalTypes, AgUiTerminals, Sdk!BlockTypes, Sdk!BlockStarts, Sdk!BlockFinishes,
         Sdk!ToolTypes, Sdk!Outputs
<1>2. \A type \in TerminalTypes : type \notin AgUiTypes
  BY DEF AgUiTypes, AsidesUi, AgUiStarts, AgUiContents, AgUiEnds, TerminalTypes, AgUiTerminals
<1>3. "[DONE]" \notin TerminalTypes
  BY DEF TerminalTypes, AgUiTerminals
<1>4. QED BY <1>1, <1>2, <1>3

\* Frames that end no run add no terminal.
LEMMA QuietFrames ==
    ASSUME NEW w, NEW s, IsSequence(w), NEW types, Typed(s, types), types \cap TerminalTypes = {}
    PROVE  IsSequence(w \o s) /\ Terminals(w \o s) = Terminals(w)
<1>1. IsSequence(s) /\ Terminals(s) = {}
  BY NoTerminals
<1>2. Terminals(w \o s) = Terminals(w) \cup {Len(w) + i : i \in {}}
  BY <1>1, TerminalsOfConcat
<1>3. QED BY <1>1, <1>2, ConcatIsSequence

LEMMA OneTerminal ==
    ASSUME NEW s, NEW final, NEW types, Typed(s, types), types \cap TerminalTypes = {},
           final.type \in TerminalTypes, NEW frames, frames = s \o <<final>>
    PROVE  /\ IsSequence(frames) /\ Len(frames) = Len(s) + 1 /\ Len(s) \in Nat
           /\ frames[Len(frames)] = final /\ Terminals(frames) = {Len(frames)}
<1>1. IsSequence(s) /\ Terminals(s) = {} /\ Len(s) \in Nat
  BY NoTerminals, SequenceShape
<1>2. IsSequence(<<final>>) /\ Terminals(<<final>>) = {1}
  <2>1. DOMAIN <<final>> = {1} /\ <<final>>[1] = final
    OBVIOUS
  <2>2. QED BY <2>1, OneIsSequence DEF Terminals, TerminalTypes
<1>3. Terminals(frames) = {Len(s) + 1}
  <2>1. Terminals(frames) = {} \cup {Len(s) + i : i \in {1}}
    BY <1>1, <1>2, TerminalsOfConcat
  <2>2. QED BY <2>1
<1>4. QED BY <1>1, <1>3, LastOfConcat

\* The places of an AG-UI run's end: the last frame only.
LEMMA UiTerminals ==
    ASSUME NEW frames, NEW open, UiEnding(frames, open)
    PROVE  /\ IsSequence(frames) /\ Len(frames) \in Nat /\ Len(frames) > 0
           /\ frames[Len(frames)].type \in AgUiTerminals /\ Terminals(frames) = {Len(frames)}
           /\ \A i \in DOMAIN frames : frames[i].type \notin Sdk!BlockTypes
<1>1. PICK s, final : Typed(s, AgUiTypes) /\ final.type \in AgUiTerminals /\ frames = s \o <<final>>
  BY DEF UiEnding
<1>2. final.type \in TerminalTypes
  BY <1>1 DEF TerminalTypes
<1>3. /\ IsSequence(frames) /\ Len(frames) = Len(s) + 1 /\ Len(s) \in Nat
      /\ frames[Len(frames)] = final /\ Terminals(frames) = {Len(frames)}
  BY <1>1, <1>2, QuietTypes, OneTerminal
<1>4. Typed(frames, AgUiTypes \cup AgUiTerminals)
  <2>1. AgUiTypes \subseteq AgUiTypes \cup AgUiTerminals
    OBVIOUS
  <2>2. Typed(s, AgUiTypes \cup AgUiTerminals)
    BY <1>1, <2>1, TypedMore
  <2>3. Typed(<<final>>, AgUiTypes \cup AgUiTerminals)
    BY <1>1, TypedOne
  <2>4. QED BY <1>1, <2>2, <2>3, TypedConcat
<1>5. \A i \in DOMAIN frames : frames[i].type \notin Sdk!BlockTypes
  BY <1>4, UiFrames DEF Typed
<1>6. QED BY <1>1, <1>3, <1>5

\* The last frame but one is a finish chunk.
LastIsFinish(frames) == \E usage : IsFinish(frames[Len(frames) - 1], usage)

\* The places of an AI SDK run's end: the last frame but one.
LEMMA SdkTerminals ==
    ASSUME NEW frames, NEW usage, Ending(frames, usage)
    PROVE  IsSequence(frames) /\ FinishIsLast(frames, usage) /\ LastIsFinish(frames)
<1>1. PICK done, s, final : /\ done = Sdk!Chunk("[DONE]")
                            /\ Typed(s, SdkTypes) /\ IsFinish(final, usage)
                            /\ frames = (s \o <<final>>) \o <<done>>
  BY DEF Ending
<1>2. PICK t : t = s \o <<final>>
  OBVIOUS
<1>3. final.type \in TerminalTypes /\ final.usage = usage
  BY <1>1 DEF TerminalTypes, IsFinish
<1>4. /\ IsSequence(t) /\ Len(t) = Len(s) + 1 /\ Len(s) \in Nat
      /\ t[Len(t)] = final /\ Terminals(t) = {Len(t)}
  BY <1>1, <1>2, <1>3, QuietTypes, OneTerminal
<1>5. done.type = "[DONE]"
  BY <1>1 DEF Sdk!Chunk
<1>6. Typed(<<done>>, {"[DONE]"}) /\ {"[DONE]"} \cap TerminalTypes = {}
  BY <1>5, TypedOne, QuietTypes
<1>7. IsSequence(t \o <<done>>) /\ Terminals(t \o <<done>>) = {Len(t)}
  BY <1>4, <1>6, QuietFrames
<1>8. /\ Len(frames) = Len(t) + 1 /\ frames[Len(frames)] = done
  BY <1>1, <1>2, <1>4, LastOfConcat
<1>9. frames[Len(t)] = final
  <2>1. Len(t) \in 1 .. Len(t)
    BY <1>4
  <2>2. IsSequence(<<done>>)
    BY <1>6 DEF Typed
  <2>3. (t \o <<done>>)[Len(t)] = t[Len(t)]
    BY <1>4, <2>1, <2>2, ConcatIsSequence
  <2>4. QED BY <1>1, <1>2, <1>4, <2>3
<1>10. Len(frames) - 1 = Len(t) /\ Len(frames) >= 2
  BY <1>4, <1>8
<1>11. LastIsFinish(frames)
  BY <1>1, <1>9, <1>10 DEF LastIsFinish
<1>12. QED BY <1>1, <1>2, <1>3, <1>5, <1>7, <1>8, <1>9, <1>10, <1>11 DEF FinishIsLast

\* Frames of which only the last but one ends a run, after others.
EndedLast(all, w, usage) ==
    /\ IsSequence(all) /\ Len(all) \in Nat /\ Len(all) >= 2
    /\ Len(all) - 1 \notin Terminals(w)
    /\ Terminals(all) = Terminals(w) \cup {Len(all) - 1}
    /\ all[Len(all)].type = "[DONE]" /\ all[Len(all) - 1].usage = usage

LEMMA FinishComesLast ==
    ASSUME NEW w, NEW frames, NEW usage, IsSequence(w), IsSequence(frames), FinishIsLast(frames, usage),
           NEW all, all = w \o frames
    PROVE  EndedLast(all, w, usage)
<1> PICK m, n : m = Len(w) /\ n = Len(frames)
  OBVIOUS
<1>1. /\ m \in Nat /\ n \in Nat /\ IsSequence(all) /\ Len(all) = m + n /\ DOMAIN w = 1 .. m
      /\ \A i \in 1 .. n : all[m + i] = frames[i]
      /\ Terminals(all) = Terminals(w) \cup {m + i : i \in Terminals(frames)}
  BY ConcatIsSequence, SequenceShape, TerminalsOfConcat
<1>2. /\ n >= 2 /\ Terminals(frames) = {n - 1} /\ frames[n].type = "[DONE]"
      /\ frames[n - 1].usage = usage
  BY DEF FinishIsLast
<1>3. /\ n \in 1 .. n /\ n - 1 \in 1 .. n /\ m + (n - 1) = (m + n) - 1 /\ (m + n) - 1 \notin 1 .. m
  BY <1>1, <1>2
<1>4. all[m + n] = frames[n] /\ all[(m + n) - 1] = frames[n - 1]
  BY <1>1, <1>3
<1>5. (m + n) - 1 \notin Terminals(w)
  BY <1>1, <1>3 DEF Terminals
<1>6. Terminals(all) = Terminals(w) \cup {(m + n) - 1}
  BY <1>1, <1>2, <1>3
<1>7. QED BY <1>1, <1>2, <1>4, <1>5, <1>6 DEF EndedLast

LEMMA Counting ==
    /\ Cardinality({}) = 0 /\ \A x : Cardinality({x}) = 1
    /\ \A x, y : x # y => Cardinality({x} \cup {y}) = 2
    /\ \A x : \A S \in SUBSET {x} : Cardinality(S) <= 1
<1>1. Cardinality({}) = 0 /\ \A x : IsFiniteSet({x}) /\ Cardinality({x}) = 1
  BY FS_EmptySet, FS_Singleton
<1>2. ASSUME NEW x, NEW y, x # y PROVE Cardinality({x} \cup {y}) = 2
  <2>1. y \notin {x} /\ IsFiniteSet({x}) /\ Cardinality({x}) = 1
    BY <1>1, <1>2
  <2>2. Cardinality({x} \cup {y}) = Cardinality({x}) + 1
    BY <2>1, FS_AddElement
  <2>3. QED BY <2>1, <2>2
<1>3. ASSUME NEW x, NEW S \in SUBSET {x} PROVE Cardinality(S) <= 1
  <2>1. S = {} \/ S = {x}
    OBVIOUS
  <2>2. QED BY <1>1, <2>1
<1>4. QED BY <1>1, <1>2, <1>3

LEMMA MaxOfOne ==
    ASSUME NEW x \in Nat
    PROVE  Max({x}) = x
BY DEF Max

\* A prefix has no other terminals.
LEMMA PrefixTerminals ==
    ASSUME NEW s, NEW t, IsSequence(s), IsSequence(t), IsPrefix(s, t)
    PROVE  Terminals(s) \subseteq Terminals(t)
<1> PICK m, n : m = Len(s) /\ n = Len(t)
  OBVIOUS
<1>1. /\ m \in Nat /\ n \in Nat /\ m <= n /\ DOMAIN s = 1 .. m /\ DOMAIN t = 1 .. n
      /\ \A i \in 1 .. m : s[i] = t[i]
  BY PrefixMeans, SequenceShape
<1>2. \A i \in 1 .. m : i \in 1 .. n
  BY <1>1
<1>3. QED BY <1>1, <1>2 DEF Terminals

-----------------------------------------------------------------------------
(* Three accounts of the usage. *)

\* A snapshot that is merged again changes nothing (aikit/usage.go).
LEMMA MergesOnce ==
    ASSUME NEW usage \in Usage, NEW other \in Usage
    PROVE  /\ MergeUsage(usage, MergeUsage(usage, other)) = MergeUsage(usage, other)
           /\ MergeUsage(NoUsage, other) = other
<1>1. DOMAIN usage = Counters /\ \A f \in Counters : usage[f] \in Int /\ other[f] \in Int
  BY UsageShape
<1>2. PICK merged : merged = MergeUsage(usage, other)
  OBVIOUS
<1>3. merged = [f \in Counters |-> IF other[f] # 0 THEN other[f] ELSE usage[f]]
  BY <1>1, <1>2 DEF MergeUsage
<1>4. MergeUsage(usage, merged) = [f \in Counters |-> IF merged[f] # 0 THEN merged[f] ELSE usage[f]]
  BY <1>1 DEF MergeUsage
<1>5. \A f \in Counters : (IF merged[f] # 0 THEN merged[f] ELSE usage[f]) = merged[f]
  BY <1>3
<1>6. MergeUsage(usage, merged) = merged
  BY <1>3, <1>4, <1>5
<1>7. MergeUsage(NoUsage, other) = [f \in Counters |-> IF other[f] # 0 THEN other[f] ELSE NoUsage[f]]
  BY NoUsageShape DEF MergeUsage
<1>8. \A f \in Counters : (IF other[f] # 0 THEN other[f] ELSE NoUsage[f]) = other[f]
  BY NoUsageShape
<1>9. other = [f \in Counters |-> other[f]]
  BY UsageShape
<1>10. MergeUsage(NoUsage, other) = other
  BY <1>7, <1>8, <1>9
<1>11. QED BY <1>2, <1>6, <1>10

\* The producer replaces the last snapshot of the step by the next in its total.
LEMMA ReplacesSnapshot ==
    ASSUME NEW completed \in Usage, NEW current \in Usage, NEW usage \in Usage, NEW total,
           total = AddUsage(completed, current)
    PROVE  [f \in Counters |-> total[f] + usage[f] - current[f]] = AddUsage(completed, usage)
<1>1. /\ DOMAIN completed = Counters
      /\ \A f \in Counters : completed[f] \in Int /\ current[f] \in Int /\ usage[f] \in Int
  BY UsageShape
<1>2. /\ total = [f \in Counters |-> completed[f] + current[f]]
      /\ AddUsage(completed, usage) = [f \in Counters |-> completed[f] + usage[f]]
  BY <1>1 DEF AddUsage
<1>3. \A f \in Counters : total[f] + usage[f] - current[f] = completed[f] + usage[f]
  BY <1>1, <1>2
<1>4. QED BY <1>2, <1>3

=============================================================================
