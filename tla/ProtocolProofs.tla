--------------------------- MODULE ProtocolProofs ---------------------------
(***************************************************************************)
(* Proofs about Protocol for every set of checkers, every payload, every   *)
(* set of levels and every bound on the samples: what a checker remembers, *)
(* one payload and two counts, decides whether the whole history since the *)
(* last reset keeps the contract.                                          *)
(***************************************************************************)
EXTENDS Protocol, FiniteSetTheorems, SequenceTheorems, TLAPS

Framed == checker.kind = "stream" /\ checker.framed

-----------------------------------------------------------------------------
\* Facts about the history.

\* What the assumption says of the checker at work.
LEMMA CheckerFacts ==
  ASSUME checker \in Checkers
  PROVE  /\ checker.kind \in {"handshake", "stream", "terminal", "mid_lane"}
         /\ checker.expected # Unlimited => checker.expected \in Nat
         /\ Unlimited \notin Nat /\ NoPayload \notin Payload
BY CheckersAssumption, DistinctAssumption DEF Payload

\* The transfers and the batches of a history are finitely many.
LEMMA FiniteHistory ==
  ASSUME NEW m \in Nat
  PROVE  /\ IsFiniteSet(TransfersIn(m)) /\ Cardinality(TransfersIn(m)) \in Nat
         /\ IsFiniteSet(Batches(m)) /\ Cardinality(Batches(m)) \in Nat
<1>1. IsFiniteSet(1 .. m)
  BY FS_Interval
<1>2. TransfersIn(m) \in SUBSET (1 .. m) /\ Batches(m) \in SUBSET (1 .. m)
  BY DEF TransfersIn, Batches
<1>3. IsFiniteSet(TransfersIn(m)) /\ IsFiniteSet(Batches(m))
  BY <1>1, <1>2, FS_Subset
<1> QED
  BY <1>3, FS_CardinalityType

\* An empty history has neither, and keeps the contract.
LEMMA EmptyHistory ==
  checker \in Checkers => TransfersIn(0) = {} /\ Batches(0) = {} /\ Conforms(0)
<1> SUFFICES ASSUME checker \in Checkers
             PROVE  TransfersIn(0) = {} /\ Batches(0) = {} /\ Conforms(0)
  OBVIOUS
<1>1. TransfersIn(0) = {} /\ Batches(0) = {}
  BY DEF TransfersIn, Batches
<1>2. Cardinality(Batches(0)) = 0
  BY <1>1, FS_EmptySet
<1>3. BinaryThrough(0) /\ HeldThrough(0)
  BY DEF BinaryThrough, HeldThrough
<1>4. FramedThrough(0)
  BY <1>1, <1>2, CheckerFacts DEF FramedThrough
<1> QED
  BY <1>1, <1>3, <1>4 DEF Conforms

\* The same history is judged alike.
LEMMA SameHistory ==
  ASSUME UNCHANGED <<checker, seen>>
  PROVE  /\ UNCHANGED <<TransfersIn(Len(seen)), Batches(Len(seen))>>
         /\ Stalled(Len(seen))' <=> Stalled(Len(seen))
         /\ Conforms(Len(seen))' <=> Conforms(Len(seen))
         /\ Conforms(Len(seen) - 1)' <=> Conforms(Len(seen) - 1)
<1>1. ASSUME NEW m
      PROVE  /\ TransfersIn(m)' = TransfersIn(m) /\ Batches(m)' = Batches(m)
             /\ Conforms(m)' <=> Conforms(m)
  <2>1. ASSUME NEW p
        PROVE  TransfersIn(p)' = TransfersIn(p) /\ Batches(p)' = Batches(p)
    BY DEF TransfersIn, Batches, Transfer, Status
  <2>2. BinaryThrough(m)' <=> BinaryThrough(m)
    BY DEF BinaryThrough, Transfer, Status
  <2>3. HeldThrough(m)' <=> HeldThrough(m)
    BY DEF HeldThrough, Stalled
  <2>4. FramedThrough(m)' <=> FramedThrough(m)
    BY <2>1 DEF FramedThrough
  <2> QED
    BY <2>1, <2>2, <2>3, <2>4 DEF Conforms
<1> QED
  BY <1>1 DEF Stalled

-----------------------------------------------------------------------------
\* One more sample.

\* A step that appends a sample.
Sampled(s) == checker' = checker /\ seen' = Append(seen, s)

\* What a run has seen is a history of samples, and stays finite.
LEMMA SampledHistory ==
  ASSUME seen \in Seq(Sample), NEW s \in Sample, Sampled(s)
  PROVE  /\ Len(seen) \in Nat /\ Len(seen') = Len(seen) + 1
         /\ \A i \in 1 .. Len(seen) : seen'[i] = seen[i]
         /\ seen'[Len(seen) + 1] = s
         /\ seen' \in Seq(Sample)
BY AppendProperties, LenProperties DEF Sampled

\* The samples before it are judged as they were.
LEMMA PrefixKept ==
  ASSUME seen \in Seq(Sample), NEW s \in Sample, Sampled(s), NEW m \in 0 .. Len(seen)
  PROVE  /\ TransfersIn(m)' = TransfersIn(m)
         /\ Batches(m)' = Batches(m)
         /\ Conforms(m)' <=> Conforms(m)
<1>1. \A i \in 1 .. m : seen'[i] = seen[i]
  BY SampledHistory
<1>2. checker' = checker /\ (Status' <=> Status)
  BY DEF Sampled, Status
<1>3. ASSUME NEW p \in 0 .. m
      PROVE  TransfersIn(p)' = TransfersIn(p) /\ Batches(p)' = Batches(p)
  <2>1. \A i \in 1 .. p : seen'[i] = seen[i]
    BY <1>1, SampledHistory
  <2>2. TransfersIn(p)' = TransfersIn(p)
    BY <2>1 DEF TransfersIn, Transfer
  <2>3. \A i \in TransfersIn(p) : seen'[i] = seen[i]
    BY <2>1 DEF TransfersIn
  <2> QED
    BY <1>2, <2>2, <2>3 DEF Batches
<1>4. BinaryThrough(m)' <=> BinaryThrough(m)
  BY <1>1, <1>2 DEF BinaryThrough, Transfer
<1>5. HeldThrough(m)' <=> HeldThrough(m)
  <2>1. \A i \in 1 .. m - 1 : i \in 1 .. m /\ i + 1 \in 1 .. m
    BY SampledHistory
  <2> QED
    BY <1>1, <2>1 DEF HeldThrough, Stalled
<1>6. FramedThrough(m)' <=> FramedThrough(m)
  <2>1. TransfersIn(m)' = TransfersIn(m) /\ Batches(m)' = Batches(m)
    BY <1>3, SampledHistory
  <2>2. \A i \in TransfersIn(m) : i \in 1 .. m /\ i - 1 \in 0 .. m
    BY SampledHistory DEF TransfersIn
  <2>3. \A i \in TransfersIn(m) : seen'[i] = seen[i] /\ Batches(i - 1)' = Batches(i - 1)
    BY <1>1, <1>3, <2>2
  <2> QED
    BY <1>2, <2>1, <2>3 DEF FramedThrough
<1> QED
  BY <1>3, <1>4, <1>5, <1>6, SampledHistory DEF Conforms

\* A sample that ends a batch if it is a transfer.
EndsBatch(s) == Status \/ (Framed /\ s.payload.flag = 1)

\* The sample that is appended is one transfer more and one batch more, or not.
LEMMA GrownHistory ==
  ASSUME seen \in Seq(Sample), NEW s \in Sample, Sampled(s),
         NEW n \in Nat, n = Len(seen)
  PROVE  /\ TransfersIn(n + 1)' = IF Transfer(s) THEN TransfersIn(n) \cup {n + 1} ELSE TransfersIn(n)
         /\ Batches(n + 1)' = IF Transfer(s) /\ EndsBatch(s)
                              THEN Batches(n) \cup {n + 1} ELSE Batches(n)
<1>1. checker' = checker /\ (Status' <=> Status) /\ (Framed' <=> Framed)
  BY DEF Sampled, Status, Framed
<1>2. \A i \in 1 .. n : seen'[i] = seen[i]
  BY SampledHistory
<1>3. seen'[n + 1] = s
  BY SampledHistory
<1>4. 1 .. n + 1 = (1 .. n) \cup {n + 1}
  OBVIOUS
<1>5. TransfersIn(n + 1)' = IF Transfer(s) THEN TransfersIn(n) \cup {n + 1} ELSE TransfersIn(n)
  BY <1>2, <1>3, <1>4 DEF TransfersIn, Transfer
<1>6. \A i \in TransfersIn(n) : seen'[i] = seen[i]
  BY <1>2 DEF TransfersIn
<1>7. Batches(n + 1)' = IF Transfer(s) /\ EndsBatch(s)
                        THEN Batches(n) \cup {n + 1} ELSE Batches(n)
  <2>1. CASE Status
    BY <1>1, <1>5, <2>1 DEF Batches, EndsBatch
  <2>2. CASE ~Status
    BY <1>1, <1>3, <1>5, <1>6, <2>2 DEF Batches, EndsBatch, Framed
  <2> QED
    BY <2>1, <2>2
<1> QED
  BY <1>5, <1>7

\* The transfers and batches of a history with one more sample.
LEMMA GrownCounts ==
  ASSUME seen \in Seq(Sample), NEW s \in Sample, Sampled(s),
         NEW n \in Nat, n = Len(seen)
  PROVE  /\ Cardinality(TransfersIn(n + 1)') =
              Cardinality(TransfersIn(n)) + (IF Transfer(s) THEN 1 ELSE 0)
         /\ Cardinality(Batches(n + 1)') =
              Cardinality(Batches(n)) + (IF Transfer(s) /\ EndsBatch(s) THEN 1 ELSE 0)
<1>1. n + 1 \notin TransfersIn(n) /\ n + 1 \notin Batches(n)
  BY DEF TransfersIn, Batches
<1>2. /\ Cardinality(TransfersIn(n) \cup {n + 1}) = Cardinality(TransfersIn(n)) + 1
      /\ Cardinality(Batches(n) \cup {n + 1}) = Cardinality(Batches(n)) + 1
  BY <1>1, FiniteHistory, FS_AddElement
<1>3. Cardinality(TransfersIn(n)) \in Nat /\ Cardinality(Batches(n)) \in Nat
  BY FiniteHistory
<1>4. /\ TransfersIn(n + 1)' = IF Transfer(s) THEN TransfersIn(n) \cup {n + 1} ELSE TransfersIn(n)
      /\ Batches(n + 1)' = IF Transfer(s) /\ EndsBatch(s)
                           THEN Batches(n) \cup {n + 1} ELSE Batches(n)
  BY GrownHistory
<1> QED
  BY <1>2, <1>3, <1>4

-----------------------------------------------------------------------------
\* What a checker remembers of the history.

\* While no rule is broken, the two numbers count the history and the payload
\* is that of its last sample, if that one is stalled.
Remembers ==
  violation = "none" =>
    /\ transfers = Cardinality(TransfersIn(Len(seen)))
    /\ completed = Cardinality(Batches(Len(seen)))
    /\ held = IF seen # << >> /\ Stalled(Len(seen)) THEN seen[Len(seen)].payload ELSE NoPayload

\* How the block was left agrees with what the checker held.
LeftAsJudged ==
  /\ outcome = "ok" => violation = "none" /\ FinishRule = "none"
  /\ outcome \in Rules => violation # "none" \/ FinishRule # "none"

IInv == TypeOK /\ Remembers /\ AccusesTheGuilty /\ LeftAsJudged

\* A sample judged by what the checker remembers.
BinarySample(s) ==
  /\ Binary(s.valid) /\ Binary(s.ready)
  /\ (Framed \/ Status) /\ Transfer(s) => Binary(s.payload.flag)

KeepsHeld(s) == held # NoPayload => s.valid = 1 /\ s.payload = held

KeepsFrame(s) ==
  Transfer(s) =>
    /\ (Framed \/ Status) /\ checker.expected # Unlimited => completed < checker.expected
    /\ checker.kind = "mid_lane" => s.payload.flag = 1

\* The history grows by a conforming sample exactly if the checker's memory
\* says so.
LEMMA GrownContract ==
  ASSUME IInv, violation = "none", NEW s \in Sample, Sampled(s),
         NEW n \in Nat, n = Len(seen)
  PROVE  /\ Conforms(n)'
         /\ Conforms(n + 1)' <=> BinarySample(s) /\ KeepsHeld(s) /\ KeepsFrame(s)
<1> USE DEF IInv, TypeOK
<1>1. checker' = checker /\ (Status' <=> Status) /\ (Framed' <=> Framed)
  BY DEF Sampled, Status, Framed
<1>2. \A i \in 1 .. n : seen'[i] = seen[i]
  BY SampledHistory
<1>3. seen'[n + 1] = s
  BY SampledHistory
<1>4. Conforms(n) /\ Conforms(n)'
  BY PrefixKept DEF AccusesTheGuilty
<1>5. BinaryThrough(n + 1)' <=> BinarySample(s)
  <2>1. BinaryThrough(n + 1)' <=> BinaryThrough(n)' /\ BinarySample(s)
    BY <1>1, <1>3 DEF BinaryThrough, BinarySample, Framed, Transfer
  <2> QED
    BY <1>4, <2>1 DEF Conforms
<1>6. HeldThrough(n + 1)' <=> KeepsHeld(s)
  <2>1. HeldThrough(n + 1)' <=>
          HeldThrough(n)' /\ (n \in 1 .. n => (Stalled(n) => s.valid = 1 /\ s.payload = seen[n].payload))
    BY <1>2, <1>3 DEF HeldThrough, Stalled
  <2>2. n \in 1 .. n <=> seen # << >>
    BY EmptySeq
  <2>3. n \in 1 .. n => seen[n].payload # NoPayload
    <3>1. n \in 1 .. n => seen[n] \in Sample
      BY ElementOfSeq
    <3> QED
      BY <3>1, CheckerFacts DEF Sample
  <2>4. KeepsHeld(s) <=> (n \in 1 .. n => (Stalled(n) => s.valid = 1 /\ s.payload = seen[n].payload))
    BY <2>2, <2>3 DEF Remembers, KeepsHeld
  <2> QED
    BY <1>4, <2>1, <2>4 DEF Conforms
<1>7. FramedThrough(n + 1)' <=> KeepsFrame(s)
  <2> DEFINE ok  == Transfer(s) /\ EndsBatch(s)
             B   == Batches(n + 1)'
             T   == TransfersIn(n + 1)'
  <2>1. completed = Cardinality(Batches(n))
    BY DEF Remembers
  <2>2. Cardinality(B) = completed + (IF ok THEN 1 ELSE 0)
    BY <2>1, GrownCounts
  <2>3. T = IF Transfer(s) THEN TransfersIn(n) \cup {n + 1} ELSE TransfersIn(n)
    BY GrownHistory
  <2>4. checker.expected # Unlimited => completed <= checker.expected
    BY <1>4, <2>1 DEF Conforms, FramedThrough
  <2>5. \A i \in TransfersIn(n) : i # n + 1 /\ seen'[i] = seen[i]
    BY <1>2 DEF TransfersIn
  <2>6. Batches((n + 1) - 1)' = Batches(n)
    BY PrefixKept, (n + 1) - 1 = n
  <2>7. checker.kind = "mid_lane" =>
          ((\A i \in T : seen'[i].payload.flag = 1)
             <=> (Transfer(s) => s.payload.flag = 1))
    BY <1>3, <1>4, <2>3, <2>5 DEF Conforms, FramedThrough
  <2>8. Framed /\ checker.expected # Unlimited =>
          ((\A i \in T : Cardinality(Batches(i - 1)') < checker.expected)
             <=> (Transfer(s) => completed < checker.expected))
    <3>1. ASSUME Framed, checker.expected # Unlimited, NEW i \in TransfersIn(n)
          PROVE  Cardinality(Batches(i - 1)') < checker.expected
      <4>1. i - 1 \in 0 .. n
        BY DEF TransfersIn
      <4>2. Batches(i - 1)' = Batches(i - 1)
        BY <4>1, PrefixKept
      <4>3. Cardinality(Batches(i - 1)) < checker.expected
        BY <1>4, <3>1 DEF Conforms, FramedThrough, Framed
      <4> QED
        BY <4>2, <4>3
    <3>2. Cardinality(Batches((n + 1) - 1)') = completed
      BY <2>1, <2>6
    <3> QED
      BY <2>3, <3>1, <3>2
  <2>9. FramedThrough(n + 1)' <=>
          /\ checker.expected # Unlimited => Cardinality(B) <= checker.expected
          /\ checker.expected # Unlimited /\ Framed =>
               \A i \in T : Cardinality(Batches(i - 1)') < checker.expected
          /\ checker.kind = "mid_lane" => \A i \in T : seen'[i].payload.flag = 1
    BY <1>1 DEF FramedThrough, Framed
  <2>10. checker.expected # Unlimited =>
           (Cardinality(B) <= checker.expected <=> (ok => completed < checker.expected))
    BY <2>2, <2>4, CheckerFacts
  <2>11. Framed => ~Status /\ checker.kind # "mid_lane"
    BY DEF Framed, Status
  <2>12. checker.kind = "mid_lane" => Status
    BY DEF Status
  <2> HIDE DEF B, T, ok
  <2> QED
    BY <2>7, <2>8, <2>9, <2>10, <2>11, <2>12 DEF KeepsFrame, EndsBatch, ok
<1> QED
  BY <1>4, <1>5, <1>6, <1>7 DEF Conforms

-----------------------------------------------------------------------------
\* The checker's verdict on one sample.

\* What a step of Observe with this sample does.
ObserveSample(s) ==
  /\ seen' = Append(seen, s)
  /\ IF HandshakeRule(s) # "none"
     THEN violation' = HandshakeRule(s) /\ UNCHANGED <<transfers, held, completed>>
     ELSE /\ held' = HeldAfter(s)
          /\ transfers' = IF Transfer(s) THEN transfers + 1 ELSE transfers
          /\ violation' = IF Transfer(s) THEN TransferRule(s) ELSE "none"
          /\ completed' = IF Transfer(s) /\ Completes(s) THEN completed + 1 ELSE completed
  /\ UNCHANGED <<checker, outcome>>

\* The rules that have a name are rules.
LEMMA RuleNames ==
  ASSUME NEW s
  PROVE  /\ HandshakeRule(s) \in Rules \cup {"none"}
         /\ TransferRule(s) \in Rules \cup {"none"}
         /\ "none" \notin Rules /\ "inside" \notin Rules /\ "ok" \notin Rules /\ "body" \notin Rules
BY DEF HandshakeRule, TransferRule, Rules

\* The checks of observe, in whatever order they come, amount to the three
\* conditions on the sample.
LEMMA Verdict ==
  ASSUME IInv, violation = "none", NEW s \in Sample, ObserveSample(s)
  PROVE  violation' = "none" <=> BinarySample(s) /\ KeepsHeld(s) /\ KeepsFrame(s)
<1> USE DEF IInv, TypeOK
<1>1. HandshakeRule(s) = "none" <=> Binary(s.valid) /\ Binary(s.ready) /\ KeepsHeld(s)
  BY DEF HandshakeRule, KeepsHeld, SamePayload, Binary
<1>2. TransferRule(s) = "none" <=>
        /\ Framed \/ Status => Binary(s.payload.flag)
        /\ (Framed \/ Status) /\ checker.expected # Unlimited => completed < checker.expected
        /\ checker.kind = "mid_lane" => s.payload.flag = 1
  <2>1. AllBatchesDone <=> ~(checker.expected # Unlimited => completed < checker.expected)
    BY CheckerFacts DEF AllBatchesDone
  <2> QED
    BY <2>1 DEF TransferRule, Framed, Status, Binary
<1>3. violation' = "none" <=>
        HandshakeRule(s) = "none" /\ (Transfer(s) => TransferRule(s) = "none")
  BY DEF ObserveSample
<1> QED
  BY <1>1, <1>2, <1>3 DEF BinarySample, KeepsFrame

\* A transfer that breaks no rule is counted as a batch exactly if it ends one.
LEMMA CompletesRight ==
  ASSUME IInv, NEW s, TransferRule(s) = "none"
  PROVE  Completes(s) <=> EndsBatch(s)
BY DEF Completes, EndsBatch, Framed, Status

-----------------------------------------------------------------------------
\* The steps.

\* The invariant holds of a monitor that has just been made.
LEMMA IInvInit == Init => IInv
<1> SUFFICES ASSUME Init PROVE IInv
  OBVIOUS
<1> USE DEF Init
<1>1. seen \in Seq(Sample) /\ Len(seen) = 0
  BY EmptySeq
<1>2. TypeOK
  BY <1>1, RuleNames DEF TypeOK
<1>3. Remembers
  BY <1>1, EmptyHistory, FS_EmptySet DEF Remembers
<1>4. AccusesTheGuilty
  BY <1>1, EmptyHistory DEF AccusesTheGuilty
<1>5. LeftAsJudged
  BY RuleNames DEF LeftAsJudged
<1> QED
  BY <1>2, <1>3, <1>4, <1>5 DEF IInv

\* One sample: what is remembered and the verdict follow the longer history.
LEMMA ObserveStep == IInv /\ Observe => IInv'
<1> SUFFICES ASSUME IInv, Observe PROVE IInv'
  OBVIOUS
<1>1. PICK s \in Sample : ObserveSample(s)
  BY DEF Observe, ObserveSample
<1>2. violation = "none" /\ outcome = "inside" /\ outcome' = "inside"
  BY DEF Observe
<1>3. Sampled(s)
  BY <1>1 DEF ObserveSample, Sampled
<1>4. seen \in Seq(Sample) /\ checker \in Checkers
  BY DEF IInv, TypeOK
<1>5. PICK n \in Nat : n = Len(seen)
  BY <1>4, LenProperties
<1>6. seen' \in Seq(Sample) /\ Len(seen') = n + 1 /\ seen'[n + 1] = s
  BY <1>3, <1>4, <1>5, SampledHistory
<1>7. TypeOK'
  <2>1. s.payload \in Payload
    BY DEF Sample
  <2>2. held' \in Payload \cup {NoPayload}
    BY <1>1, <2>1 DEF ObserveSample, HeldAfter, IInv, TypeOK
  <2>3. transfers' \in Nat /\ completed' \in Nat
    BY <1>1 DEF ObserveSample, IInv, TypeOK
  <2>4. violation' \in Rules \cup {"none"}
    BY <1>1, RuleNames DEF ObserveSample
  <2> QED
    BY <1>2, <1>3, <1>4, <1>6, <2>2, <2>3, <2>4 DEF TypeOK, Sampled
<1>8. Remembers'
  <2> SUFFICES ASSUME violation' = "none" PROVE Remembers'
    BY DEF Remembers
  <2>1. HandshakeRule(s) = "none" /\ (Transfer(s) => TransferRule(s) = "none")
    BY <1>1 DEF ObserveSample
  <2>2. /\ transfers = Cardinality(TransfersIn(n)) /\ completed = Cardinality(Batches(n))
    BY <1>2, <1>5 DEF IInv, Remembers
  <2>3. /\ Cardinality(TransfersIn(n + 1)') = transfers + (IF Transfer(s) THEN 1 ELSE 0)
        /\ Cardinality(Batches(n + 1)') =
             completed + (IF Transfer(s) /\ EndsBatch(s) THEN 1 ELSE 0)
    BY <1>3, <1>4, <1>5, <2>2, GrownCounts
  <2>4. transfers \in Nat /\ completed \in Nat
    BY DEF IInv, TypeOK
  <2>5. transfers' = Cardinality(TransfersIn(n + 1)')
    BY <1>1, <2>1, <2>3, <2>4 DEF ObserveSample
  <2>6. completed' = Cardinality(Batches(n + 1)')
    BY <1>1, <2>1, <2>3, <2>4, CompletesRight DEF ObserveSample
  <2>7. held' = IF Stalled(n + 1)' THEN seen'[n + 1].payload ELSE NoPayload
    BY <1>1, <1>6, <2>1 DEF ObserveSample, HeldAfter, Stalled
  <2>8. seen' # << >>
    BY <1>6, EmptySeq
  <2>9. /\ TransfersIn(Len(seen))' = TransfersIn(n + 1)'
        /\ Batches(Len(seen))' = Batches(n + 1)'
        /\ Stalled(Len(seen))' <=> Stalled(n + 1)'
    BY <1>6 DEF TransfersIn, Batches, Stalled, Transfer, Status
  <2> QED
    BY <1>6, <2>5, <2>6, <2>7, <2>8, <2>9 DEF Remembers
<1>9. AccusesTheGuilty'
  <2>1. /\ Conforms(n)'
        /\ Conforms(n + 1)' <=> BinarySample(s) /\ KeepsHeld(s) /\ KeepsFrame(s)
    BY <1>2, <1>3, <1>5, GrownContract
  <2>2. violation' = "none" <=> Conforms(n + 1)'
    BY <1>1, <1>2, <2>1, Verdict
  <2>3. (Len(seen) = n + 1)' /\ (Len(seen) - 1 = n)'
    BY <1>6
  <2>4. (Conforms(Len(seen))' <=> Conforms(n + 1)') /\ (Conforms(Len(seen) - 1)' <=> Conforms(n)')
    BY <2>3
  <2> QED
    BY <2>1, <2>2, <2>4 DEF AccusesTheGuilty
<1>10. LeftAsJudged'
  BY <1>2, RuleNames DEF LeftAsJudged
<1> QED
  BY <1>7, <1>8, <1>9, <1>10 DEF IInv

\* A reset forgets the history together with what the checker held of it.
LEMMA ResetStep == IInv /\ Reset => IInv'
<1> SUFFICES ASSUME IInv, Reset PROVE IInv'
  OBVIOUS
<1> USE DEF Reset, ClearedHeld
<1>1. (checker \in Checkers)'
  BY DEF IInv, TypeOK
<1>2. seen' = << >> /\ Len(seen') = 0 /\ seen' \in Seq(Sample)
  BY EmptySeq
<1>3. TypeOK'
  BY <1>1, <1>2 DEF IInv, TypeOK
<1>4. (TransfersIn(0) = {} /\ Batches(0) = {} /\ Conforms(0))'
  BY <1>1, EmptyHistory, PTL
<1>5. Remembers'
  BY <1>2, <1>4, FS_EmptySet DEF Remembers
<1>6. AccusesTheGuilty'
  BY <1>2, <1>4 DEF AccusesTheGuilty
<1>7. LeftAsJudged'
  BY RuleNames DEF LeftAsJudged
<1> QED
  BY <1>3, <1>5, <1>6, <1>7 DEF IInv

\* Leaving the monitor judges the history it has.
LEMMA LeaveStep == IInv /\ Leave => IInv'
<1> SUFFICES ASSUME IInv, Leave PROVE IInv'
  OBVIOUS
<1>1. UNCHANGED <<checker, transfers, held, completed, violation, seen>>
  BY DEF Leave
<1>2. FinishRule' = FinishRule
  BY <1>1 DEF FinishRule, CountsAtEnd
<1>3. FinishRule \in Rules \cup {"none"}
  BY DEF FinishRule, Rules
<1>4. \/ outcome' = "body"
      \/ outcome' = "ok" /\ violation = "none" /\ FinishRule = "none"
      \/ outcome' = violation /\ violation # "none"
      \/ outcome' = FinishRule /\ FinishRule # "none"
  BY DEF Leave
<1>5. TypeOK'
  BY <1>1, <1>3, <1>4 DEF IInv, TypeOK
<1>6. LeftAsJudged'
  BY <1>1, <1>2, <1>3, <1>4, RuleNames DEF LeftAsJudged, IInv, TypeOK
<1>7. Remembers' /\ AccusesTheGuilty'
  BY <1>1, SameHistory DEF IInv, Remembers, AccusesTheGuilty
<1> QED
  BY <1>5, <1>6, <1>7 DEF IInv

\* A step that changes nothing keeps the invariant.
LEMMA StutterStep == IInv /\ UNCHANGED vars => IInv'
<1> SUFFICES ASSUME IInv, UNCHANGED vars PROVE IInv'
  OBVIOUS
<1> USE DEF vars
<1>1. TypeOK'
  BY DEF IInv, TypeOK
<1>2. LeftAsJudged'
  BY DEF IInv, LeftAsJudged, FinishRule, CountsAtEnd
<1>3. Remembers' /\ AccusesTheGuilty'
  BY SameHistory DEF IInv, Remembers, AccusesTheGuilty
<1> QED
  BY <1>1, <1>2, <1>3 DEF IInv

-----------------------------------------------------------------------------
\* The theorems.

\* The checker's memory agrees with the history, its verdict with the contract,
\* and how the block was left with both.
THEOREM MonitorCorrect == Spec => []IInv
<1>1. Init => IInv
  BY IInvInit
<1>2. IInv /\ [Next]_vars => IInv'
  <2> SUFFICES ASSUME IInv, [Next]_vars PROVE IInv'
    OBVIOUS
  <2>1. CASE Observe
    BY <2>1, ObserveStep
  <2>2. CASE Reset
    BY <2>2, ResetStep
  <2>3. CASE Leave
    BY <2>3, LeaveStep
  <2>4. CASE UNCHANGED vars
    BY <2>4, StutterStep
  <2> QED
    BY <2>1, <2>2, <2>3, <2>4 DEF Next, Left
<1> QED
  BY <1>1, <1>2, PTL DEF Spec

\* The counts are numbers, the held payload a payload or none, the verdict and
\* the outcome among those that have a name.
THEOREM TypeCorrect == Spec => []TypeOK
<1>1. IInv => TypeOK
  BY DEF IInv
<1> QED
  BY <1>1, MonitorCorrect, PTL

\* A checker that remembers one payload and two counts accuses an interface of
\* breaking the contract exactly when the samples since the last reset break it,
\* and at the first sample that does.
THEOREM VerdictsAreRight == Spec => []AccusesTheGuilty
<1>1. IInv => AccusesTheGuilty
  BY DEF IInv
<1> QED
  BY <1>1, MonitorCorrect, PTL

\* Every transfer and every batch since the last reset is counted, once.
THEOREM CountsAreRight == Spec => []CountsTransfers
<1>1. IInv => CountsTransfers
  BY DEF IInv, Remembers, CountsTransfers
<1> QED
  BY <1>1, MonitorCorrect, PTL

\* A block is left quietly only if the contract was kept and the number of
\* batches asked for was seen.
THEOREM QuietExitsAreRight == Spec => []CleanExit
<1>1. IInv => CleanExit
  BY DEF IInv, LeftAsJudged, Remembers, AccusesTheGuilty, FinishRule, CountsAtEnd, CleanExit
<1> QED
  BY <1>1, MonitorCorrect, PTL

\* A block that kept the contract and saw the batches it asked for is not
\* accused when it is left.
THEOREM NobodyIsFramed == Spec => []NoFalseAlarm
<1>1. IInv => NoFalseAlarm
  BY DEF IInv, LeftAsJudged, Remembers, AccusesTheGuilty, FinishRule, CountsAtEnd, NoFalseAlarm
<1> QED
  BY <1>1, MonitorCorrect, PTL
=============================================================================
