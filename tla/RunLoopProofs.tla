--------------------------- MODULE RunLoopProofs ---------------------------
(***************************************************************************)
(* Proofs about RunLoop for every set of designs, every expression         *)
(* language (Exec) and every length of a run, under the assumptions of     *)
(* Netlist: a design's blocks are total on valuations and write no signal  *)
(* but those the compiler attributes to them.                              *)
(*                                                                         *)
(* The second half is about selective settling, for designs whose          *)
(* components are as ComponentsAssumption has them: a tick that fires      *)
(* leaves no component disagreeing with what it reads that agreed when the *)
(* tick began, so that, as long as ticks in which nothing fires leave the  *)
(* components alone, every traced valuation is settled.                    *)
(***************************************************************************)
EXTENDS RunLoopRTL, LoopProofs, FiniteSetTheorems

-----------------------------------------------------------------------------
\* What the assumptions say of the design being run.

\* Its lists have lengths, its domains, components and blocks are as Netlist has them.
LEMMA DesignFacts ==
  ASSUME design \in Designs
  PROVE  /\ Len(Domains) \in Nat \ {0} /\ Len(Comps) \in Nat /\ Ticks \in Nat
         /\ InitVal \in Valuation
         /\ \A i \in Dom : DomainOK(Domains[i])
         /\ \A c \in 1 .. Len(Comps) : ComponentOK(Comps[c])
         /\ BlockTotal(design.initial)
BY DesignAssumption DEF DesignOK, Domains, Comps, Ticks, InitVal, Dom

\* A domain: its clock is a signal and its half period a positive number.
LEMMA DomainFacts ==
  ASSUME design \in Designs, NEW i \in Dom
  PROVE  /\ Domains[i].clk \in Signal
         /\ Domains[i].hpt \in Nat \ {0}
         /\ Domains[i].edge \in {"pos", "neg", "both"}
         /\ Domains[i].written \subseteq Signal
BY DesignFacts DEF DomainOK

\* A reset and a block, run on a valuation, leave a valuation.
LEMMA ResetValuation ==
  ASSUME NEW init \in Valuation, NEW S \in Valuation, NEW d
  PROVE  ApplyReset(d, init, S) \in Valuation
BY DEF ApplyReset, Valuation

\* Every block of the design yields an outcome.
LEMMA BlockOutcome ==
  ASSUME design \in Designs, NEW S \in Valuation
  PROVE  /\ Exec(design.initial, S) \in Outcome
         /\ \A i \in Dom : Exec(Domains[i].block, S) \in Outcome
         /\ \A c \in 1 .. Len(Comps) : Exec(Comps[c].block, S) \in Outcome
BY DesignFacts DEF DomainOK, ComponentOK, BlockTotal

-----------------------------------------------------------------------------
\* Types.

\* The state run() starts from.
LEMMA TypeInit == Init => TypeOK
<1> SUFFICES ASSUME Init PROVE TypeOK
  OBVIOUS
<1>1. design \in Designs /\ sig \in Valuation
  BY DesignAssumption DEF Init, DesignOK
<1>2. 0 \in 0 .. Ticks
  BY <1>1, DesignFacts
<1>3. fired \in BOOLEAN /\ finished \in BOOLEAN
  BY DEF Init
<1> QED
  BY <1>1, <1>2, <1>3 DEF Init, TypeOK

\* Every step of the walk.
LEMMA TypeStep == TypeOK /\ [Next]_vars => TypeOK'
<1> SUFFICES ASSUME TypeOK, [Next]_vars PROVE TypeOK'
  OBVIOUS
<1> USE DEF TypeOK, Goto, PartLength
<1>1. design' = design
  BY DEF Next, RunInitial, Seed, StartTick, ToggleClock, AsyncReset, RunDomain,
         SkipDomain, SettleComponent, NextPart, Record, EndRun, Ended, vars
<1>2. /\ Domains' = Domains /\ Comps' = Comps /\ Ticks' = Ticks /\ Dom' = Dom
  BY <1>1 DEF Domains, Comps, Ticks, Dom
<1>3. Len(Domains) \in Nat \ {0} /\ Len(Comps) \in Nat /\ Ticks \in Nat
  BY DesignFacts
<1> USE <1>1, <1>2, <1>3
<1> DEFINE Flags == fired \in BOOLEAN /\ finished \in BOOLEAN
<1>3a. Flags'
  BY Zenon DEF Next, RunInitial, Seed, StartTick, ToggleClock, AsyncReset, RunDomain,
         SkipDomain, SettleComponent, NextPart, Record, EndRun, Ended, vars
<1> USE <1>3a
<1>4. CASE RunInitial
  <2>1. Exec(design.initial, sig) \in Outcome
    BY BlockOutcome
  <2> QED
    BY <1>4, <2>1 DEF RunInitial, Outcome
<1>5. CASE Seed
  <2>1. Exec(Comps[k].block, sig) \in Outcome
    BY <1>5, BlockOutcome DEF Seed
  <2> QED
    BY <1>5, <2>1 DEF Seed, Outcome
<1>6. CASE StartTick
  BY <1>6 DEF StartTick
<1>7. CASE ToggleClock
  <2>1. Domains[k].clk \in Signal
    BY <1>7, DomainFacts DEF ToggleClock
  <2>2. clock' \in [Dom -> {0, 1}]
    BY <1>7 DEF ToggleClock, NextLevel
  <2>3. sig' \in Valuation
    <3>1. NextLevel(clock[k]) \in Value
      BY <1>7, ValueAssumption DEF ToggleClock, NextLevel
    <3> QED
      BY <1>7, <2>1, <3>1 DEF ToggleClock, Valuation
  <2>4. moved' \subseteq Signal /\ due' \subseteq Dom
    BY <1>7, <2>1 DEF ToggleClock
  <2> QED
    BY <1>7, <2>2, <2>3, <2>4 DEF ToggleClock, Dom
<1>8. CASE AsyncReset
  <2>1. sig' \in Valuation
    BY <1>8, ResetValuation, DesignFacts DEF AsyncReset
  <2>2. moved' \subseteq Signal /\ due' \subseteq Dom
    BY <1>8 DEF AsyncReset, NoteChanges, CancelFiring, Differing
  <2> QED
    BY <1>8, <2>1, <2>2 DEF AsyncReset, Dom
<1>9. CASE RunDomain
  <2>1. /\ ApplyReset(Domains[k], InitVal, sig) \in Valuation
        /\ Exec(Domains[k].block, sig) \in Outcome
    BY <1>9, ResetValuation, BlockOutcome, DesignFacts DEF RunDomain
  <2>2. sig' \in Valuation
    BY <1>9, <2>1 DEF RunDomain, Outcome
  <2>3. moved' \subseteq Signal
    BY <1>9 DEF RunDomain, NoteChanges, Differing
  <2> QED
    BY <1>9, <2>2, <2>3 DEF RunDomain, Dom
<1>10. CASE SkipDomain
  BY <1>10 DEF SkipDomain, Dom
<1>11. CASE SettleComponent
  <2>1. Exec(Comps[k].block, sig) \in Outcome
    BY <1>11, BlockOutcome DEF SettleComponent
  <2>2. sig' \in Valuation
    BY <1>11, <2>1 DEF SettleComponent, Outcome
  <2> QED
    BY <1>11, <2>2 DEF SettleComponent
<1>12. CASE NextPart
  BY <1>12 DEF NextPart
<1>13. CASE Record
  BY <1>13 DEF Record, AfterRecord
<1>14. CASE EndRun
  BY <1>14 DEF EndRun
<1>15. CASE Ended \/ UNCHANGED vars
  BY <1>15 DEF Ended, vars
<1> QED
  BY <1>4, <1>5, <1>6, <1>7, <1>8, <1>9, <1>10, <1>11, <1>12, <1>13, <1>14,
     <1>15 DEF Next

\* TypeOK of RunLoop: the walk stays within the domains and components, and no
\* clock holds anything but a level.
THEOREM TypeCorrect == Spec => []TypeOK
BY TypeInit, TypeStep, PTL DEF Spec

-----------------------------------------------------------------------------
\* Clock levels.

\* Quotient and remainder are the only way to write t as a multiple of h and
\* something smaller than h.
LEMMA QuotientUnique ==
  ASSUME NEW h \in Nat \ {0}, NEW q \in Int, NEW r \in 0 .. h - 1,
         NEW p \in Int, NEW s \in 0 .. h - 1, q * h + r = p * h + s
  PROVE  q = p /\ r = s
<1>1. (q - p) * h = s - r
  OBVIOUS
<1>2. q - p < 1
  <2>1. SUFFICES ASSUME q - p >= 1 PROVE FALSE
    OBVIOUS
  <2>2. (q - p) * h >= h
    BY <2>1
  <2> QED
    BY <1>1, <2>2
<1>3. p - q < 1
  <2>1. SUFFICES ASSUME p - q >= 1 PROVE FALSE
    OBVIOUS
  <2>2. (p - q) * h >= h
    BY <2>1
  <2>3. (p - q) * h = r - s
    BY <1>1
  <2> QED
    BY <2>2, <2>3
<1> QED
  BY <1>2, <1>3, <1>1

\* The division of t - 1 by h from that of t.
LEMMA PreviousQuotient ==
  ASSUME NEW h \in Nat \ {0}, NEW t \in Nat \ {0}
  PROVE  (t - 1) \div h = IF t % h = 0 THEN (t \div h) - 1 ELSE t \div h
<1> DEFINE q == t \div h
           r == t % h
           p == (t - 1) \div h
           s == (t - 1) % h
<1>1. q \in Int /\ r \in 0 .. h - 1 /\ t = q * h + r
  OBVIOUS
<1>2. p \in Int /\ s \in 0 .. h - 1 /\ t - 1 = p * h + s
  OBVIOUS
<1> HIDE DEF q, r, p, s
<1>3. CASE r = 0
  <2>1. t - 1 = (q - 1) * h + (h - 1)
    BY <1>1, <1>3
  <2> QED
    BY <1>1, <1>2, <1>3, <2>1, QuotientUnique DEF q, r, p
<1>4. CASE r # 0
  <2>1. t - 1 = q * h + (r - 1) /\ r - 1 \in 0 .. h - 1
    BY <1>1, <1>4
  <2> QED
    BY <1>1, <1>2, <1>4, <2>1, QuotientUnique DEF q, r, p
<1> QED
  BY <1>3, <1>4

\* The level flips in the ticks a half period ends in, and in no other.
LEMMA LevelStep ==
  ASSUME NEW h \in Nat \ {0}, NEW t \in Nat \ {0}
  PROVE  /\ LevelAfter(t, h) \in {0, 1}
         /\ LevelAfter(t - 1, h) \in {0, 1}
         /\ LevelAfter(t, h) = IF t % h = 0 THEN NextLevel(LevelAfter(t - 1, h))
                                            ELSE LevelAfter(t - 1, h)
<1>1. t \div h \in Int /\ (t - 1) \div h \in Int
  OBVIOUS
<1> QED
  BY <1>1, PreviousQuotient DEF LevelAfter, NextLevel

-----------------------------------------------------------------------------
\* Clocks and edges.

\* While clocks toggle, exactly the domains already passed whose edge it is are
\* due.
DueSoFar ==
  pc = "toggle" => \A i \in Dom : i \in due <=> i < k /\ EdgeAt(i, tc)

Timing ==
  /\ MidTick => tc # 0
  /\ ClockWaveform /\ DueSoFar /\ DueAtEdge

\* Every clock is low before the first tick.
LEMMA TimingInit == Init => Timing
<1> SUFFICES ASSUME Init PROVE Timing
  OBVIOUS
<1>1. design \in Designs
  BY DEF Init
<1>2. \A h \in Nat \ {0} : LevelAfter(0, h) = 0
  BY DEF LevelAfter
<1>3. ClockWaveform
  BY <1>1, <1>2, DomainFacts DEF Init, ClockWaveform
<1> QED
  BY <1>3 DEF Init, Timing, MidTick, DueSoFar, DueAtEdge

\* The steps that toggle no clock and start no tick, but for the end of a part,
\* leave the clocks and make no domain due.
LEMMA TimingElsewhere ==
  ASSUME TypeOK, Timing,
         \/ RunInitial \/ Seed \/ AsyncReset \/ RunDomain \/ SkipDomain
         \/ SettleComponent \/ Record \/ EndRun \/ Ended \/ UNCHANGED vars
  PROVE  Timing'
<1>1. /\ UNCHANGED <<design, tc, clock>>
      /\ pc = "toggle" => UNCHANGED <<pc, k, due>>
      /\ pc' = "toggle" => pc = "toggle"
      /\ pc' \in {"async", "seq"} => pc \in {"async", "seq"}
      /\ MidTick' => MidTick
  BY DEF RunInitial, Seed, AsyncReset, RunDomain, SkipDomain, SettleComponent,
         Record, AfterRecord, EndRun, Ended, vars, Goto, MidTick
<1>2. /\ pc' \in {"async", "seq"} => due' \subseteq due
      /\ pc' \in {"async", "seq"} =>
           \A i \in Dom : i \in due /\ i \notin due' => Domains[i].style = "async"
  BY DEF RunInitial, Seed, AsyncReset, RunDomain, SkipDomain, SettleComponent,
         Record, AfterRecord, EndRun, Ended, vars, Goto, CancelFiring
<1>3. /\ Domains' = Domains /\ Dom' = Dom
      /\ \A i \in Dom : EdgeAt(i, tc)' = EdgeAt(i, tc)
  BY <1>1 DEF Domains, Dom, EdgeAt
<1>4. ClockWaveform'
  BY <1>1, <1>3 DEF Timing, ClockWaveform
<1>5. DueSoFar'
  BY <1>1, <1>3 DEF Timing, DueSoFar
<1>6. DueAtEdge'
  BY <1>1, <1>2, <1>3 DEF Timing, DueAtEdge
<1> QED
  BY <1>1, <1>4, <1>5, <1>6 DEF Timing

\* A tick that starts has toggled nothing yet.
LEMMA TimingStart ==
  ASSUME TypeOK, Timing, StartTick
  PROVE  Timing'
<1>1. /\ design' = design /\ clock' = clock /\ pc = "tick" /\ pc' = "toggle"
      /\ k' = 1 /\ tc' = tc + 1 /\ due' = {}
  BY DEF StartTick, Goto
<1>2. Domains' = Domains /\ Dom' = Dom /\ tc \in Nat /\ tc + 1 - 1 = tc
  BY <1>1, DesignFacts DEF Domains, Dom, TypeOK
<1>3. \A i \in Dom : i >= 1 /\ ~(i < 1)
  BY DEF Dom
<1>4. ClockWaveform'
  BY <1>1, <1>2, <1>3 DEF Timing, ClockWaveform
<1>5. DueSoFar' /\ DueAtEdge'
  BY <1>1, <1>2, <1>3 DEF DueSoFar, DueAtEdge
<1> QED
  BY <1>1, <1>2, <1>4, <1>5 DEF Timing

\* The domain that toggles flips the level of the tick before, and is due when
\* that makes its edge.
LEMMA TimingToggle ==
  ASSUME TypeOK, Timing, ToggleClock
  PROVE  Timing'
<1>1. /\ design' = design /\ tc' = tc /\ pc = "toggle" /\ pc' = "toggle"
      /\ k \in Dom /\ k' = k + 1 /\ k \in Nat
  BY DEF ToggleClock, TypeOK
<1>2. Domains' = Domains /\ Dom' = Dom
  BY <1>1 DEF Domains, Dom
<1>3. tc \in Nat \ {0}
  BY <1>1, DesignFacts DEF Timing, MidTick, TypeOK
<1>4. Domains[k].hpt \in Nat \ {0} /\ Domains[k].edge \in {"pos", "neg", "both"}
  BY <1>1, DomainFacts DEF TypeOK
<1>5. clock[k] = LevelAfter(tc - 1, Domains[k].hpt)
  BY <1>1 DEF Timing, ClockWaveform
<1>6. LevelAfter(tc, Domains[k].hpt) =
        IF HalfPeriodEnds(Domains[k]) THEN NextLevel(clock[k]) ELSE clock[k]
  BY <1>3, <1>4, <1>5, LevelStep DEF HalfPeriodEnds
<1>7. clock' = [clock EXCEPT ![k] = LevelAfter(tc, Domains[k].hpt)]
  BY <1>1, <1>6 DEF ToggleClock, TypeOK
<1>8. \A i \in Dom : /\ i # k => (i >= k + 1 <=> i >= k) /\ (i < k + 1 <=> i < k)
                     /\ i = k => ~(i >= k + 1) /\ i < k + 1
  BY <1>1 DEF Dom
<1>9. ClockWaveform'
  BY <1>1, <1>2, <1>7, <1>8 DEF Timing, ClockWaveform, TypeOK
<1>10. EdgeAt(k, tc) <=>
         HalfPeriodEnds(Domains[k]) /\ EdgeFires(Domains[k].edge, NextLevel(clock[k]))
  BY <1>4, <1>6 DEF EdgeAt, HalfPeriodEnds, EdgeFires
<1>11. due' = IF EdgeAt(k, tc) THEN due \cup {k} ELSE due
  BY <1>10 DEF ToggleClock
<1>12. DueSoFar'
  <2>1. \A i \in Dom : EdgeAt(i, tc)' = EdgeAt(i, tc)
    BY <1>1, <1>2 DEF EdgeAt
  <2>2. k \notin due
    BY <1>1 DEF Timing, DueSoFar
  <2>3. \A i \in Dom : i \in due <=> i < k /\ EdgeAt(i, tc)
    BY <1>1 DEF Timing, DueSoFar
  <2> QED
    BY <1>1, <1>2, <1>8, <1>11, <2>1, <2>2, <2>3 DEF DueSoFar
<1> QED
  BY <1>1, <1>3, <1>9, <1>12 DEF Timing, DueAtEdge

\* When all clocks have toggled, the domains due are those with an edge.
LEMMA TimingNextPart ==
  ASSUME TypeOK, Timing, NextPart
  PROVE  Timing'
<1>1. /\ UNCHANGED <<design, tc, clock, due>> /\ pc' # "toggle"
      /\ MidTick' => MidTick
      /\ pc = "toggle" => k > Len(Domains)
      /\ pc' = "async" => pc = "toggle"
      /\ pc' = "seq" => pc = "async"
  BY DEF NextPart, Goto, MidTick
<1>2. /\ Domains' = Domains /\ Dom' = Dom
      /\ \A i \in Dom : EdgeAt(i, tc)' = EdgeAt(i, tc)
  BY <1>1 DEF Domains, Dom, EdgeAt
<1>3. pc = "toggle" => \A i \in Dom : i < k /\ ~(i >= k)
  BY <1>1, DesignFacts DEF Dom, TypeOK
<1>4. ClockWaveform'
  BY <1>1, <1>2, <1>3 DEF Timing, ClockWaveform
<1>5. DueSoFar' /\ DueAtEdge'
  BY <1>1, <1>2, <1>3 DEF Timing, DueSoFar, DueAtEdge
<1> QED
  BY <1>1, <1>4, <1>5 DEF Timing

\* Every step of the walk.
LEMMA TimingStep == TypeOK /\ Timing /\ [Next]_vars => Timing'
BY TimingElsewhere, TimingStart, TimingToggle, TimingNextPart DEF Next

\* The timing of the walk: every clock's level and the domains due so far follow
\* from the tick count alone, in every state of a run.
THEOREM TimingCorrect == Spec => []Timing
BY TypeCorrect, TimingInit, TimingStep, PTL DEF Spec

\* ClockWaveform of RunLoop: in every state each clock has the level that the
\* tick count and its half period ask for, for periods that share no multiple
\* in the run as well.
THEOREM ClocksFollowTime == Spec => []ClockWaveform
<1>1. Timing => ClockWaveform
  BY DEF Timing
<1> QED
  BY <1>1, TimingCorrect, PTL

\* DueAtEdge of RunLoop: no sequential block runs away from its edge, and only
\* an asynchronous reset makes a domain miss one.
THEOREM BlocksRunAtEdges == Spec => []DueAtEdge
<1>1. Timing => DueAtEdge
  BY DEF Timing
<1> QED
  BY <1>1, TimingCorrect, PTL

-----------------------------------------------------------------------------
\* Asynchronous reset.

\* Domain i is one whose asynchronous reset is decided when the tick begins, and
\* was active then.
HeldFromStart(i) ==
  LET d == Domains[i]
  IN  /\ d.style = "async"
      /\ d.rst \notin Clocks
      /\ \A j \in Dom : Domains[j].style = "async" => d.rst \notin Domains[j].written
      /\ ResetActive(d, snap)

RegistersReset(i) == \A s \in Domains[i].written : OwnedBy(s, i) => sig[s] = InitVal[s]

\* Until the resets are over the line keeps its value; once the domain has been
\* reset it is not due, and its registers stay.
ResetHeld ==
  \A i \in Dom : HeldFromStart(i) =>
    /\ pc \in {"toggle", "async"} => sig[Domains[i].rst] = snap[Domains[i].rst]
    /\ pc = "async" /\ k > i => i \notin due /\ RegistersReset(i)
    /\ pc = "seq" => i \notin due /\ RegistersReset(i)
    /\ pc \in {"settle", "record"} => RegistersReset(i)

\* A step that writes no signal owned by i, and no line, keeps its registers.
LEMMA OwnedElsewhere ==
  ASSUME TypeOK, NEW i \in Dom, NEW s, OwnedBy(s, i)
  PROVE  /\ s \in Signal
         /\ \A j \in Dom \ {i} : \A S \in Valuation :
              /\ Exec(Domains[j].block, S).sig[s] = S[s]
              /\ ApplyReset(Domains[j], InitVal, S)[s] = S[s]
         /\ \A c \in 1 .. Len(Comps) : \A S \in Valuation :
              Exec(Comps[c].block, S).sig[s] = S[s]
<1>1. s \in Signal
  BY DomainFacts DEF OwnedBy, TypeOK
<1>2. \A j \in Dom \ {i} : s \notin Domains[j].written /\ WritesOnly(Domains[j].block, Domains[j].written)
  BY DesignFacts DEF OwnedBy, TypeOK, DomainOK
<1>3. \A c \in 1 .. Len(Comps) : s \notin Comps[c].writes /\ WritesOnly(Comps[c].block, Comps[c].writes)
  BY DesignFacts DEF OwnedBy, TypeOK, ComponentOK
<1> QED
  BY <1>1, <1>2, <1>3 DEF WritesOnly, ApplyReset

\* No walk is under way.
LEMMA ResetInit == Init => ResetHeld
BY DEF Init, ResetHeld

\* In the walk, the parts before the reset and those without one.
LEMMA ResetElsewhere ==
  ASSUME TypeOK, ResetHeld,
         \/ RunInitial \/ Seed \/ StartTick \/ SkipDomain \/ Record \/ EndRun
         \/ NextPart \/ Ended \/ UNCHANGED vars
  PROVE  ResetHeld'
<1> USE DEF Goto
<1>1. design' = design
  BY DEF RunInitial, Seed, StartTick, SkipDomain, Record, EndRun, NextPart, Ended, vars
<1>2. /\ Domains' = Domains /\ Dom' = Dom /\ InitVal' = InitVal /\ Clocks' = Clocks
      /\ \A i \in Dom : \A s : OwnedBy(s, i)' = OwnedBy(s, i)
  BY <1>1 DEF Domains, Dom, InitVal, Clocks, Comps, OwnedBy
<1>3. CASE StartTick
  <2>1. pc' = "toggle" /\ sig' = snap'
    BY <1>3 DEF StartTick
  <2> QED
    BY <2>1, <1>2 DEF ResetHeld
<1>4. CASE RunInitial \/ Seed \/ Record \/ EndRun
  <2>1. pc' \notin {"toggle", "async", "seq", "settle", "record"}
    BY <1>4 DEF RunInitial, Seed, Record, AfterRecord, EndRun, TypeOK
  <2> QED
    BY <2>1 DEF ResetHeld
<1>5. CASE NextPart
  <2>1. /\ UNCHANGED <<sig, snap, due>> /\ k' = 1
        /\ pc' = "async" => pc = "toggle"
        /\ pc' = "seq" => pc = "async" /\ k > Len(Domains)
        /\ pc' = "settle" => pc = "seq"
        /\ pc' = "record" => pc = "settle"
        /\ pc' # "toggle"
    BY <1>5 DEF NextPart
  <2>2. \A i \in Dom : HeldFromStart(i)' = HeldFromStart(i) /\ RegistersReset(i)' = RegistersReset(i)
    BY <1>2, <2>1 DEF HeldFromStart, RegistersReset, ResetActive
  <2>3. \A i \in Dom : ~(1 > i) /\ (k > Len(Domains) => k > i)
    BY DesignFacts DEF Dom, TypeOK
  <2> QED
    BY <1>2, <2>1, <2>2, <2>3 DEF ResetHeld
<1>6. CASE SkipDomain \/ Ended \/ UNCHANGED vars
  <2>1. UNCHANGED <<sig, snap, due, pc>> /\ (pc # "seq" => k' = k)
    BY <1>6 DEF SkipDomain, Ended, vars
  <2>2. \A i \in Dom : HeldFromStart(i)' = HeldFromStart(i) /\ RegistersReset(i)' = RegistersReset(i)
    BY <1>2, <2>1 DEF HeldFromStart, RegistersReset, ResetActive
  <2> QED
    BY <1>2, <2>1, <2>2 DEF ResetHeld
<1> QED
  BY <1>3, <1>4, <1>5, <1>6

\* Toggling moves clocks, and the line is none.
LEMMA ResetToggle ==
  ASSUME TypeOK, ResetHeld, ToggleClock
  PROVE  ResetHeld'
<1>1. /\ design' = design /\ snap' = snap /\ pc = "toggle" /\ pc' = "toggle" /\ k \in Dom
      /\ \/ sig' = sig
         \/ sig' = [sig EXCEPT ![Domains[k].clk] = NextLevel(clock[k])]
  BY DEF ToggleClock
<1>2. /\ Domains' = Domains /\ Dom' = Dom
      /\ \A i \in Dom : HeldFromStart(i)' = HeldFromStart(i)
  BY <1>1 DEF Domains, Dom, Clocks, HeldFromStart, ResetActive
<1>3. \A i \in Dom : /\ Domains[i].rst \in Signal
                     /\ HeldFromStart(i) => Domains[i].rst # Domains[k].clk
  BY <1>1, DesignFacts DEF HeldFromStart, Clocks, DomainOK, TypeOK
<1>4. \A i \in Dom : HeldFromStart(i) => sig'[Domains[i].rst] = sig[Domains[i].rst]
  BY <1>1, <1>3 DEF TypeOK, Valuation
<1> QED
  BY <1>1, <1>2, <1>4 DEF ResetHeld

\* The domain is reset in its turn; the resets of the others leave its line alone.
LEMMA ResetReset ==
  ASSUME TypeOK, ResetHeld, AsyncReset
  PROVE  ResetHeld'
<1>1. /\ design' = design /\ snap' = snap /\ pc = "async" /\ pc' = "async" /\ k \in Dom
      /\ k' = k + 1 /\ due' \subseteq due
      /\ \/ sig' = sig /\ ~(Domains[k].style = "async" /\ ResetActive(Domains[k], sig))
         \/ /\ Domains[k].style = "async" /\ k \notin due'
            /\ sig' = ApplyReset(Domains[k], InitVal, sig)
  BY DEF AsyncReset, CancelFiring
<1>2. /\ Domains' = Domains /\ Dom' = Dom /\ InitVal' = InitVal
      /\ \A i \in Dom : HeldFromStart(i)' = HeldFromStart(i)
      /\ \A i \in Dom : \A s : OwnedBy(s, i)' = OwnedBy(s, i)
  BY <1>1 DEF Domains, Dom, InitVal, Clocks, Comps, HeldFromStart, ResetActive, OwnedBy
<1> SUFFICES ASSUME NEW i \in Dom, HeldFromStart(i)
             PROVE  /\ sig'[Domains[i].rst] = snap[Domains[i].rst]
                    /\ k + 1 > i => i \notin due' /\ RegistersReset(i)'
  BY <1>1, <1>2 DEF ResetHeld
<1>3. sig[Domains[i].rst] = snap[Domains[i].rst] /\ Domains[i].rst \in Signal
  BY <1>1, DesignFacts DEF ResetHeld, DomainOK, TypeOK
<1>4. sig'[Domains[i].rst] = snap[Domains[i].rst]
  BY <1>1, <1>3 DEF HeldFromStart, ApplyReset
<1>5. CASE i = k
  <2>1. Domains[k].style = "async" /\ ResetActive(Domains[k], sig)
    BY <1>3, <1>5 DEF HeldFromStart, ResetActive
  <2>2. k \notin due' /\ sig' = ApplyReset(Domains[k], InitVal, sig)
    BY <1>1, <2>1
  <2>3. \A s \in Domains[k].written : sig'[s] = InitVal[s]
    BY <1>1, <2>2, DomainFacts DEF ApplyReset, TypeOK
  <2> QED
    BY <1>2, <1>4, <1>5, <2>2, <2>3 DEF RegistersReset
<1>6. CASE i # k
  <2>1. SUFFICES ASSUME k + 1 > i PROVE i \notin due' /\ RegistersReset(i)'
    BY <1>4
  <2>2. k > i
    BY <1>6, <2>1 DEF Dom, TypeOK
  <2>3. i \notin due /\ RegistersReset(i)
    BY <1>1, <2>2 DEF ResetHeld
  <2>4. \A s \in Domains[i].written : OwnedBy(s, i) => sig'[s] = sig[s]
    BY <1>1, <1>6, OwnedElsewhere DEF TypeOK
  <2> QED
    BY <1>1, <1>2, <2>3, <2>4 DEF RegistersReset
<1> QED
  BY <1>5, <1>6

\* The blocks of other domains and the components leave owned registers alone.
LEMMA ResetBlocks ==
  ASSUME TypeOK, ResetHeld, RunDomain \/ SettleComponent
  PROVE  ResetHeld'
<1>1. /\ design' = design /\ snap' = snap /\ due' = due
      /\ pc \in {"seq", "settle"} /\ pc' \in {pc, "record", "raised"}
      /\ pc = "seq" => k \in due
  BY DEF RunDomain, SettleComponent, Goto
<1>2. /\ Domains' = Domains /\ Dom' = Dom /\ InitVal' = InitVal
      /\ \A i \in Dom : HeldFromStart(i)' = HeldFromStart(i)
      /\ \A i \in Dom : \A s : OwnedBy(s, i)' = OwnedBy(s, i)
  BY <1>1 DEF Domains, Dom, InitVal, Clocks, Comps, HeldFromStart, ResetActive, OwnedBy
<1>3. \/ sig' = sig
      \/ pc = "seq" /\ k \in Dom /\ sig' \in {ApplyReset(Domains[k], InitVal, sig), Exec(Domains[k].block, sig).sig}
      \/ \E c \in 1 .. Len(Comps) : sig' = Exec(Comps[c].block, sig).sig
  BY DEF RunDomain, SettleComponent, TypeOK
<1> SUFFICES ASSUME NEW i \in Dom, HeldFromStart(i)
             PROVE  (pc = "seq" => i \notin due) /\ RegistersReset(i)'
  BY <1>1, <1>2 DEF ResetHeld
<1>4. (pc = "seq" => i \notin due) /\ RegistersReset(i)
  BY <1>1 DEF ResetHeld
<1>5. \A s \in Domains[i].written : OwnedBy(s, i) => sig'[s] = sig[s]
  BY <1>1, <1>3, <1>4, OwnedElsewhere DEF TypeOK
<1> QED
  BY <1>2, <1>4, <1>5 DEF RegistersReset

\* Every step of the walk.
LEMMA ResetStep == TypeOK /\ ResetHeld /\ [Next]_vars => ResetHeld'
BY ResetElsewhere, ResetToggle, ResetReset, ResetBlocks DEF Next

\* AsyncResetHolds of RunLoop: a domain whose asynchronous reset is active when
\* the tick begins runs no block in it, and its own registers leave the tick
\* with their init values, whatever the other domains and components do.
THEOREM ResetHolds == Spec => []AsyncResetHolds
<1>1. ResetHeld => AsyncResetHolds
  BY DEF ResetHeld, AsyncResetHolds, HeldFromStart, RegistersReset
<1> QED
  BY <1>1, TypeCorrect, ResetInit, ResetStep, PTL DEF Spec

-----------------------------------------------------------------------------
\* $finish and the traces.

\* Once $finish has been raised only the trace of its tick is left to be made,
\* and the domain that raised it has fired.
Finishing ==
  finished => \/ pc = "record" /\ fired
              \/ pc = "done" /\ out = sig

\* Nothing is finished at first.
LEMMA FinishingInit == Init => Finishing
BY DEF Init, Finishing

\* Every step of the walk.
LEMMA FinishingStep == Finishing /\ [Next]_vars => Finishing'
<1> SUFFICES ASSUME Finishing, [Next]_vars PROVE Finishing'
  OBVIOUS
<1> USE DEF Goto
<1>1. CASE finished
  BY <1>1 DEF Finishing, Next, RunInitial, Seed, StartTick, ToggleClock, AsyncReset,
         RunDomain, SkipDomain, SettleComponent, NextPart, Record, Traced, AfterRecord,
         EndRun, Ended, vars
<1>2. CASE ~finished
  <2> SUFFICES ASSUME finished' PROVE pc' = "record" /\ fired'
    BY DEF Finishing
  <2>1. RunDomain \/ SettleComponent
    BY <1>2 DEF Next, RunInitial, Seed, StartTick, ToggleClock, AsyncReset,
           SkipDomain, NextPart, Record, EndRun, Ended, vars
  <2>2. CASE RunDomain
    BY <1>2, <2>2, Zenon DEF RunDomain
  <2>3. CASE SettleComponent
    BY <1>2, <2>3, Zenon DEF SettleComponent
  <2> QED
    BY <2>1, <2>2, <2>3
<1> QED
  BY <1>1, <1>2

\* FinishIsLast of RunLoop: after $finish no tick starts and no signal moves, and
\* the run ends with the signals as they were as the last entry of its traces.
THEOREM FinishEndsTheRun == Spec => FinishIsLast
<1>1. Finishing /\ [Next]_vars =>
        [finished => tc' = tc /\ sig' = sig /\ (pc' = "done" => out' = sig)]_vars
  BY DEF Finishing, Next, RunInitial, Seed, StartTick, ToggleClock, AsyncReset,
         RunDomain, SkipDomain, SettleComponent, NextPart, Record, Traced, EndRun,
         Ended, vars, Goto
<1> QED
  BY <1>1, FinishingInit, FinishingStep, PTL DEF Spec, FinishIsLast

-----------------------------------------------------------------------------
\* One entry of the traces for every tick with an edge.

EdgeIn(t)    == \E i \in Dom : EdgeAt(i, t)
EdgeTicks(n) == { t \in 1 .. n : EdgeIn(t) }
NoAsync      == \A i \in Dom : Domains[i].style # "async"

\* The ticks whose traces have been made.
TicksTraced == IF MidTick THEN tc - 1 ELSE tc

\* A tick has fired once one of its due domains has been passed; the entries
\* number the traced ticks with an edge.
Entries ==
  /\ pc \in {"init", "seed"} => count = 0 /\ tc = 0
  /\ pc \in {"toggle", "async"} => ~fired
  /\ pc = "seq" => (fired <=> \E i \in due : i < k)
  /\ pc \in {"settle", "record"} =>
       (fired => EdgeIn(tc)) /\ (NoAsync /\ EdgeIn(tc) => fired)
  /\ pc = "tick" \/ MidTick =>
       /\ count <= Cardinality(EdgeTicks(TicksTraced))
       /\ NoAsync => count = Cardinality(EdgeTicks(TicksTraced))

\* The ticks with an edge, counted one tick further.
LEMMA EdgeTicksCount ==
  /\ Cardinality(EdgeTicks(0)) = 0
  /\ \A n \in Nat :
       /\ IsFiniteSet(EdgeTicks(n)) /\ Cardinality(EdgeTicks(n)) \in Nat
       /\ Cardinality(EdgeTicks(n + 1)) =
            IF EdgeIn(n + 1) THEN Cardinality(EdgeTicks(n)) + 1
                             ELSE Cardinality(EdgeTicks(n))
<1>1. EdgeTicks(0) = {}
  BY DEF EdgeTicks
<1>2. ASSUME NEW n \in Nat
      PROVE  /\ IsFiniteSet(EdgeTicks(n)) /\ Cardinality(EdgeTicks(n)) \in Nat
             /\ Cardinality(EdgeTicks(n + 1)) =
                  IF EdgeIn(n + 1) THEN Cardinality(EdgeTicks(n)) + 1
                                   ELSE Cardinality(EdgeTicks(n))
  <2>1. IsFiniteSet(1 .. n)
    BY FS_Interval
  <2>2. IsFiniteSet(EdgeTicks(n))
    BY <2>1, FS_Subset DEF EdgeTicks
  <2>3. EdgeTicks(n + 1) = IF EdgeIn(n + 1) THEN EdgeTicks(n) \cup {n + 1} ELSE EdgeTicks(n)
    BY DEF EdgeTicks
  <2>4. n + 1 \notin EdgeTicks(n)
    BY DEF EdgeTicks
  <2> QED
    BY <2>2, <2>3, <2>4, FS_AddElement, FS_CardinalityType
<1> QED
  BY <1>1, <1>2, FS_EmptySet

\* No tick, no entry.
LEMMA EntriesInit == Init => Entries
BY DEF Init, Entries, MidTick

\* What a step keeps when it leaves the design and the tick count.
LEMMA EdgesKept ==
  ASSUME design' = design, tc' = tc
  PROVE  /\ Dom' = Dom /\ NoAsync' = NoAsync
         /\ EdgeIn(tc)' = EdgeIn(tc)
         /\ \A n : EdgeTicks(n)' = EdgeTicks(n)
BY DEF Dom, Domains, NoAsync, EdgeIn, EdgeTicks, EdgeAt

\* The steps outside the ticks.
LEMMA EntriesBefore ==
  ASSUME TypeOK, Timing, Entries,
         RunInitial \/ Seed \/ StartTick \/ EndRun \/ Ended \/ UNCHANGED vars
  PROVE  Entries'
<1> USE DEF Goto
<1>1. CASE RunInitial \/ Seed \/ EndRun
  <2>1. /\ pc' \in {"seed", "done", "raised"}
        /\ pc' = "seed" => UNCHANGED <<count, tc>> /\ pc \in {"init", "seed"}
    BY <1>1 DEF RunInitial, Seed, EndRun
  <2> QED
    BY <2>1 DEF Entries, MidTick
<1>2. CASE StartTick
  <2>1. /\ pc = "tick" /\ pc' = "toggle" /\ tc' = tc + 1 /\ ~fired'
        /\ count' = count /\ design' = design /\ tc \in Nat
    BY <1>2, DesignFacts DEF StartTick, TypeOK
  <2>2. TicksTraced = tc /\ TicksTraced' = tc
    BY <2>1 DEF TicksTraced, MidTick
  <2>3. EdgeTicks(tc)' = { t \in 1 .. tc' : EdgeIn(t)' }
    BY DEF EdgeTicks
  <2>4. NoAsync' = NoAsync /\ EdgeTicks(TicksTraced)' = EdgeTicks(tc)
    BY <2>1, <2>2 DEF NoAsync, EdgeTicks, EdgeIn, EdgeAt, Dom, Domains
  <2> QED
    BY <2>1, <2>2, <2>4 DEF Entries, MidTick
<1>3. CASE Ended \/ UNCHANGED vars
  <2>1. UNCHANGED vars
    BY <1>3 DEF Ended
  <2> QED
    BY <2>1, EdgesKept DEF Entries, MidTick, TicksTraced, vars
<1> QED
  BY <1>1, <1>2, <1>3

\* Within a tick only what has fired so far changes.
LEMMA EntriesWithin ==
  ASSUME TypeOK, Timing, Entries,
         \/ ToggleClock \/ AsyncReset \/ RunDomain \/ SkipDomain \/ SettleComponent
         \/ NextPart
  PROVE  Entries'
<1> USE DEF Goto
<1>1. UNCHANGED <<design, tc, count>>
  BY DEF ToggleClock, AsyncReset, RunDomain, SkipDomain, SettleComponent, NextPart
<1>2. CASE ToggleClock \/ AsyncReset
  <2>1. /\ UNCHANGED fired
        /\ pc' = pc /\ pc \in {"toggle", "async"}
    BY <1>2 DEF ToggleClock, AsyncReset
  <2> QED
    BY <1>1, <2>1, EdgesKept DEF Entries, MidTick, TicksTraced
<1>3. CASE SkipDomain
  <2>1. pc' = pc /\ pc = "seq" /\ k \notin due /\ k' = k + 1 /\ due' = due /\ fired' = fired
    BY <1>3 DEF SkipDomain
  <2>2. \A i \in due : i < k + 1 <=> i < k
    BY <2>1 DEF TypeOK, Dom
  <2> QED
    BY <1>1, <2>1, <2>2, EdgesKept DEF Entries, MidTick, TicksTraced
<1>4. CASE RunDomain
  <2>1. /\ pc = "seq" /\ k \in due /\ due' = due /\ fired'
        /\ \/ pc' = "seq" /\ k' = k + 1
           \/ pc' \in {"record", "raised"}
    BY <1>4, Zenon DEF RunDomain
  <2>2. EdgeIn(tc)
    <3>1. k \in Dom /\ EdgeAt(k, tc)
      BY <2>1 DEF Timing, DueAtEdge, TypeOK
    <3> QED
      BY <3>1 DEF EdgeIn
  <2>3. k < k + 1
    BY DEF TypeOK
  <2> QED
    BY <1>1, <2>1, <2>2, <2>3, EdgesKept DEF Entries, MidTick, TicksTraced
<1>5. CASE SettleComponent
  <2>1. pc = "settle" /\ pc' \in {"settle", "record", "raised"} /\ UNCHANGED fired
    BY <1>5 DEF SettleComponent
  <2> QED
    BY <1>1, <2>1, EdgesKept DEF Entries, MidTick, TicksTraced
<1>6. CASE NextPart
  <2>1. UNCHANGED <<fired, due>> /\ k' = 1
    BY <1>6 DEF NextPart
  <2>2. CASE pc = "seed"
    <3>1. pc' = "tick"
      BY <1>6, <2>2 DEF NextPart
    <3>2. EdgeTicks(TicksTraced)' = {}
      BY <1>1, <2>2, <3>1 DEF Entries, TicksTraced, MidTick, EdgeTicks
    <3> QED
      BY <1>1, <2>2, <3>1, <3>2, FS_EmptySet DEF Entries
  <2>3. CASE pc = "toggle"
    <3>1. pc' = "async"
      BY <1>6, <2>3 DEF NextPart
    <3> QED
      BY <1>1, <2>1, <2>3, <3>1, EdgesKept DEF Entries, MidTick, TicksTraced
  <2>4. CASE pc = "async"
    <3>1. pc' = "seq" /\ \A i \in due : ~(i < 1)
      BY <1>6, <2>4 DEF NextPart, TypeOK, Dom
    <3> QED
      BY <1>1, <2>1, <2>4, <3>1, EdgesKept DEF Entries, MidTick, TicksTraced
  <2>5. CASE pc = "seq"
    <3>1. pc' = "settle" /\ \A i \in due : i < k
      BY <1>6, <2>5, DesignFacts DEF NextPart, TypeOK, Dom
    <3>2. /\ fired <=> \E i \in due : i < k
          /\ \A i \in due : i \in Dom /\ EdgeAt(i, tc)
          /\ NoAsync => \A i \in Dom : EdgeAt(i, tc) => i \in due
      BY <2>5 DEF Entries, Timing, DueAtEdge, NoAsync, TypeOK
    <3>3. (fired => EdgeIn(tc)) /\ (NoAsync /\ EdgeIn(tc) => fired)
      BY <3>1, <3>2 DEF EdgeIn
    <3> QED
      BY <1>1, <2>1, <2>5, <3>1, <3>3, EdgesKept DEF Entries, MidTick, TicksTraced
  <2>6. CASE pc = "settle"
    <3>1. pc' = "record"
      BY <1>6, <2>6 DEF NextPart
    <3> QED
      BY <1>1, <2>1, <2>6, <3>1, EdgesKept DEF Entries, MidTick, TicksTraced
  <2> QED
    BY <1>6, <2>2, <2>3, <2>4, <2>5, <2>6 DEF NextPart
<1> QED
  BY <1>2, <1>3, <1>4, <1>5, <1>6

\* The trace of a tick is its entry.
LEMMA EntriesRecord ==
  ASSUME TypeOK, Timing, Entries, Record
  PROVE  Entries'
<1>1. /\ UNCHANGED <<design, tc>> /\ pc = "record" /\ pc' \in {"tick", "done"}
      /\ count' = IF fired THEN count + 1 ELSE count
  BY DEF Record, Traced, AfterRecord, Goto
<1>2. tc - 1 \in Nat /\ (tc - 1) + 1 = tc
  BY <1>1, DesignFacts DEF Timing, MidTick, TypeOK
<1>3. TicksTraced = tc - 1 /\ (pc' = "tick" => TicksTraced' = tc)
  BY <1>1 DEF TicksTraced, MidTick
<1>4. Cardinality(EdgeTicks(tc)) =
        IF EdgeIn(tc) THEN Cardinality(EdgeTicks(tc - 1)) + 1
                      ELSE Cardinality(EdgeTicks(tc - 1))
  BY <1>2, EdgeTicksCount
<1>5. /\ count <= Cardinality(EdgeTicks(tc - 1)) /\ count \in Nat
      /\ Cardinality(EdgeTicks(tc - 1)) \in Nat
      /\ NoAsync => count = Cardinality(EdgeTicks(tc - 1))
      /\ (fired => EdgeIn(tc)) /\ (NoAsync /\ EdgeIn(tc) => fired)
  BY <1>1, <1>2, <1>3, EdgeTicksCount DEF Entries, MidTick, TypeOK
<1>6. /\ count' <= Cardinality(EdgeTicks(tc))
      /\ NoAsync => count' = Cardinality(EdgeTicks(tc))
  BY <1>1, <1>4, <1>5
<1> QED
  BY <1>1, <1>3, <1>6, EdgesKept DEF Entries, MidTick

\* Every step of the walk.
LEMMA EntriesStep == TypeOK /\ Timing /\ Entries /\ [Next]_vars => Entries'
BY EntriesBefore, EntriesWithin, EntriesRecord DEF Next

\* OneEntryPerEdge of RunLoop: between ticks the traces have no more entries than
\* there were ticks with an edge of some domain, and exactly as many when no
\* domain is reset asynchronously.
THEOREM TracesFollowEdges == Spec => []OneEntryPerEdge
<1>1. Entries => OneEntryPerEdge
  BY DEF Entries, OneEntryPerEdge, TicksTraced, MidTick, EdgeTicks, EdgeIn, NoAsync
<1> QED
  BY <1>1, TypeCorrect, TimingCorrect, EntriesInit, EntriesStep, PTL DEF Spec

-----------------------------------------------------------------------------
\* Components and what they agree with.

Comp == 1 .. Len(Comps)

Fresh(c, S) == Agrees(Comps[c].block, S)

\* Two valuations that a component cannot tell apart.
Alike(c, S, T) ==
  \A s \in Signal : s \in Comps[c].signals \/ s \notin Movable(design) => S[s] = T[s]

\* What the assumption says of the components of the design being run.
LEMMA ComponentFacts ==
  ASSUME design \in Designs, NEW c \in Comp
  PROVE  /\ ComponentOK(Comps[c]) /\ OnePass(Comps[c]) /\ ReadsOnlyItsOwn(design, Comps[c])
         /\ Comps[c].signals = {} => \A S \in Valuation : Fresh(c, S)
         /\ \A b \in Comp \ {c} : Comps[b].writes \cap Comps[c].signals = {}
BY ComponentsAssumption, DesignFacts DEF Comp, Comps, Fresh, ComponentsOK

\* A component that cannot tell two valuations apart agrees with both or none.
LEMMA AgreesAlike ==
  ASSUME design \in Designs, NEW c \in Comp, NEW S \in Valuation, NEW T \in Valuation,
         Alike(c, S, T), Fresh(c, S)
  PROVE  Fresh(c, T)
<1> DEFINE Own(V) == [s \in Signal |-> IF s \in Movable(design) \ Comps[c].signals
                                       THEN design.init[s] ELSE V[s]]
<1>1. Own(S) = Own(T)
  BY DEF Alike
<1>2. \A V \in Valuation : Agrees(Comps[c].block, V) <=> Agrees(Comps[c].block, Own(V))
  BY ComponentFacts DEF ReadsOnlyItsOwn
<1> HIDE DEF Own
<1> QED
  BY <1>1, <1>2 DEF Fresh

\* What clocks, domains and components write is movable.
LEMMA MovableFacts ==
  ASSUME design \in Designs
  PROVE  /\ \A i \in Dom : Domains[i].clk \in Movable(design)
                           /\ Domains[i].written \subseteq Movable(design)
         /\ \A c \in Comp : Comps[c].writes \subseteq Movable(design)
         /\ SeqWritten \cup Clocks \subseteq Movable(design)
<1> DEFINE Outputs == { design.comps[c].writes : c \in 1 .. Len(design.comps) }
<1>1. Movable(design) = Clocks \cup SeqWritten \cup (UNION Outputs)
  BY DEF Movable, Clocks, SeqWritten, Dom, Domains
<1>2. \A i \in Dom : Domains[i].clk \in Clocks /\ Domains[i].written \subseteq SeqWritten
  BY DEF Clocks, SeqWritten
<1>3. \A c \in Comp : Comps[c].writes \in Outputs
  BY DEF Comp, Comps
<1> HIDE DEF Outputs
<1>4. \A c \in Comp : Comps[c].writes \subseteq UNION Outputs
  BY <1>3
<1> QED
  BY <1>1, <1>2, <1>4

\* The block of a component leaves everything else as it was, and so every
\* other component that agrees.
LEMMA ComponentRuns ==
  ASSUME design \in Designs, NEW c \in Comp, NEW S \in Valuation
  PROVE  LET r == Exec(Comps[c].block, S)
         IN  /\ r \in Outcome
             /\ \A s \in Signal \ Comps[c].writes : r.sig[s] = S[s]
             /\ r.exit = "ok" => Fresh(c, r.sig)
             /\ \A b \in Comp \ {c} : Fresh(b, S) => Fresh(b, r.sig)
<1> DEFINE r == Exec(Comps[c].block, S)
<1>1. ComponentOK(Comps[c]) /\ OnePass(Comps[c])
  BY ComponentFacts
<1>2. r \in Outcome /\ \A s \in Signal \ Comps[c].writes : r.sig[s] = S[s]
  BY <1>1 DEF ComponentOK, BlockTotal, WritesOnly
<1>3. r.exit = "ok" => Fresh(c, r.sig)
  BY <1>1 DEF OnePass, Fresh
<1> HIDE DEF r
<1>4. r.sig \in Valuation
  BY <1>2 DEF Outcome
<1>5. ASSUME NEW b \in Comp \ {c}, Fresh(b, S)
      PROVE  Fresh(b, r.sig)
  <2>1. Comps[c].writes \cap Comps[b].signals = {}
    BY ComponentFacts
  <2>2. Alike(b, S, r.sig)
    BY <1>2, <2>1, MovableFacts DEF Alike
  <2> QED
    BY <1>4, <1>5, <2>2, AgreesAlike
<1> QED
  BY <1>2, <1>3, <1>5 DEF r

-----------------------------------------------------------------------------
\* What a tick moves, it notes.

NotedBefore(S) == \A s \in Signal : S[s] # snap[s] => s \in moved

\* Until the components settle every signal that moved is noted; a component
\* that has been passed agrees if it did when the tick began.
Selective ==
  /\ MidTick => /\ moved \subseteq SeqWritten \cup Clocks
                /\ \A s \in Signal \ Movable(design) : sig[s] = snap[s]
  /\ pc \in {"toggle", "async", "seq"} => NotedBefore(sig)
  /\ pc = "settle" =>
       /\ \A s \in Signal : sig[s] # snap[s] =>
            s \in moved \/ \E c \in Comp : c < k /\ s \in Comps[c].writes
       /\ ~fired => NotedBefore(sig)
       /\ fired => \A c \in Comp : c < k /\ Fresh(c, snap) => Fresh(c, sig)
  /\ pc = "record" /\ ~fired => NotedBefore(sig)
  /\ pc = "record" /\ fired /\ ~finished => \A c \in Comp : Fresh(c, snap) => Fresh(c, sig)

\* Before the first tick nothing is claimed.
LEMMA SelectiveInit == Init => Selective
BY DEF Init, Selective, MidTick

\* Before and after the ticks nothing is claimed.
LEMMA SelectiveOutside ==
  ASSUME TypeOK, Selective, RunInitial \/ Seed \/ StartTick \/ Record \/ EndRun \/ Ended
  PROVE  Selective'
<1>1. CASE RunInitial \/ Seed \/ Record \/ EndRun
  <2>1. pc' \in {"seed", "tick", "done", "raised"}
    BY <1>1 DEF RunInitial, Seed, Record, AfterRecord, EndRun, Goto
  <2> QED
    BY <2>1 DEF Selective, MidTick
<1>2. CASE StartTick
  <2>1. pc' = "toggle" /\ sig' = snap' /\ moved' = {}
    BY <1>2 DEF StartTick, Goto
  <2> QED
    BY <2>1 DEF Selective, MidTick, NotedBefore
<1>3. CASE Ended
  BY <1>3 DEF Ended, Selective, MidTick, vars
<1> QED
  BY <1>1, <1>2, <1>3

\* A step that writes only a domain's registers and notes what of them is not as
\* it was.
LEMMA NotedStep ==
  ASSUME TypeOK, Selective, NEW i \in Dom, pc \in {"async", "seq"}, sig' \in Valuation,
         \A s \in Signal \ Domains[i].written : sig'[s] = sig[s],
         NoteChanges(Domains[i]), UNCHANGED <<design, snap>>
  PROVE  /\ moved' \subseteq SeqWritten \cup Clocks
         /\ \A s \in Signal : sig'[s] # snap'[s] => s \in moved'
         /\ \A s \in Signal \ Movable(design) : sig'[s] = snap'[s]
<1>1. moved' = moved \cup (Domains[i].written \cap { s \in Signal : sig'[s] # snap[s] })
  BY DEF NoteChanges, Differing
<1>2. /\ moved \subseteq SeqWritten \cup Clocks /\ NotedBefore(sig)
      /\ \A s \in Signal \ Movable(design) : sig[s] = snap[s]
  BY DEF Selective, MidTick
<1>3. Domains[i].written \subseteq SeqWritten /\ Domains[i].written \subseteq Movable(design)
  BY MovableFacts DEF SeqWritten, TypeOK
<1> QED
  BY <1>1, <1>2, <1>3 DEF NotedBefore

\* A toggled clock is noted.
LEMMA SelectiveToggle ==
  ASSUME TypeOK, Selective, ToggleClock
  PROVE  Selective'
<1>1. /\ pc = "toggle" /\ pc' = "toggle" /\ UNCHANGED <<design, snap>> /\ k \in Dom
      /\ \/ UNCHANGED <<sig, moved>>
         \/ /\ \A s \in Signal \ {Domains[k].clk} : sig'[s] = sig[s]
            /\ moved' = moved \cup {Domains[k].clk}
  BY DEF ToggleClock, TypeOK, Valuation
<1>2. Domains[k].clk \in Clocks /\ Domains[k].clk \in Movable(design)
  BY <1>1, MovableFacts DEF Clocks, TypeOK
<1>3. /\ moved \subseteq SeqWritten \cup Clocks /\ NotedBefore(sig)
      /\ \A s \in Signal \ Movable(design) : sig[s] = snap[s]
  BY <1>1 DEF Selective, MidTick
<1>4. (SeqWritten \cup Clocks)' = SeqWritten \cup Clocks /\ Movable(design)' = Movable(design)
  BY <1>1 DEF SeqWritten, Clocks, Domains, Dom
<1>5. /\ moved' \subseteq SeqWritten \cup Clocks
      /\ \A s \in Signal : sig'[s] # snap'[s] => s \in moved'
      /\ \A s \in Signal \ Movable(design) : sig'[s] = snap'[s]
  BY <1>1, <1>2, <1>3 DEF NotedBefore
<1> QED
  BY <1>1, <1>4, <1>5 DEF Selective, MidTick, NotedBefore

\* What a reset or a block leaves.
LEMMA DomainRuns ==
  ASSUME TypeOK, NEW i \in Dom
  PROVE  /\ \A s \in Signal \ Domains[i].written : ApplyReset(Domains[i], InitVal, sig)[s] = sig[s]
         /\ \A s \in Signal \ Domains[i].written : Exec(Domains[i].block, sig).sig[s] = sig[s]
         /\ ApplyReset(Domains[i], InitVal, sig) \in Valuation
         /\ Exec(Domains[i].block, sig) \in Outcome
<1>1. DomainOK(Domains[i]) /\ InitVal \in Valuation /\ sig \in Valuation
  BY DesignFacts DEF TypeOK
<1> QED
  BY <1>1, ResetValuation DEF DomainOK, WritesOnly, BlockTotal, ApplyReset

\* Resets and blocks write registers of their domain and note what moved.
LEMMA SelectiveDomains ==
  ASSUME TypeOK, Selective, AsyncReset \/ RunDomain \/ SkipDomain
  PROVE  Selective'
<1>1. UNCHANGED <<design, snap>> /\ pc \in {"async", "seq"}
  BY DEF AsyncReset, RunDomain, SkipDomain
<1>2. (SeqWritten \cup Clocks)' = SeqWritten \cup Clocks /\ Movable(design)' = Movable(design)
  BY <1>1 DEF SeqWritten, Clocks, Domains, Dom
<1>3. /\ moved \subseteq SeqWritten \cup Clocks /\ NotedBefore(sig)
      /\ \A s \in Signal \ Movable(design) : sig[s] = snap[s]
  BY <1>1 DEF Selective, MidTick
<1>4. ASSUME UNCHANGED <<sig, moved>>, pc' \in {"async", "seq"}
      PROVE  Selective'
  BY <1>1, <1>2, <1>3, <1>4 DEF Selective, MidTick, NotedBefore
<1>5. ASSUME NEW i \in Dom, sig' \in Valuation, pc' \in {"async", "seq"},
             \A s \in Signal \ Domains[i].written : sig'[s] = sig[s], NoteChanges(Domains[i])
      PROVE  Selective'
  BY <1>1, <1>2, <1>5, NotedStep DEF Selective, MidTick, NotedBefore
<1>6. CASE AsyncReset
  <2>1. pc' = "async" /\ k \in Dom
    BY <1>6 DEF AsyncReset
  <2>2. CASE Domains[k].style = "async" /\ ResetActive(Domains[k], sig)
    <3>1. sig' = ApplyReset(Domains[k], InitVal, sig) /\ NoteChanges(Domains[k])
      BY <1>6, <2>2 DEF AsyncReset
    <3> QED
      BY <1>5, <2>1, <3>1, DomainRuns
  <2>3. CASE ~(Domains[k].style = "async" /\ ResetActive(Domains[k], sig))
    BY <1>4, <1>6, <2>1, <2>3 DEF AsyncReset
  <2> QED
    BY <2>2, <2>3
<1>7. CASE RunDomain
  <2>1. k \in Dom /\ fired'
    BY <1>7 DEF RunDomain, TypeOK
  <2>2. sig' \in Valuation /\ \A s \in Signal \ Domains[k].written : sig'[s] = sig[s]
    BY <1>7, <2>1, DomainRuns DEF RunDomain, Outcome
  <2>3. \/ pc' = "seq" /\ NoteChanges(Domains[k])
        \/ pc' = "record" /\ finished' /\ moved' = moved
        \/ pc' = "raised"
    BY <1>7, Zenon DEF RunDomain, Goto
  <2>4. CASE pc' = "seq" /\ NoteChanges(Domains[k])
    BY <1>5, <2>1, <2>2, <2>4
  <2>5. CASE pc' = "record" /\ finished' /\ moved' = moved
    <3>1. \A s \in Signal \ Movable(design) : sig'[s] = snap[s]
      BY <1>3, <2>1, <2>2, MovableFacts DEF TypeOK
    <3> QED
      BY <1>1, <1>2, <1>3, <2>1, <2>5, <3>1 DEF Selective, MidTick
  <2>6. CASE pc' = "raised"
    BY <2>6 DEF Selective, MidTick
  <2> QED
    BY <2>3, <2>4, <2>5, <2>6
<1>8. CASE SkipDomain
  BY <1>4, <1>8 DEF SkipDomain
<1> QED
  BY <1>6, <1>7, <1>8

\* A component that is passed without running cannot tell that the tick began
\* with other signals.
LEMMA PassedUnmoved ==
  ASSUME TypeOK, Selective, pc = "settle", NEW c \in Comp, c = k,
         Moving(Comps[c]) \cap moved = {}
  PROVE  Alike(c, snap, sig)
<1>1. /\ moved \subseteq SeqWritten \cup Clocks
      /\ \A s \in Signal \ Movable(design) : sig[s] = snap[s]
      /\ \A s \in Signal : sig[s] # snap[s] =>
           s \in moved \/ \E b \in Comp : b < k /\ s \in Comps[b].writes
  BY DEF Selective, MidTick
<1>2. Comps[c].signals \cap moved = {}
  BY <1>1 DEF Moving
<1>3. \A b \in Comp : b < k => Comps[b].writes \cap Comps[c].signals = {}
  <2>1. \A b \in Comp \ {c} : Comps[b].writes \cap Comps[c].signals = {}
    BY ComponentFacts DEF TypeOK
  <2>2. \A b \in Comp : b < k => b # c
    BY DEF TypeOK, Comp
  <2> QED
    BY <2>1, <2>2
<1> QED
  BY <1>1, <1>2, <1>3 DEF Alike

\* A component that runs agrees afterwards and disturbs no other; one that is
\* passed agreed already.
LEMMA SelectiveSettle ==
  ASSUME TypeOK, Selective, SettleComponent
  PROVE  Selective'
<1>1. /\ UNCHANGED <<design, snap, moved, fired>> /\ pc = "settle" /\ k \in Comp
      /\ \A c \in Comp : c < k + 1 <=> c < k \/ c = k
  BY DEF SettleComponent, TypeOK, Comp
<1>2. /\ (SeqWritten \cup Clocks)' = SeqWritten \cup Clocks /\ Movable(design)' = Movable(design)
      /\ Comp' = Comp /\ Comps' = Comps
  BY <1>1 DEF SeqWritten, Clocks, Domains, Dom, Comp, Comps
<1>3. /\ moved \subseteq SeqWritten \cup Clocks
      /\ \A s \in Signal \ Movable(design) : sig[s] = snap[s]
      /\ \A s \in Signal : sig[s] # snap[s] =>
           s \in moved \/ \E c \in Comp : c < k /\ s \in Comps[c].writes
      /\ ~fired => NotedBefore(sig)
      /\ fired => \A c \in Comp : c < k /\ Fresh(c, snap) => Fresh(c, sig)
  BY <1>1 DEF Selective, MidTick
<1>4. CASE fired /\ Moving(Comps[k]) \cap moved # {}
  <2> DEFINE r == Exec(Comps[k].block, sig)
  <2>1. /\ sig' = r.sig
        /\ \/ r.exit = "ok" /\ pc' = pc /\ k' = k + 1 /\ finished' = finished
           \/ pc' = "record" /\ finished'
           \/ pc' = "raised"
    BY <1>4 DEF SettleComponent, Goto
  <2>2. /\ \A s \in Signal \ Comps[k].writes : r.sig[s] = sig[s]
        /\ r.exit = "ok" => Fresh(k, r.sig)
        /\ \A b \in Comp \ {k} : Fresh(b, sig) => Fresh(b, r.sig)
    BY <1>1, ComponentRuns DEF TypeOK
  <2> HIDE DEF r
  <2>3. \A s \in Signal \ Movable(design) : sig'[s] = snap[s]
    BY <1>1, <1>3, <2>1, <2>2, MovableFacts DEF TypeOK
  <2>4. CASE r.exit = "ok" /\ pc' = pc /\ k' = k + 1 /\ finished' = finished
    <3>1. \A s \in Signal : sig'[s] # snap[s] =>
            s \in moved \/ \E c \in Comp : c < k + 1 /\ s \in Comps[c].writes
      BY <1>1, <1>3, <2>1, <2>2
    <3>2. \A c \in Comp : c < k + 1 /\ Fresh(c, snap) => Fresh(c, sig')
      BY <1>1, <1>3, <1>4, <2>1, <2>2, <2>4
    <3>3. \A c : Fresh(c, snap)' = Fresh(c, snap) /\ Fresh(c, sig)' = Fresh(c, sig')
      BY <1>1, <1>2 DEF Fresh
    <3> QED
      BY <1>1, <1>2, <1>3, <1>4, <2>3, <2>4, <3>1, <3>2, <3>3 DEF Selective, MidTick
  <2>5. CASE pc' = "record" /\ finished'
    BY <1>1, <1>2, <1>3, <1>4, <2>3, <2>5 DEF Selective, MidTick
  <2>6. CASE pc' = "raised"
    BY <2>6 DEF Selective, MidTick
  <2> QED
    BY <2>1, <2>4, <2>5, <2>6
<1>5. CASE ~(fired /\ Moving(Comps[k]) \cap moved # {})
  <2>1. UNCHANGED <<pc, sig, finished>> /\ k' = k + 1
    BY <1>5 DEF SettleComponent
  <2>2. ASSUME fired PROVE \A c \in Comp : c < k + 1 /\ Fresh(c, snap) => Fresh(c, sig)
    <3>1. Alike(k, snap, sig)
      BY <1>1, <1>5, <2>2, PassedUnmoved
    <3>2. Fresh(k, snap) => Fresh(k, sig)
      BY <1>1, <3>1, AgreesAlike DEF TypeOK
    <3> QED
      BY <1>1, <1>3, <2>2, <3>2
  <2>3. \A c : Fresh(c, snap)' = Fresh(c, snap) /\ Fresh(c, sig)' = Fresh(c, sig)
    BY <1>1, <1>2, <2>1 DEF Fresh
  <2>4. \A s \in Signal : sig[s] # snap[s] =>
          s \in moved \/ \E c \in Comp : c < k + 1 /\ s \in Comps[c].writes
    BY <1>1, <1>3
  <2> QED
    BY <1>1, <1>2, <1>3, <2>1, <2>2, <2>3, <2>4 DEF Selective, MidTick, NotedBefore
<1> QED
  BY <1>4, <1>5

\* The ends of the parts hand over what the next one relies on.
LEMMA SelectiveNextPart ==
  ASSUME TypeOK, Selective, NextPart
  PROVE  Selective'
<1>1. UNCHANGED <<design, sig, snap, moved, fired, finished>>
  BY DEF NextPart
<1>2. /\ (SeqWritten \cup Clocks)' = SeqWritten \cup Clocks /\ Movable(design)' = Movable(design)
      /\ Comp' = Comp /\ Comps' = Comps /\ NotedBefore(sig)' = NotedBefore(sig)
      /\ \A c : Fresh(c, snap)' = Fresh(c, snap) /\ Fresh(c, sig)' = Fresh(c, sig)
  BY <1>1 DEF SeqWritten, Clocks, Domains, Dom, Comp, Comps, NotedBefore, Fresh
<1>3. CASE pc = "seed"
  BY <1>3 DEF NextPart, Goto, Selective, MidTick
<1>4. CASE pc \in {"toggle", "async"}
  <2>1. pc' \in {"async", "seq"}
    BY <1>4 DEF NextPart, Goto
  <2> QED
    BY <1>1, <1>2, <1>4, <2>1 DEF Selective, MidTick
<1>5. CASE pc = "seq"
  <2>1. pc' = "settle" /\ k' = 1 /\ \A c \in Comp : ~(c < 1)
    BY <1>5 DEF NextPart, Goto, Comp
  <2> QED
    BY <1>1, <1>2, <1>5, <2>1 DEF Selective, MidTick, NotedBefore
<1>6. CASE pc = "settle"
  <2>1. pc' = "record" /\ \A c \in Comp : c < k
    BY <1>6, DesignFacts DEF NextPart, Goto, Comp, TypeOK
  <2> QED
    BY <1>1, <1>2, <1>6, <2>1 DEF Selective, MidTick
<1> QED
  BY <1>3, <1>4, <1>5, <1>6 DEF NextPart

\* Every step of the walk.
LEMMA SelectiveStep == TypeOK /\ Selective /\ [Next]_vars => Selective'
<1>1. ASSUME Selective, UNCHANGED vars PROVE Selective'
  BY <1>1 DEF vars, Selective, MidTick, NotedBefore, SeqWritten, Clocks, Domains, Dom, Comp, Comps, Fresh
<1> QED
  BY <1>1, SelectiveOutside, SelectiveToggle, SelectiveDomains, SelectiveSettle, SelectiveNextPart
     DEF Next

\* Selective settling, in every run: what a tick moves is noted, and in a traced
\* valuation every component agrees with what it reads that did so when the tick
\* began, whichever components ran.
THEOREM SettlingIsSelective == Spec => []Selective
BY TypeCorrect, SelectiveInit, SelectiveStep, PTL DEF Spec

-----------------------------------------------------------------------------
\* Runs whose silent ticks leave the components alone.

\* Between ticks, and when one begins, every component agrees with what it reads.
AllFresh ==
  /\ pc = "seed" => \A c \in Comp : c < k => Fresh(c, sig)
  /\ pc = "tick" => \A c \in Comp : Fresh(c, sig)
  /\ MidTick => \A c \in Comp : Fresh(c, snap)

\* Nothing is claimed before the seed.
LEMMA AllFreshInit == Init => AllFresh
BY DEF Init, AllFresh, MidTick

\* The seed runs every component that touches a signal.
LEMMA AllFreshSeed ==
  ASSUME TypeOK, AllFresh, Seed
  PROVE  AllFresh'
<1>1. /\ UNCHANGED design /\ pc = "seed" /\ k \in Comp /\ sig \in Valuation
      /\ \A c \in Comp : c < k + 1 <=> c < k \/ c = k
  BY DEF Seed, TypeOK, Comp
<1>2. Comp' = Comp /\ Comps' = Comps
  BY <1>1 DEF Comp, Comps
<1>3. \A c \in Comp : c < k => Fresh(c, sig)
  BY <1>1 DEF AllFresh
<1>4. CASE Comps[k].signals = {}
  <2>1. UNCHANGED <<pc, sig>> /\ k' = k + 1
    BY <1>4 DEF Seed
  <2>2. Fresh(k, sig)
    BY <1>1, <1>4, ComponentFacts DEF TypeOK
  <2> QED
    BY <1>1, <1>2, <1>3, <2>1, <2>2 DEF AllFresh, MidTick, Fresh
<1>5. CASE Comps[k].signals # {}
  <2> DEFINE r == Exec(Comps[k].block, sig)
  <2>1. /\ sig' = r.sig
        /\ \/ r.exit = "ok" /\ pc' = pc /\ k' = k + 1
           \/ pc' = "raised"
    BY <1>5 DEF Seed, Goto
  <2>2. /\ r.exit = "ok" => Fresh(k, r.sig)
        /\ \A b \in Comp \ {k} : Fresh(b, sig) => Fresh(b, r.sig)
    BY <1>1, ComponentRuns DEF TypeOK
  <2> HIDE DEF r
  <2>3. CASE r.exit = "ok" /\ pc' = pc /\ k' = k + 1
    <3>1. \A c \in Comp : c < k + 1 => Fresh(c, sig')
      BY <1>1, <1>3, <2>1, <2>2, <2>3
    <3> QED
      BY <1>1, <1>2, <2>3, <3>1 DEF AllFresh, MidTick, Fresh
  <2>4. CASE pc' = "raised"
    BY <2>4 DEF AllFresh, MidTick
  <2> QED
    BY <2>1, <2>3, <2>4
<1> QED
  BY <1>4, <1>5

\* A tick ends with components that agree, because it settled them or because it
\* moved nothing they touch.
LEMMA AllFreshRecord ==
  ASSUME TypeOK, Selective, AllFresh, QuietTicks, Record
  PROVE  AllFresh'
<1>1. /\ UNCHANGED <<design, sig>> /\ pc = "record"
      /\ pc' = IF finished THEN "done" ELSE "tick"
  BY DEF Record, AfterRecord, Goto
<1>2. CASE finished
  BY <1>1, <1>2 DEF AllFresh, MidTick
<1>3. CASE ~finished
  <2>1. \A c \in Comp : Fresh(c, snap)
    BY <1>1 DEF AllFresh, MidTick
  <2>2. CASE fired
    BY <1>1, <1>3, <2>1, <2>2 DEF Selective, AllFresh, MidTick, Comp, Comps, Fresh
  <2>3. CASE ~fired
    <3>1. \A c \in Comp : Alike(c, snap, sig)
      <4>1. \A s \in Signal \ Movable(design) : sig[s] = snap[s]
        BY <1>1 DEF Selective, MidTick
      <4>2. \A c \in Comp : Comps[c].signals \cap Differing(sig, snap) = {}
        BY <1>1, <2>3 DEF QuietTicks, Comp
      <4> QED
        BY <4>1, <4>2 DEF Alike, Differing
    <3>2. \A c \in Comp : Fresh(c, sig)
      BY <2>1, <3>1, AgreesAlike DEF TypeOK
    <3> QED
      BY <1>1, <1>3, <3>2 DEF AllFresh, MidTick, Comp, Comps, Fresh
  <2> QED
    BY <2>2, <2>3
<1> QED
  BY <1>2, <1>3

\* Within a tick the claim is about the valuation it began with.
LEMMA AllFreshElsewhere ==
  ASSUME TypeOK, AllFresh,
         \/ RunInitial \/ StartTick \/ ToggleClock \/ AsyncReset \/ RunDomain \/ SkipDomain
         \/ SettleComponent \/ NextPart \/ EndRun \/ Ended \/ UNCHANGED vars
  PROVE  AllFresh'
<1> USE DEF Goto, MidTick
<1>1. design' = design
  BY DEF RunInitial, StartTick, ToggleClock, AsyncReset, RunDomain, SkipDomain, SettleComponent,
         NextPart, EndRun, Ended, vars
<1>2. Comp' = Comp /\ \A c, S : Fresh(c, S)' = Fresh(c, S')
  BY <1>1 DEF Comp, Comps, Fresh
<1>3. CASE RunInitial
  BY <1>2, <1>3 DEF RunInitial, AllFresh, Comp
<1>4. CASE StartTick
  BY <1>1, <1>4 DEF StartTick, AllFresh, Comp, Comps, Fresh
<1>5. CASE ToggleClock \/ AsyncReset \/ RunDomain \/ SkipDomain \/ SettleComponent
  <2>1. MidTick /\ snap' = snap /\ pc' \in {"toggle", "async", "seq", "settle", "record", "raised"}
    BY <1>5 DEF ToggleClock, AsyncReset, RunDomain, SkipDomain, SettleComponent
  <2> QED
    BY <1>1, <2>1 DEF AllFresh, Comp, Comps, Fresh
<1>6. CASE NextPart
  <2>1. CASE pc = "seed"
    <3>1. pc' = "tick" /\ sig' = sig /\ \A c \in Comp : c < k
      BY <1>6, <2>1, DesignFacts DEF NextPart, Comp, TypeOK
    <3> QED
      BY <1>1, <2>1, <3>1 DEF AllFresh, Comp, Comps, Fresh
  <2>2. CASE pc # "seed"
    <3>1. MidTick /\ snap' = snap /\ pc' \in {"async", "seq", "settle", "record"}
      BY <1>6, <2>2 DEF NextPart
    <3> QED
      BY <1>1, <3>1 DEF AllFresh, Comp, Comps, Fresh
  <2> QED
    BY <2>1, <2>2
<1>7. CASE EndRun
  BY <1>7 DEF EndRun, AllFresh
<1>8. CASE Ended \/ UNCHANGED vars
  BY <1>8 DEF Ended, vars, AllFresh, Comp, Comps, Fresh
<1> QED
  BY <1>3, <1>4, <1>5, <1>6, <1>7, <1>8

\* Every step, in a state whose silent ticks are quiet.
LEMMA AllFreshStep == TypeOK /\ Selective /\ AllFresh /\ QuietTicks /\ [Next]_vars => AllFresh'
BY AllFreshSeed, AllFreshRecord, AllFreshElsewhere DEF Next

\* Every component agrees with what it reads whenever a tick begins, in runs
\* whose silent ticks leave the components alone.
THEOREM FreshBetweenTicks == Spec /\ []QuietTicks => []AllFresh
BY TypeCorrect, SettlingIsSelective, AllFreshInit, AllFreshStep, PTL DEF Spec

\* CombFresh of RunLoop: in such runs every traced valuation is settled, although
\* a tick settles only the components it has moved a signal of.
THEOREM TracesAreSettled == Spec /\ []QuietTicks => []CombFresh
<1>1. Selective /\ AllFresh => CombFresh
  BY DEF Selective, AllFresh, CombFresh, MidTick, Comp, Fresh
<1> QED
  BY <1>1, SettlingIsSelective, FreshBetweenTicks, PTL

-----------------------------------------------------------------------------
\* Designs whose silent ticks leave the components alone.

\* What can change a signal in a tick in which nothing fires: a clock that
\* toggles and an asynchronous reset.
Stirred(s) ==
  \E i \in Dom : \/ s = Domains[i].clk /\ HalfPeriodEnds(Domains[i])
                 \/ s \in Domains[i].written /\ Domains[i].style = "async"

\* Nothing else has, and by the time components settle the domains with an edge
\* that did not fire are those with an asynchronous reset.
Silent ==
  /\ MidTick /\ ~fired => \A s \in Signal : sig[s] # snap[s] => Stirred(s)
  /\ pc \in {"settle", "record"} /\ ~fired =>
       \A i \in Dom : EdgeAt(i, tc) => Domains[i].style = "async"

\* No tick is under way.
LEMMA SilentInit == Init => Silent
BY DEF Init, Silent, MidTick

\* Clocks and resets are the steps of a tick that move signals before something
\* fires.
LEMMA SilentMoves ==
  ASSUME TypeOK, Silent, ToggleClock \/ AsyncReset
  PROVE  Silent'
<1>1. /\ UNCHANGED <<design, tc, snap, fired, pc>> /\ pc \in {"toggle", "async"} /\ k \in Dom
  BY DEF ToggleClock, AsyncReset
<1>2. \A s : Stirred(s)' = Stirred(s)
  BY <1>1 DEF Stirred, Domains, Dom, HalfPeriodEnds
<1>3. ~fired => \A s \in Signal : sig[s] # snap[s] => Stirred(s)
  BY <1>1 DEF Silent, MidTick
<1>4. \A s \in Signal : sig'[s] # sig[s] => Stirred(s)
  <2>1. CASE ToggleClock
    <3>1. CASE HalfPeriodEnds(Domains[k])
      <4>1. sig' = [sig EXCEPT ![Domains[k].clk] = NextLevel(clock[k])]
        BY <2>1, <3>1 DEF ToggleClock
      <4>2. \A s \in Signal : s # Domains[k].clk => sig'[s] = sig[s]
        BY <4>1 DEF TypeOK, Valuation
      <4>3. Stirred(Domains[k].clk)
        BY <1>1, <3>1 DEF Stirred
      <4> QED
        BY <4>2, <4>3
    <3>2. CASE ~HalfPeriodEnds(Domains[k])
      BY <2>1, <3>2 DEF ToggleClock
    <3> QED
      BY <3>1, <3>2
  <2>2. CASE AsyncReset
    <3>1. CASE Domains[k].style = "async" /\ ResetActive(Domains[k], sig)
      <4>1. sig' = ApplyReset(Domains[k], InitVal, sig)
        BY <2>2, <3>1 DEF AsyncReset
      <4> QED
        BY <1>1, <3>1, <4>1, DomainRuns DEF Stirred
    <3>2. CASE ~(Domains[k].style = "async" /\ ResetActive(Domains[k], sig))
      BY <2>2, <3>2 DEF AsyncReset
    <3> QED
      BY <3>1, <3>2
  <2> QED
    BY <2>1, <2>2
<1> QED
  BY <1>1, <1>2, <1>3, <1>4 DEF Silent, MidTick

\* The end of the walk over the domains: a domain that was due has fired.
LEMMA SilentSettles ==
  ASSUME TypeOK, Timing, Entries, Silent, NextPart
  PROVE  Silent'
<1>1. UNCHANGED <<design, tc, sig, snap, fired>>
  BY DEF NextPart
<1>2. /\ \A s : Stirred(s)' = Stirred(s)
      /\ Dom' = Dom /\ Domains' = Domains /\ \A i \in Dom : EdgeAt(i, tc)' = EdgeAt(i, tc)
  BY <1>1 DEF Stirred, Domains, Dom, HalfPeriodEnds, EdgeAt
<1>3. CASE pc = "seed"
  BY <1>3 DEF NextPart, Goto, Silent, MidTick
<1>4. CASE pc \in {"toggle", "async"}
  BY <1>1, <1>2, <1>4 DEF NextPart, Goto, Silent, MidTick
<1>5. CASE pc = "seq"
  <2>1. pc' = "settle" /\ \A i \in Dom : i < k
    BY <1>5, DesignFacts DEF NextPart, Goto, TypeOK, Dom
  <2>2. /\ fired <=> \E i \in due : i < k
        /\ \A i \in Dom : EdgeAt(i, tc) /\ Domains[i].style # "async" => i \in due
    BY <1>5 DEF Entries, Timing, DueAtEdge
  <2> QED
    BY <1>1, <1>2, <1>5, <2>1, <2>2 DEF Silent, MidTick
<1>6. CASE pc = "settle"
  BY <1>1, <1>2, <1>6 DEF NextPart, Goto, Silent, MidTick
<1> QED
  BY <1>3, <1>4, <1>5, <1>6 DEF NextPart

\* The other steps move no signal, or a domain has fired.
LEMMA SilentElsewhere ==
  ASSUME Silent,
         \/ RunInitial \/ Seed \/ StartTick \/ RunDomain \/ SkipDomain
         \/ SettleComponent \/ Record \/ EndRun \/ Ended \/ UNCHANGED vars
  PROVE  Silent'
<1>1. CASE RunInitial \/ Seed \/ Record \/ EndRun
  <2>1. pc' \in {"seed", "tick", "done", "raised"}
    BY <1>1 DEF RunInitial, Seed, Record, AfterRecord, EndRun, Goto
  <2> QED
    BY <2>1 DEF Silent, MidTick
<1>2. CASE StartTick
  BY <1>2 DEF StartTick, Goto, Silent, MidTick
<1>3. CASE RunDomain
  <2>1. fired'
    BY <1>3 DEF RunDomain
  <2> QED
    BY <2>1 DEF Silent
<1>4. CASE fired /\ SettleComponent
  <2>1. fired'
    BY <1>4 DEF SettleComponent
  <2> QED
    BY <2>1 DEF Silent
<1>5. CASE SkipDomain \/ (~fired /\ SettleComponent) \/ Ended \/ UNCHANGED vars
  <2>1. UNCHANGED <<design, pc, tc, sig, snap, fired>>
    BY <1>5 DEF SkipDomain, SettleComponent, Ended, vars
  <2> QED
    BY <2>1 DEF Silent, MidTick, Stirred, Domains, Dom, HalfPeriodEnds, EdgeAt
<1> QED
  BY <1>1, <1>2, <1>3, <1>4, <1>5

\* Every step of the walk.
LEMMA SilentStep == TypeOK /\ Timing /\ Entries /\ Silent /\ [Next]_vars => Silent'
BY SilentMoves, SilentSettles, SilentElsewhere DEF Next

\* A quiet design has no component on what such a tick moves.
LEMMA QuietDesign ==
  ASSUME TypeOK, Silent, Quiet(design)
  PROVE  QuietTicks
<1> SUFFICES ASSUME pc = "record", ~fired, NEW c \in Comp, NEW s \in Comps[c].signals,
                    s \in Differing(sig, snap)
             PROVE  FALSE
  BY DEF QuietTicks, Comp
<1>1. PICK i \in Dom : \/ s = Domains[i].clk /\ HalfPeriodEnds(Domains[i])
                       \/ s \in Domains[i].written /\ Domains[i].style = "async"
  BY DEF Silent, MidTick, Differing, Stirred
<1>2. /\ Domains[i].clk \in Comps[c].signals =>
           Domains[i].edge = "both" /\ Domains[i].style # "async"
      /\ Domains[i].style = "async" => Domains[i].written \cap Comps[c].signals = {}
  BY DEF Quiet, Comp, Dom, Domains, Comps
<1>3. HalfPeriodEnds(Domains[i]) /\ Domains[i].edge = "both" /\ Domains[i].style # "async"
  BY <1>1, <1>2
<1>4. EdgeAt(i, tc)
  BY <1>3 DEF EdgeAt, HalfPeriodEnds
<1> QED
  BY <1>3, <1>4 DEF Silent

\* The ticks in which nothing fires are quiet in every run of quiet designs.
THEOREM QuietDesignsRunQuietly ==
  ASSUME \A D \in Designs : Quiet(D)
  PROVE  Spec => []QuietTicks
<1>1. TypeOK /\ Silent => QuietTicks
  BY QuietDesign DEF TypeOK
<1> QED
  BY <1>1, TypeCorrect, TimingCorrect, EntriesInit, EntriesStep, SilentInit, SilentStep, PTL DEF Spec

\* CombFresh of RunLoop for quiet designs, in every run of them.
THEOREM QuietDesignsTraceSettled ==
  ASSUME \A D \in Designs : Quiet(D)
  PROVE  Spec => []CombFresh
BY QuietDesignsRunQuietly, TracesAreSettled, PTL
=============================================================================
