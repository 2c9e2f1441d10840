-------------------------- MODULE RunLoopRTLProofs --------------------------
(***************************************************************************)
(* The run loop implements ClockedDesign, for every set of designs whose   *)
(* components are as ComponentsAssumption has them, in runs whose silent   *)
(* ticks leave the components alone.                                       *)
(*                                                                         *)
(* The abstract tick is one step, the loop's a walk, and both are loops    *)
(* over the same lists: the invariant Walk says of every position of the   *)
(* walk which prefix of the abstract tick has been computed.               *)
(***************************************************************************)
EXTENDS RunLoopProofs

-----------------------------------------------------------------------------
\* The abstract design, in the terms of the loop.

Holds      == [i \in Dom |-> RTL!Hold(i)]
Runs(set)  == [i \in Dom |-> RTL!Run(i, set)]
Settles    == [c \in Comp |-> Then(Comps[c].block)]
Held       == [sig : Valuation, held : SUBSET Dom]
Start(S)   == [sig |-> S, held |-> {}]

\* The abstract operators are loops over these lists.
LEMMA AbstractLoops ==
  ASSUME NEW S, NEW set
  PROVE  /\ RTL!Resets(S) = Through(Holds, Start(S))
         /\ RTL!RunDomains(S, set) = Through(Runs(set), Ok(S))
         /\ RTL!SettleAll(S) = Through(Settles, Ok(S))
<1>1. RTL!Dom = Dom
  BY DEF RTL!Dom, Dom, Domains
<1>2. \A steps, a : RTL!Through(steps, a) = Through(steps, a)
  BY DEF RTL!Through, Through
<1>3. \A T : RTL!Ok(T) = Ok(T)
  BY DEF RTL!Ok, Ok
<1>4. \A b : RTL!Then(b) = Then(b)
  BY DEF RTL!Then, Then, RTL!Outcome, Outcome, RTL!Valuation, Valuation
<1>5. RTL!Comb = Comps
  BY DEF RTL!Comb, Comps
<1> QED
  BY <1>1, <1>2, <1>3, <1>4, <1>5
     DEF RTL!Resets, RTL!RunDomains, RTL!SettleAll, Holds, Runs, Settles, Start, Comp

-----------------------------------------------------------------------------
\* Components settling, and the outcome of the initial blocks.
AllSettled(S)      == Through(Settles, Ok(S))
SettledAfter(S, j) == Through(Upto(Settles, j), Ok(S))
Begun              == Exec(design.initial, snap)

\* The abstract tick that a walk is computing, and its prefixes.

Toggled            == RTL!WithClocks(snap, tc)
HeldAfter(j)       == Through(Upto(Holds, j), Start(Toggled))
Reset              == Through(Holds, Start(Toggled))
Firing             == RTL!DueAt(tc) \ Reset.held
RanAfter(j)        == Through(Upto(Runs(Firing), j), Ok(Reset.sig))
Ran                == Through(Runs(Firing), Ok(Reset.sig))
Result             == IF Ran.exit = "ok" THEN AllSettled(Ran.sig) ELSE Ran

\* Domain i toggles its clock in this tick, and is the last of the domains before
\* k to do so with that signal.
Toggles(i)    == i < k /\ HalfPeriodEnds(Domains[i])
TogglesLast(i) ==
  Toggles(i) /\ \A j \in Dom : Toggles(j) /\ Domains[j].clk = Domains[i].clk => j <= i

TogglesSoFar ==
  /\ \A s \in Signal : (\A i \in Dom : Toggles(i) => Domains[i].clk # s) => sig[s] = snap[s]
  /\ \A i \in Dom : TogglesLast(i) => sig[Domains[i].clk] = LevelAfter(tc, Domains[i].hpt)

\* What the walk has computed at its position.
Walk ==
  /\ pc = "init" => sig = snap /\ tc = 0
  /\ pc = "seed" => tc = 0 /\ Begun.exit = "ok" /\ SettledAfter(Begun.sig, k - 1) = Ok(sig)
  /\ pc = "toggle" => TogglesSoFar
  /\ pc = "async" => /\ HeldAfter(k - 1).sig = sig
                     /\ due = RTL!DueAt(tc) \ HeldAfter(k - 1).held
  /\ pc = "seq" => RanAfter(k - 1) = Ok(sig) /\ due = Firing
  /\ pc \in {"settle", "record"} => (fired <=> Firing # {})
  /\ pc = "settle" => /\ Ran.exit = "ok"
                      /\ IF fired THEN SettledAfter(Ran.sig, k - 1) = Ok(sig) ELSE Ran.sig = sig
  /\ pc = "record" /\ finished => Result = [sig |-> sig, exit |-> "finish"]
  /\ pc = "record" /\ ~finished => IF fired THEN Result = Ok(sig) ELSE Ran = Ok(sig)

-----------------------------------------------------------------------------
\* The steps of the abstract loops.

\* What one of them does, and that it stays within outcomes.
LEMMA HoldSteps ==
  ASSUME design \in Designs
  PROVE  /\ Len(Domains) \in Nat /\ Holds \in [1 .. Len(Domains) -> [Held -> Held]]
         /\ \A i \in Dom, p \in Held :
              Holds[i][p] = IF Domains[i].style = "async" /\ ResetActive(Domains[i], p.sig)
                            THEN [sig |-> ApplyReset(Domains[i], InitVal, p.sig), held |-> p.held \cup {i}]
                            ELSE p
<1>1. Len(Domains) \in Nat /\ InitVal \in Valuation /\ RTL!Dom = Dom
  BY DesignFacts DEF RTL!Dom, Dom, Domains
<1>2. \A i \in Dom : RTL!Hold(i) =
        [p \in Held |-> IF Domains[i].style = "async" /\ ResetActive(Domains[i], p.sig)
                        THEN [sig |-> ApplyReset(Domains[i], InitVal, p.sig), held |-> p.held \cup {i}]
                        ELSE p]
  BY <1>1 DEF RTL!Hold, Held, RTL!Clocked, Domains, InitVal, RTL!ResetActive, ResetActive,
     RTL!ApplyReset, ApplyReset, RTL!Valuation, Valuation
<1>3. ASSUME NEW i \in Dom PROVE RTL!Hold(i) \in [Held -> Held]
  <2>1. \A p \in Held : ApplyReset(Domains[i], InitVal, p.sig) \in Valuation
    BY <1>1, ResetValuation DEF Held
  <2>2. \A p \in Held :
          [sig |-> ApplyReset(Domains[i], InitVal, p.sig), held |-> p.held \cup {i}] \in Held
    BY <2>1 DEF Held
  <2> QED
    BY <1>2, <2>2
<1> QED
  BY <1>1, <1>2, <1>3 DEF Holds, Dom

\* A domain that is not in the set, or comes after one that raised, is passed.
LEMMA RunSteps ==
  ASSUME design \in Designs, NEW set
  PROVE  /\ Len(Domains) \in Nat /\ Runs(set) \in [1 .. Len(Domains) -> [Outcome -> Outcome]]
         /\ \A i \in Dom, p \in Outcome :
              Runs(set)[i][p] =
                IF i \notin set \/ p.exit # "ok" THEN p
                ELSE IF Domains[i].style = "sync" /\ ResetActive(Domains[i], p.sig)
                     THEN Ok(ApplyReset(Domains[i], InitVal, p.sig))
                     ELSE Exec(Domains[i].block, p.sig)
<1>1. Len(Domains) \in Nat /\ InitVal \in Valuation /\ RTL!Dom = Dom
  BY DesignFacts DEF RTL!Dom, Dom, Domains
<1> DEFINE Ran1(i, p) ==
      IF i \notin set \/ p.exit # "ok" THEN p
      ELSE IF Domains[i].style = "sync" /\ ResetActive(Domains[i], p.sig)
           THEN Ok(ApplyReset(Domains[i], InitVal, p.sig))
           ELSE Exec(Domains[i].block, p.sig)
<1>2. \A i \in Dom : RTL!Run(i, set) = [p \in Outcome |-> Ran1(i, p)]
  BY <1>1 DEF RTL!Run, RTL!Outcome, Outcome, RTL!Clocked, Domains, InitVal, RTL!ResetActive, ResetActive,
     RTL!ApplyReset, ApplyReset, RTL!Valuation, Valuation, RTL!Ok, Ok
<1>3. ASSUME NEW i \in Dom, NEW p \in Outcome PROVE Ran1(i, p) \in Outcome
  <2>1. p.sig \in Valuation
    BY DEF Outcome
  <2>2. Ok(ApplyReset(Domains[i], InitVal, p.sig)) \in Outcome
    BY <1>1, <2>1, ResetValuation DEF Outcome, Ok
  <2>3. Exec(Domains[i].block, p.sig) \in Outcome
    BY <2>1, BlockOutcome
  <2> QED
    BY <2>2, <2>3
<1> HIDE DEF Ran1
<1>4. Runs(set) \in [1 .. Len(Domains) -> [Outcome -> Outcome]]
  BY <1>1, <1>2, <1>3 DEF Runs, Dom
<1>5. \A i \in Dom, p \in Outcome : Runs(set)[i][p] = Ran1(i, p)
  BY <1>1, <1>2 DEF Runs
<1> QED
  BY <1>1, <1>4, <1>5 DEF Ran1

\* A component that comes after one that raised is passed.
LEMMA SettleSteps ==
  ASSUME design \in Designs
  PROVE  /\ Len(Comps) \in Nat /\ Settles \in [1 .. Len(Comps) -> [Outcome -> Outcome]]
         /\ \A c \in Comp, r \in Outcome :
              Settles[c][r] = IF r.exit = "ok" THEN Exec(Comps[c].block, r.sig) ELSE r
<1>1. Len(Comps) \in Nat
  BY DesignFacts
<1>2. ASSUME NEW c \in Comp, NEW r \in Outcome PROVE Exec(Comps[c].block, r.sig) \in Outcome
  <2>1. r.sig \in Valuation
    BY DEF Outcome
  <2> QED
    BY <2>1, BlockOutcome DEF Comp
<1> QED
  BY <1>1, <1>2 DEF Settles, Then, Comp

-----------------------------------------------------------------------------
\* Clocks.

Ends(i) == HalfPeriodEnds(Domains[i])

\* The valuation of the abstract tick after its clocks have toggled.
LEMMA ToggledFacts ==
  ASSUME TypeOK
  PROVE  /\ Toggled \in Valuation
         /\ \A s \in Signal :
              (\A i \in Dom : Ends(i) => Domains[i].clk # s) => Toggled[s] = snap[s]
         /\ \A i \in Dom :
              Ends(i) /\ (\A j \in Dom : Ends(j) /\ Domains[j].clk = Domains[i].clk => j <= i)
              => Toggled[Domains[i].clk] = LevelAfter(tc, Domains[i].hpt)
<1> DEFINE T(s) == { i \in Dom : Domains[i].clk = s /\ Ends(i) }
           Latest(s) == CHOOSE i \in T(s) : \A j \in T(s) : j <= i
           Level(s) == LevelAfter(tc, Domains[Latest(s)].hpt)
<1>1. Toggled = [s \in Signal |-> IF T(s) = {} THEN snap[s] ELSE Level(s)]
  BY DEF Toggled, RTL!WithClocks, RTL!Dom, RTL!Clocked, RTL!LevelAt, Dom, Domains, Ends,
     HalfPeriodEnds, LevelAfter
<1>2. /\ Len(Domains) \in Nat /\ tc \in Nat /\ snap \in Valuation
      /\ \A i \in Dom : Domains[i].hpt \in Nat \ {0} /\ Domains[i].clk \in Signal
  BY DesignFacts, DomainFacts DEF TypeOK
<1>3. ASSUME NEW s, T(s) # {}
      PROVE  Latest(s) \in T(s) /\ \A j \in T(s) : j <= Latest(s)
  <2>1. T(s) \in SUBSET (0 .. Len(Domains))
    BY <1>2 DEF Dom
  <2>2. \E i \in T(s) : \A j \in T(s) : j <= i
    BY <1>2, <1>3, <2>1, GreatestNatural
  <2> QED
    BY <2>2
<1>4. ASSUME NEW i \in Dom PROVE LevelAfter(tc, Domains[i].hpt) \in {0, 1}
  <2>1. tc \div Domains[i].hpt \in Int
    BY <1>2
  <2> QED
    BY <2>1 DEF LevelAfter
<1>5. ASSUME NEW s, T(s) # {} PROVE Level(s) \in {0, 1}
  BY <1>3, <1>4, <1>5
<1>6. Toggled \in Valuation
  BY <1>1, <1>2, <1>5, ValueAssumption DEF Valuation
<1>7. ASSUME NEW s \in Signal, \A i \in Dom : Ends(i) => Domains[i].clk # s
      PROVE  Toggled[s] = snap[s]
  BY <1>1, <1>7
<1>8. ASSUME NEW i \in Dom, Ends(i),
             \A j \in Dom : Ends(j) /\ Domains[j].clk = Domains[i].clk => j <= i
      PROVE  Toggled[Domains[i].clk] = LevelAfter(tc, Domains[i].hpt)
  <2>1. i \in T(Domains[i].clk) /\ \A j \in T(Domains[i].clk) : j <= i
    BY <1>8
  <2>2. Latest(Domains[i].clk) = i
    BY <1>3, <2>1 DEF Dom
  <2> HIDE DEF Latest, T
  <2> QED
    BY <1>1, <1>2, <2>1, <2>2
<1> QED
  BY <1>6, <1>7, <1>8

\* When every domain has been passed, the clocks are those of the abstract tick.
LEMMA TogglesAll ==
  ASSUME TypeOK, TogglesSoFar, k > Len(Domains)
  PROVE  sig = Toggled
<1>1. \A i \in Dom : i < k /\ (Toggles(i) <=> Ends(i))
  BY DesignFacts DEF TypeOK, Dom, Toggles, Ends
<1>2. ASSUME NEW s \in Signal PROVE sig[s] = Toggled[s]
  <2>1. CASE \A i \in Dom : Ends(i) => Domains[i].clk # s
    BY <1>1, <2>1, ToggledFacts DEF TogglesSoFar
  <2>2. CASE \E i \in Dom : Ends(i) /\ Domains[i].clk = s
    <3> DEFINE T == { i \in Dom : Ends(i) /\ Domains[i].clk = s }
    <3>1. T \in SUBSET (0 .. Len(Domains)) /\ T # {} /\ Len(Domains) \in Nat
      BY <2>2, DesignFacts DEF Dom, TypeOK
    <3>2. PICK i \in T : \A j \in T : j <= i
      BY <3>1, GreatestNatural
    <3>3. Toggled[s] = LevelAfter(tc, Domains[i].hpt)
      BY <3>2, ToggledFacts
    <3>4. TogglesLast(i)
      BY <1>1, <3>2 DEF TogglesLast
    <3> QED
      BY <3>2, <3>3, <3>4 DEF TogglesSoFar
  <2> QED
    BY <2>1, <2>2
<1> QED
  BY <1>2, ToggledFacts DEF TypeOK, Valuation

\* The domains with an edge are those due in the abstract tick.
LEMMA DueEdges ==
  ASSUME TypeOK
  PROVE  RTL!DueAt(tc) = { i \in Dom : EdgeAt(i, tc) }
<1>1. ASSUME NEW i \in Dom
      PROVE  (tc % Domains[i].hpt = 0
                /\ RTL!EdgeFires(Domains[i].edge, RTL!LevelAt(Domains[i], tc))) <=> EdgeAt(i, tc)
  <2>1. /\ Domains[i].hpt \in Nat \ {0} /\ Domains[i].edge \in {"pos", "neg", "both"} /\ tc \in Nat
    BY DomainFacts, DesignFacts DEF TypeOK
  <2>2. tc \div Domains[i].hpt \in Int
    BY <2>1
  <2>3. LevelAfter(tc, Domains[i].hpt) \in {0, 1}
    BY <2>2 DEF LevelAfter
  <2>4. RTL!LevelAt(Domains[i], tc) = LevelAfter(tc, Domains[i].hpt)
    BY DEF RTL!LevelAt, LevelAfter
  <2> QED
    BY <2>1, <2>3, <2>4 DEF RTL!EdgeFires, EdgeAt
<1> QED
  BY <1>1 DEF RTL!DueAt, RTL!Dom, RTL!Clocked, Dom, Domains

-----------------------------------------------------------------------------
\* The prefixes, one step after the other.

\* The resets of the abstract tick.
LEMMA HeldLoop ==
  ASSUME TypeOK
  PROVE  /\ HeldAfter(0) = Start(Toggled) /\ HeldAfter(Len(Domains)) = Reset
         /\ \A j \in 0 .. Len(Domains) : HeldAfter(j) \in Held
         /\ \A i \in Dom : HeldAfter(i) = Holds[i][HeldAfter(i - 1)]
         /\ Reset \in Held
<1>1. Start(Toggled) \in Held
  BY ToggledFacts DEF Start, Held
<1>2. Len(Domains) \in Nat /\ Holds \in [1 .. Len(Domains) -> [Held -> Held]]
  BY HoldSteps DEF TypeOK
<1>3. /\ HeldAfter(0) = Start(Toggled)
      /\ \A j \in 0 .. Len(Domains) : HeldAfter(j) \in Held
      /\ \A i \in 1 .. Len(Domains) : HeldAfter(i) = Holds[i][HeldAfter(i - 1)]
      /\ Upto(Holds, Len(Domains)) = Holds
  BY <1>1, <1>2, ThroughUpto DEF HeldAfter
<1>4. HeldAfter(Len(Domains)) = Reset
  BY <1>3 DEF HeldAfter, Reset
<1> QED
  BY <1>2, <1>3, <1>4 DEF Dom

\* Its domains: one that raises ends the loop.
LEMMA RanLoop ==
  ASSUME TypeOK
  PROVE  /\ RanAfter(0) = Ok(Reset.sig) /\ RanAfter(Len(Domains)) = Ran
         /\ \A j \in 0 .. Len(Domains) : RanAfter(j) \in Outcome
         /\ \A i \in Dom : RanAfter(i) = Runs(Firing)[i][RanAfter(i - 1)]
         /\ Ran \in Outcome
         /\ \A j \in 0 .. Len(Domains) : RanAfter(j).exit # "ok" => Ran = RanAfter(j)
<1>1. Ok(Reset.sig) \in Outcome
  BY HeldLoop DEF Held, Outcome, Ok
<1>2. Len(Domains) \in Nat /\ Runs(Firing) \in [1 .. Len(Domains) -> [Outcome -> Outcome]]
  BY RunSteps DEF TypeOK
<1>3. Ran = Through(Runs(Firing), Ok(Reset.sig))
  BY DEF Ran
<1>4. /\ RanAfter(0) = Ok(Reset.sig)
      /\ \A j \in 0 .. Len(Domains) : RanAfter(j) \in Outcome
      /\ \A i \in 1 .. Len(Domains) : RanAfter(i) = Runs(Firing)[i][RanAfter(i - 1)]
      /\ Upto(Runs(Firing), Len(Domains)) = Runs(Firing)
  <2> DEFINE steps == Runs(Firing)
             a     == Ok(Reset.sig)
  <2>1. a \in Outcome /\ Len(Domains) \in Nat /\ steps \in [1 .. Len(Domains) -> [Outcome -> Outcome]]
    BY <1>1, <1>2
  <2>2. \A j : RanAfter(j) = Through(Upto(steps, j), a)
    BY DEF RanAfter
  <2> HIDE DEF steps, a
  <2>3. /\ RanAfter(0) = a
        /\ \A j \in 0 .. Len(Domains) : RanAfter(j) \in Outcome
        /\ \A i \in 1 .. Len(Domains) : RanAfter(i) = steps[i][RanAfter(i - 1)]
        /\ Upto(steps, Len(Domains)) = steps
    BY <2>1, <2>2, ThroughUpto
  <2> QED
    BY <2>3 DEF steps, a
<1>5. RanAfter(Len(Domains)) = Ran
  BY <1>3, <1>4 DEF RanAfter
<1>6. ASSUME NEW j \in 0 .. Len(Domains), RanAfter(j).exit # "ok"
      PROVE  Ran = RanAfter(j)
  <2>1. \A i \in 1 .. Len(Domains) : Runs(Firing)[i][RanAfter(j)] = RanAfter(j)
    BY <1>4, <1>6, RunSteps DEF TypeOK, Dom
  <2> QED
    BY <1>1, <1>2, <1>3, <2>1, ThroughStops DEF RanAfter
<1> QED
  BY <1>2, <1>4, <1>5, <1>6 DEF Dom

\* Its components: one that raises ends the loop, and components that agree change nothing.
LEMMA SettleLoop ==
  ASSUME TypeOK, NEW S \in Valuation
  PROVE  /\ SettledAfter(S, 0) = Ok(S) /\ SettledAfter(S, Len(Comps)) = AllSettled(S)
         /\ \A j \in 0 .. Len(Comps) : SettledAfter(S, j) \in Outcome
         /\ \A c \in Comp : SettledAfter(S, c) = Settles[c][SettledAfter(S, c - 1)]
         /\ AllSettled(S) \in Outcome
         /\ \A j \in 0 .. Len(Comps) :
              SettledAfter(S, j).exit # "ok" => AllSettled(S) = SettledAfter(S, j)
         /\ (\A c \in Comp : Fresh(c, S)) => AllSettled(S) = Ok(S)
<1>1. Ok(S) \in Outcome
  BY DEF Outcome, Ok
<1>2. Len(Comps) \in Nat /\ Settles \in [1 .. Len(Comps) -> [Outcome -> Outcome]]
  BY SettleSteps DEF TypeOK
<1>3. AllSettled(S) = Through(Settles, Ok(S))
  BY DEF AllSettled
<1>4. /\ SettledAfter(S, 0) = Ok(S)
      /\ \A j \in 0 .. Len(Comps) : SettledAfter(S, j) \in Outcome
      /\ \A c \in 1 .. Len(Comps) : SettledAfter(S, c) = Settles[c][SettledAfter(S, c - 1)]
      /\ Upto(Settles, Len(Comps)) = Settles
  BY <1>1, <1>2, ThroughUpto DEF SettledAfter
<1>5. SettledAfter(S, Len(Comps)) = AllSettled(S)
  BY <1>3, <1>4 DEF SettledAfter
<1>6. ASSUME NEW j \in 0 .. Len(Comps), SettledAfter(S, j).exit # "ok"
      PROVE  AllSettled(S) = SettledAfter(S, j)
  <2>1. \A c \in 1 .. Len(Comps) : Settles[c][SettledAfter(S, j)] = SettledAfter(S, j)
    BY <1>4, <1>6, SettleSteps DEF TypeOK, Comp
  <2> QED
    BY <1>1, <1>2, <1>3, <2>1, ThroughStops DEF SettledAfter
<1>7. ASSUME \A c \in Comp : Fresh(c, S) PROVE AllSettled(S) = Ok(S)
  <2>1. \A c \in 1 .. Len(Comps) : Settles[c][Ok(S)] = Ok(S)
    BY <1>1, <1>7, SettleSteps DEF TypeOK, Comp, Fresh, Agrees, Ok
  <2>2. Ok(S) = Through(Upto(Settles, 0), Ok(S)) /\ 0 \in 0 .. Len(Comps)
    BY <1>2, <1>4 DEF SettledAfter
  <2> HIDE DEF Ok
  <2>3. Through(Settles, Ok(S)) = Ok(S)
    BY <1>1, <1>2, <2>1, <2>2, ThroughStops
  <2> QED
    BY <1>3, <2>3
<1> QED
  BY <1>2, <1>4, <1>5, <1>6, <1>7 DEF Comp

\* While a tick is under way its abstract tick stays the same.
LEMMA TickKept ==
  ASSUME UNCHANGED <<design, snap, tc>>
  PROVE  /\ Toggled' = Toggled /\ Reset' = Reset /\ Firing' = Firing /\ Ran' = Ran
         /\ Result' = Result /\ RTL!DueAt(tc)' = RTL!DueAt(tc) /\ Begun' = Begun
         /\ \A j : HeldAfter(j)' = HeldAfter(j) /\ RanAfter(j)' = RanAfter(j)
         /\ \A S, j : SettledAfter(S, j)' = SettledAfter(S, j)
         /\ Dom' = Dom /\ Domains' = Domains /\ Comp' = Comp /\ Comps' = Comps
<1>1. Toggled' = Toggled
  BY DEF Toggled, RTL!WithClocks, RTL!Dom, RTL!Clocked
<1>2. RTL!DueAt(tc)' = RTL!DueAt(tc)
  BY DEF RTL!DueAt, RTL!Dom, RTL!Clocked
<1>3. Holds' = Holds /\ \A set : Runs(set)' = Runs(set)
  BY DEF Holds, Runs, Dom, Domains, RTL!Hold, RTL!Run, RTL!Dom, RTL!Clocked
<1>4. Dom' = Dom /\ Domains' = Domains /\ Comp' = Comp /\ Comps' = Comps /\ Settles' = Settles
  BY DEF Dom, Domains, Comp, Comps, Settles
<1>5. Begun' = Begun
  BY DEF Begun
<1>6. Reset' = Reset /\ \A j : HeldAfter(j)' = HeldAfter(j)
  BY <1>1, <1>3 DEF Reset, HeldAfter, Start
<1>7. Firing' = Firing
  BY <1>2, <1>6 DEF Firing
<1>8. Ran' = Ran /\ \A j : RanAfter(j)' = RanAfter(j)
  BY <1>3, <1>6, <1>7 DEF Ran, RanAfter, Ok
<1>9. /\ \A S : AllSettled(S)' = AllSettled(S)
      /\ \A S, j : SettledAfter(S, j)' = SettledAfter(S, j)
  BY <1>4 DEF AllSettled, SettledAfter
<1>10. Result' = Result
  BY <1>4, <1>8 DEF Result, AllSettled, Ok
<1> QED
  BY <1>1, <1>2, <1>4, <1>5, <1>6, <1>7, <1>8, <1>9, <1>10

-----------------------------------------------------------------------------
\* The walk computes the abstract tick.

\* The loop starts from the signals of the snapshot.
LEMMA WalkInit == Init => Walk
BY DEF Init, Walk

\* Outside the ticks: the seed settles the components as the abstract one does.
LEMMA WalkSeed ==
  ASSUME TypeOK, Walk, Seed
  PROVE  Walk'
<1>1. /\ UNCHANGED <<design, snap, tc>> /\ pc = "seed" /\ k \in Comp /\ sig \in Valuation
      /\ tc = 0 /\ Begun.exit = "ok" /\ SettledAfter(Begun.sig, k - 1) = Ok(sig)
  BY DEF Seed, Walk, TypeOK, Comp
<1>2. Begun.sig \in Valuation
  BY BlockOutcome DEF Begun, TypeOK, Outcome
<1>3. SettledAfter(Begun.sig, k) = Exec(Comps[k].block, sig)
  <2>1. Ok(sig) \in Outcome /\ Ok(sig).exit = "ok" /\ Ok(sig).sig = sig
    BY <1>1 DEF Outcome, Ok
  <2>2. SettledAfter(Begun.sig, k) = Settles[k][Ok(sig)]
    BY <1>1, <1>2, SettleLoop
  <2> QED
    BY <1>1, <2>1, <2>2, SettleSteps DEF TypeOK
<1>4. (k + 1) - 1 = k /\ Exec(Comps[k].block, sig) \in Outcome
  BY <1>1, BlockOutcome DEF TypeOK, Comp
<1>5. CASE Comps[k].signals = {}
  <2>1. UNCHANGED <<pc, sig>> /\ k' = k + 1
    BY <1>5 DEF Seed
  <2>2. Exec(Comps[k].block, sig) = Ok(sig)
    BY <1>1, <1>5, ComponentFacts DEF TypeOK, Fresh, Agrees
  <2> QED
    BY <1>1, <1>3, <1>4, <2>1, <2>2, TickKept DEF Walk, Ok
<1>6. CASE Comps[k].signals # {}
  <2> DEFINE r == Exec(Comps[k].block, sig)
  <2>1. /\ sig' = r.sig
        /\ \/ r.exit = "ok" /\ pc' = pc /\ k' = k + 1
           \/ pc' = "raised"
    BY <1>6 DEF Seed, Goto
  <2>2. r.exit = "ok" => r = Ok(r.sig)
    BY <1>4 DEF Outcome, Ok
  <2>3. SettledAfter(Begun.sig, k) = r /\ (k + 1) - 1 = k
    BY <1>3, <1>4
  <2> HIDE DEF r
  <2>4. CASE r.exit = "ok" /\ pc' = pc /\ k' = k + 1
    <3>1. SettledAfter(Begun.sig, k' - 1) = Ok(sig')
      BY <2>1, <2>2, <2>3, <2>4
    <3>2. Ok(sig)' = Ok(sig') /\ SettledAfter(Begun.sig, k - 1)' = SettledAfter(Begun.sig, k' - 1)
      BY <1>1, TickKept DEF Ok, SettledAfter
    <3> QED
      BY <1>1, <2>4, <3>1, <3>2, TickKept DEF Walk
  <2>5. CASE pc' = "raised"
    BY <2>5 DEF Walk
  <2> QED
    BY <2>1, <2>4, <2>5
<1> QED
  BY <1>5, <1>6

\* The steps between ticks, and those that change nothing.
LEMMA WalkBetween ==
  ASSUME TypeOK, Walk,
         RunInitial \/ StartTick \/ Record \/ EndRun \/ Ended \/ UNCHANGED vars
  PROVE  Walk'
<1>1. CASE RunInitial
  <2>1. /\ UNCHANGED <<design, snap, tc>> /\ sig = snap /\ tc = 0
        /\ sig' = Begun.sig
        /\ \/ Begun.exit = "ok" /\ pc' = "seed" /\ k' = 1
           \/ pc' \in {"done", "raised"}
    BY <1>1 DEF RunInitial, Walk, Goto, Begun
  <2>2. Begun.sig \in Valuation
    BY BlockOutcome DEF Begun, TypeOK, Outcome
  <2>3. SettledAfter(Begun.sig, 0) = Ok(sig') /\ 1 - 1 = 0
    BY <2>1, <2>2, SettleLoop
  <2>4. CASE Begun.exit = "ok" /\ pc' = "seed" /\ k' = 1
    <3>1. Ok(sig)' = Ok(sig') /\ SettledAfter(Begun.sig, k - 1)' = SettledAfter(Begun.sig, k' - 1)
      BY <2>1, TickKept DEF Ok, SettledAfter
    <3> QED
      BY <2>1, <2>3, <2>4, <3>1, TickKept DEF Walk
  <2>5. CASE pc' \in {"done", "raised"}
    BY <2>5 DEF Walk
  <2> QED
    BY <2>1, <2>4, <2>5
<1>2. CASE StartTick
  <2>1. pc' = "toggle" /\ k' = 1 /\ sig' = snap' /\ design' = design
    BY <1>2 DEF StartTick, Goto
  <2>2. \A i \in Dom' : ~(i < 1)
    BY DEF Dom
  <2>3. TogglesSoFar'
    BY <2>1, <2>2 DEF TogglesSoFar, TogglesLast, Toggles
  <2> QED
    BY <2>1, <2>3 DEF Walk
<1>3. CASE Record \/ EndRun
  <2>1. pc' \in {"tick", "done"}
    BY <1>3 DEF Record, AfterRecord, EndRun, Goto
  <2> QED
    BY <2>1 DEF Walk
<1>4. CASE Ended \/ UNCHANGED vars
  <2>1. UNCHANGED <<design, pc, k, tc, sig, snap, due, fired, finished>>
    BY <1>4 DEF Ended, vars
  <2>2. /\ Ok(sig)' = Ok(sig) /\ HeldAfter(k - 1)' = HeldAfter(k - 1)
        /\ RanAfter(k - 1)' = RanAfter(k - 1)
        /\ SettledAfter(Begun.sig, k - 1)' = SettledAfter(Begun.sig, k - 1)
        /\ SettledAfter(Ran.sig, k - 1)' = SettledAfter(Ran.sig, k - 1)
    BY <2>1, TickKept DEF Ok, HeldAfter, RanAfter, SettledAfter
  <2>3. TogglesSoFar' = TogglesSoFar
    BY <2>1 DEF TogglesSoFar, TogglesLast, Toggles, HalfPeriodEnds, Dom, Domains
  <2> QED
    BY <2>1, <2>2, <2>3, TickKept DEF Walk
<1> QED
  BY <1>1, <1>2, <1>3, <1>4

\* The domain that toggles is the last so far to do so.
LEMMA WalkToggle ==
  ASSUME TypeOK, Timing, Walk, ToggleClock
  PROVE  Walk'
<1>1. /\ UNCHANGED <<design, tc, snap>> /\ pc = "toggle" /\ pc' = "toggle"
      /\ k \in Dom /\ k' = k + 1 /\ tc \in Nat \ {0} /\ TogglesSoFar
  BY DesignFacts DEF ToggleClock, TypeOK, Timing, MidTick, Walk
<1>2. /\ Dom' = Dom /\ Domains' = Domains /\ \A i \in Dom : Ends(i)' = Ends(i)
      /\ \A i \in Dom : i < k + 1 <=> i < k \/ i = k
      /\ \A i \in Dom : i < k => ~(k <= i)
  BY <1>1 DEF Dom, Domains, Ends, HalfPeriodEnds
<1>3. /\ Domains[k].hpt \in Nat \ {0} /\ Domains[k].clk \in Signal
      /\ clock[k] = LevelAfter(tc - 1, Domains[k].hpt)
  BY <1>1, DomainFacts DEF TypeOK, Timing, ClockWaveform
<1>4. \A i \in Dom : Toggles(i)' <=> Toggles(i) \/ (i = k /\ Ends(k))
  BY <1>1, <1>2 DEF Toggles, Ends
<1>5. CASE ~Ends(k)
  <2>1. sig' = sig
    BY <1>5 DEF ToggleClock, Ends
  <2>2. TogglesSoFar'
    BY <1>1, <1>2, <1>4, <1>5, <2>1 DEF TogglesSoFar, TogglesLast
  <2> QED
    BY <1>1, <2>2 DEF Walk
<1>6. CASE Ends(k)
  <2> DEFINE clk == Domains[k].clk
             level == LevelAfter(tc, Domains[k].hpt)
  <2>1. level = NextLevel(clock[k])
    BY <1>1, <1>3, <1>6, LevelStep DEF Ends, HalfPeriodEnds
  <2>2. sig' = [sig EXCEPT ![clk] = level]
    BY <1>6, <2>1 DEF ToggleClock, Ends
  <2>3. sig'[clk] = level /\ \A s \in Signal : s # clk => sig'[s] = sig[s]
    BY <1>3, <2>2 DEF TypeOK, Valuation
  <2>4. ASSUME NEW s \in Signal, \A i \in Dom : Toggles(i)' => Domains[i].clk # s
        PROVE  sig'[s] = snap[s]
    <3>1. s # clk
      BY <1>1, <1>4, <1>6, <2>4
    <3>2. sig[s] = snap[s]
      BY <1>1, <1>4, <2>4 DEF TogglesSoFar
    <3> QED
      BY <2>3, <3>1, <3>2
  <2>5. ASSUME NEW i \in Dom, Toggles(i)',
               \A j \in Dom : Toggles(j)' /\ Domains[j].clk = Domains[i].clk => j <= i
        PROVE  sig'[Domains[i].clk] = LevelAfter(tc, Domains[i].hpt)
    <3>1. CASE i = k
      BY <2>3, <3>1
    <3>2. CASE i # k
      <4>1. Toggles(i)
        BY <1>4, <2>5, <3>2
      <4>2. i < k
        BY <4>1 DEF Toggles
      <4>3. Domains[i].clk # clk
        BY <1>1, <1>2, <1>4, <1>6, <2>5, <4>2
      <4>4. TogglesLast(i)
        BY <1>4, <2>5, <4>1 DEF TogglesLast
      <4>5. sig[Domains[i].clk] = LevelAfter(tc, Domains[i].hpt) /\ Domains[i].clk \in Signal
        BY <1>1, <4>4, DomainFacts DEF TogglesSoFar, TypeOK
      <4> QED
        BY <2>3, <4>3, <4>5
    <3> QED
      BY <3>1, <3>2
  <2>6. TogglesSoFar'
    BY <1>1, <1>2, <2>4, <2>5 DEF TogglesSoFar, TogglesLast
  <2> QED
    BY <1>1, <2>6 DEF Walk
<1> QED
  BY <1>5, <1>6

\* The prefixes at the next position.
LEMMA PositionKept ==
  ASSUME UNCHANGED <<design, snap, tc>>
  PROVE  /\ HeldAfter(k - 1)' = HeldAfter(k' - 1) /\ RanAfter(k - 1)' = RanAfter(k' - 1)
         /\ SettledAfter(Ran.sig, k - 1)' = SettledAfter(Ran.sig, k' - 1)
         /\ Ok(sig)' = Ok(sig')
BY TickKept DEF HeldAfter, RanAfter, SettledAfter, Ok

\* An asynchronous reset is a step of the abstract resets.
LEMMA WalkReset ==
  ASSUME TypeOK, Walk, AsyncReset
  PROVE  Walk'
<1>1. /\ UNCHANGED <<design, tc, snap>> /\ pc = "async" /\ pc' = "async"
      /\ k \in Dom /\ k' = k + 1 /\ k' - 1 = k /\ k - 1 \in 0 .. Len(Domains)
      /\ HeldAfter(k - 1).sig = sig /\ due = RTL!DueAt(tc) \ HeldAfter(k - 1).held
  BY DesignFacts DEF AsyncReset, TypeOK, Walk, Dom
<1>2. /\ HeldAfter(k) = Holds[k][HeldAfter(k - 1)] /\ HeldAfter(k - 1) \in Held
  BY <1>1, HeldLoop
<1>3. CASE Domains[k].style = "async" /\ ResetActive(Domains[k], sig)
  <2>1. sig' = ApplyReset(Domains[k], InitVal, sig) /\ due' = due \ {k}
    BY <1>3 DEF AsyncReset, CancelFiring
  <2>2. HeldAfter(k) = [sig  |-> ApplyReset(Domains[k], InitVal, sig),
                        held |-> HeldAfter(k - 1).held \cup {k}]
    BY <1>1, <1>2, <1>3, HoldSteps DEF TypeOK
  <2>3. HeldAfter(k).sig = sig' /\ due' = RTL!DueAt(tc) \ HeldAfter(k).held
    BY <1>1, <2>1, <2>2
  <2> QED
    BY <1>1, <2>3, TickKept, PositionKept DEF Walk
<1>4. CASE ~(Domains[k].style = "async" /\ ResetActive(Domains[k], sig))
  <2>1. UNCHANGED <<sig, due>>
    BY <1>4 DEF AsyncReset
  <2>2. HeldAfter(k) = HeldAfter(k - 1)
    BY <1>1, <1>2, <1>4, HoldSteps DEF TypeOK
  <2> QED
    BY <1>1, <2>1, <2>2, TickKept, PositionKept DEF Walk
<1> QED
  BY <1>3, <1>4

\* What the next step of the abstract run of domains is at the loop's position.
LEMMA RunAtPosition ==
  ASSUME TypeOK, Walk, pc = "seq", k \in Dom
  PROVE  /\ due = Firing /\ RanAfter(k - 1) = Ok(sig) /\ RanAfter(k) \in Outcome
         /\ RanAfter(k) =
              IF k \notin due THEN Ok(sig)
              ELSE IF Domains[k].style = "sync" /\ ResetActive(Domains[k], sig)
                   THEN Ok(ApplyReset(Domains[k], InitVal, sig))
                   ELSE Exec(Domains[k].block, sig)
         /\ RanAfter(k).exit # "ok" => Ran = RanAfter(k)
<1>1. due = Firing /\ RanAfter(k - 1) = Ok(sig) /\ k \in 0 .. Len(Domains)
  BY DesignFacts DEF Walk, TypeOK, Dom
<1>2. Ok(sig) \in Outcome /\ Ok(sig).exit = "ok" /\ Ok(sig).sig = sig
  BY DEF TypeOK, Outcome, Ok
<1>3. RanAfter(k) = Runs(Firing)[k][Ok(sig)]
  BY <1>1, RanLoop
<1> QED
  BY <1>1, <1>2, <1>3, RanLoop, RunSteps DEF TypeOK

\* A domain that fires is a step of it; one that raises ends it.
LEMMA WalkDomain ==
  ASSUME TypeOK, Walk, RunDomain \/ SkipDomain
  PROVE  Walk'
<1>1. /\ UNCHANGED <<design, tc, snap, due>> /\ pc = "seq" /\ k \in Dom
      /\ (k + 1) - 1 = k
  BY DesignFacts DEF RunDomain, SkipDomain, TypeOK, Dom
<1>2. /\ due = Firing /\ RanAfter(k - 1) = Ok(sig) /\ RanAfter(k) \in Outcome
      /\ RanAfter(k).exit # "ok" => Ran = RanAfter(k)
  BY <1>1, RunAtPosition
<1>3. CASE RunDomain
  <2> DEFINE r == RanAfter(k)
  <2>1. r = IF Domains[k].style = "sync" /\ ResetActive(Domains[k], sig)
            THEN [sig |-> ApplyReset(Domains[k], InitVal, sig), exit |-> "ok"]
            ELSE Exec(Domains[k].block, sig)
    BY <1>1, <1>3, RunAtPosition DEF RunDomain, Ok
  <2> HIDE DEF r
  <2>2. /\ sig' = r.sig /\ k \in due
        /\ \/ r.exit = "ok" /\ k' = k + 1 /\ pc' = pc
           \/ r.exit = "finish" /\ pc' = "record" /\ finished'
           \/ pc' = "raised"
    BY <1>3, <2>1, Zenon DEF RunDomain, Goto
  <2>3. fired'
    BY <1>3 DEF RunDomain
  <2>4. r = [sig |-> r.sig, exit |-> r.exit]
    BY <1>2 DEF r, Outcome
  <2>5. CASE r.exit = "ok" /\ k' = k + 1 /\ pc' = pc
    <3>1. RanAfter(k' - 1) = Ok(sig')
      BY <1>1, <2>2, <2>4, <2>5 DEF r, Ok
    <3> QED
      BY <1>1, <1>2, <2>5, <3>1, TickKept, PositionKept DEF Walk
  <2>6. CASE r.exit = "finish" /\ pc' = "record" /\ finished'
    <3>1. Result = [sig |-> sig', exit |-> "finish"]
      BY <1>2, <2>2, <2>4, <2>6 DEF r, Result
    <3>2. Firing # {}
      BY <1>2, <2>2
    <3> QED
      BY <1>1, <2>3, <2>6, <3>1, <3>2, TickKept DEF Walk
  <2>7. CASE pc' = "raised"
    BY <2>7 DEF Walk
  <2> QED
    BY <2>2, <2>5, <2>6, <2>7
<1>4. CASE SkipDomain
  <2>1. UNCHANGED <<sig, pc>> /\ k' = k + 1 /\ k \notin due
    BY <1>4 DEF SkipDomain
  <2>2. RanAfter(k) = Ok(sig)
    BY <1>1, <2>1, RunAtPosition
  <2> QED
    BY <1>1, <1>2, <2>1, <2>2, TickKept, PositionKept DEF Walk
<1> QED
  BY <1>3, <1>4

\* The next step of the abstract settling at the loop's position.
LEMMA SettleAtPosition ==
  ASSUME TypeOK, Walk, pc = "settle", fired, k \in Comp
  PROVE  /\ Ran.exit = "ok" /\ Firing # {}
         /\ SettledAfter(Ran.sig, k) = Exec(Comps[k].block, sig)
         /\ Exec(Comps[k].block, sig) \in Outcome
         /\ Exec(Comps[k].block, sig).exit # "ok" => Result = Exec(Comps[k].block, sig)
<1>1. /\ Ran.exit = "ok" /\ Firing # {} /\ SettledAfter(Ran.sig, k - 1) = Ok(sig)
      /\ k \in 0 .. Len(Comps)
  BY DesignFacts DEF Walk, TypeOK, Comp
<1>2. /\ Ok(sig) \in Outcome /\ Ok(sig).exit = "ok" /\ Ok(sig).sig = sig
      /\ Ran.sig \in Valuation
  BY RanLoop DEF TypeOK, Outcome, Ok
<1>3. SettledAfter(Ran.sig, k) = Settles[k][Ok(sig)]
  BY <1>1, <1>2, SettleLoop
<1>4. SettledAfter(Ran.sig, k) = Exec(Comps[k].block, sig)
  BY <1>2, <1>3, SettleSteps DEF TypeOK
<1>5. SettledAfter(Ran.sig, k).exit # "ok" => AllSettled(Ran.sig) = SettledAfter(Ran.sig, k)
  BY <1>1, <1>2, SettleLoop
<1>6. Exec(Comps[k].block, sig) \in Outcome
  BY BlockOutcome DEF TypeOK, Comp
<1> QED
  BY <1>1, <1>4, <1>5, <1>6 DEF Result

\* A component that runs is a step of the abstract settling; so is one that is
\* passed, because it agrees with what it reads.
LEMMA WalkSettle ==
  ASSUME TypeOK, Selective, AllFresh, Walk, SettleComponent
  PROVE  Walk'
<1>1. /\ UNCHANGED <<design, tc, snap, fired>> /\ pc = "settle" /\ k \in Comp
      /\ (k + 1) - 1 = k
  BY DEF SettleComponent, TypeOK, Comp
<1>2. /\ Ran.exit = "ok" /\ (fired <=> Firing # {})
      /\ ~fired => Ran.sig = sig
  BY <1>1 DEF Walk
<1>3. CASE fired /\ Moving(Comps[k]) \cap moved # {}
  <2> DEFINE r == Exec(Comps[k].block, sig)
  <2>1. /\ SettledAfter(Ran.sig, k) = r /\ r \in Outcome
        /\ r.exit # "ok" => Result = r
    BY <1>1, <1>3, SettleAtPosition
  <2>2. /\ sig' = r.sig
        /\ \/ r.exit = "ok" /\ pc' = pc /\ k' = k + 1
           \/ r.exit = "finish" /\ pc' = "record" /\ finished'
           \/ pc' = "raised"
    BY <1>3, Zenon DEF SettleComponent, Goto
  <2> HIDE DEF r
  <2>3. r = [sig |-> r.sig, exit |-> r.exit]
    BY <2>1 DEF Outcome
  <2>4. CASE r.exit = "ok" /\ pc' = pc /\ k' = k + 1
    <3>1. SettledAfter(Ran.sig, k' - 1) = Ok(sig')
      BY <1>1, <2>1, <2>2, <2>3, <2>4 DEF Ok
    <3> QED
      BY <1>1, <1>2, <1>3, <2>4, <3>1, TickKept, PositionKept DEF Walk
  <2>5. CASE r.exit = "finish" /\ pc' = "record" /\ finished'
    <3>1. Result = [sig |-> sig', exit |-> "finish"]
      BY <2>1, <2>2, <2>3, <2>5
    <3> QED
      BY <1>1, <1>2, <2>5, <3>1, TickKept DEF Walk
  <2>6. CASE pc' = "raised"
    BY <2>6 DEF Walk
  <2> QED
    BY <2>2, <2>4, <2>5, <2>6
<1>4. CASE ~(fired /\ Moving(Comps[k]) \cap moved # {})
  <2>1. UNCHANGED <<pc, sig, finished>> /\ k' = k + 1
    BY <1>4 DEF SettleComponent
  <2>2. ASSUME fired PROVE SettledAfter(Ran.sig, k) = Ok(sig)
    <3>1. Alike(k, snap, sig)
      BY <1>1, <1>4, <2>2, PassedUnmoved
    <3>2. Fresh(k, snap)
      BY <1>1 DEF AllFresh, MidTick
    <3>3. Fresh(k, sig)
      BY <1>1, <3>1, <3>2, AgreesAlike DEF TypeOK
    <3> QED
      BY <1>1, <2>2, <3>3, SettleAtPosition DEF Fresh, Agrees
  <2> QED
    BY <1>1, <1>2, <2>1, <2>2, TickKept, PositionKept DEF Walk
<1> QED
  BY <1>3, <1>4

\* At the end of a part the prefix is the whole of the abstract loop.
LEMMA WalkNextPart ==
  ASSUME TypeOK, Timing, Entries, Finishing, Walk, NextPart
  PROVE  Walk'
<1>1. /\ UNCHANGED <<design, tc, sig, snap, due, fired, finished>>
      /\ k \in Nat /\ Len(Domains) \in Nat /\ Len(Comps) \in Nat
  BY DesignFacts DEF NextPart, TypeOK
<1>2. CASE pc = "seed"
  BY <1>2 DEF NextPart, Goto, Walk
<1>3. CASE pc = "toggle"
  <2>1. pc' = "async" /\ k' = 1 /\ k' - 1 = 0 /\ k > Len(Domains)
    BY <1>3 DEF NextPart, Goto
  <2>2. sig = Toggled
    BY <1>3, <2>1, TogglesAll DEF Walk
  <2>3. HeldAfter(0).sig = Toggled /\ HeldAfter(0).held = {}
    BY HeldLoop DEF Start
  <2>4. due = RTL!DueAt(tc)
    <3>1. \A i \in Dom : i < k
      BY <1>1, <2>1 DEF Dom
    <3>2. \A i \in Dom : i \in due <=> EdgeAt(i, tc)
      BY <1>3, <3>1 DEF Timing, DueSoFar
    <3> QED
      BY <3>2, DueEdges DEF TypeOK
  <2> QED
    BY <1>1, <2>1, <2>2, <2>3, <2>4, TickKept, PositionKept DEF Walk
<1>4. CASE pc = "async"
  <2>1. /\ pc' = "seq" /\ k' = 1 /\ k' - 1 = 0 /\ k - 1 = Len(Domains)
    BY <1>1, <1>4 DEF NextPart, Goto, TypeOK, PartLength
  <2>2. sig = Reset.sig /\ due = Firing
    BY <1>4, <2>1, HeldLoop DEF Walk, Firing
  <2>3. RanAfter(0) = Ok(sig)
    BY <2>2, RanLoop
  <2> QED
    BY <1>1, <2>1, <2>2, <2>3, TickKept, PositionKept DEF Walk
<1>5. CASE pc = "seq"
  <2>1. /\ pc' = "settle" /\ k' = 1 /\ k' - 1 = 0 /\ k - 1 = Len(Domains)
        /\ \A i \in Dom : i < k
    BY <1>1, <1>5 DEF NextPart, Goto, TypeOK, PartLength, Dom
  <2>2. Ran = Ok(sig) /\ due = Firing
    BY <1>5, <2>1, RanLoop DEF Walk
  <2>3. fired <=> Firing # {}
    BY <1>5, <2>1, <2>2 DEF Entries, TypeOK
  <2>4. Ran.exit = "ok" /\ Ran.sig = sig
    BY <2>2 DEF Ok
  <2>5. SettledAfter(Ran.sig, 0) = Ok(sig)
    BY <2>4, SettleLoop DEF TypeOK
  <2> QED
    BY <1>1, <2>1, <2>3, <2>4, <2>5, TickKept, PositionKept DEF Walk
<1>6. CASE pc = "settle"
  <2>1. pc' = "record" /\ k - 1 = Len(Comps) /\ ~finished
    BY <1>1, <1>6 DEF NextPart, Goto, TypeOK, PartLength, Finishing
  <2>2. /\ Ran.exit = "ok" /\ (fired <=> Firing # {}) /\ Ran \in Outcome /\ Ran.sig \in Valuation
        /\ IF fired THEN SettledAfter(Ran.sig, k - 1) = Ok(sig) ELSE Ran.sig = sig
    BY <1>6, RanLoop DEF Walk, Outcome
  <2>3. fired => Result = Ok(sig)
    BY <2>1, <2>2, SettleLoop DEF Result
  <2>4. ~fired => Ran = Ok(sig)
    BY <2>2 DEF Outcome, Ok
  <2> QED
    BY <1>1, <2>1, <2>2, <2>3, <2>4, TickKept, PositionKept DEF Walk
<1> QED
  BY <1>2, <1>3, <1>4, <1>5, <1>6 DEF NextPart

\* Every step of the walk.
LEMMA WalkStep ==
  TypeOK /\ Timing /\ Entries /\ Finishing /\ Selective /\ AllFresh /\ Walk /\ [Next]_vars => Walk'
BY WalkSeed, WalkBetween, WalkToggle, WalkReset, WalkDomain, WalkSettle, WalkNextPart DEF Next

-----------------------------------------------------------------------------
\* Refinement.

\* What every state of a run has.
Inv == TypeOK /\ Timing /\ Entries /\ Finishing /\ Selective /\ AllFresh /\ Walk

\* Settling changes nothing where every component agrees with what it reads.
LEMMA SettledIsFresh ==
  ASSUME design \in Designs, NEW S \in Valuation, \A c \in Comp : Fresh(c, S)
  PROVE  Settled(S) = S
<1> DEFINE steps == [c \in 1 .. Len(Comps) |-> [T \in Valuation |-> Exec(Comps[c].block, T).sig]]
<1>1. Len(Comps) \in Nat
  BY DesignFacts
<1>2. steps \in [1 .. Len(Comps) -> [Valuation -> Valuation]]
  BY BlockOutcome DEF Outcome
<1>3. \A c \in 1 .. Len(Comps) : steps[c][S] = S
  BY DEF Fresh, Agrees, Comp, Ok
<1>4. Settled(S) = Through(steps, S)
  BY DEF Settled
<1> HIDE DEF steps
<1>5. S = Through(Upto(steps, 0), S) /\ 0 \in 0 .. Len(Comps)
  BY <1>1, <1>2, ThroughUpto
<1>6. Through(steps, S) = S
  BY <1>1, <1>2, <1>3, <1>5, ThroughStops
<1> QED
  BY <1>4, <1>6

\* The abstract state while a tick is under way, and between ticks.
Stands ==
  /\ MidTick => AbsStatus = "running" /\ AbsTc = tc - 1 /\ AbsSig = snap
  /\ pc = "tick" => AbsStatus = "running" /\ AbsTc = tc /\ AbsSig = sig
  /\ pc \in {"init", "seed"} => AbsStatus = "init" /\ AbsTc = tc /\ AbsSig = snap
  /\ pc = "done" /\ (finished \/ tc = 0) => AbsStatus = "done" /\ AbsTc = tc /\ AbsSig = sig

\* The refinement mapping in the states of a run.
LEMMA AbstractState == Inv => Stands
<1> SUFFICES ASSUME Inv PROVE Stands
  OBVIOUS
<1>1. tc \in Nat /\ (MidTick => tc > 0)
  BY DesignFacts DEF Inv, TypeOK, Timing
<1>2. MidTick => Settled(snap) = snap
  BY SettledIsFresh DEF Inv, AllFresh, TypeOK
<1>3. pc = "tick" => Settled(sig) = sig
  BY SettledIsFresh DEF Inv, AllFresh, TypeOK
<1> QED
  BY <1>1, <1>2, <1>3 DEF Stands, AbsStatus, AbsTc, AbsSig, MidTick

\* And in those they lead to.
LEMMA AbstractNext == Inv' => Stands'
BY AbstractState, PTL

\* The abstract tick, in terms of what the walk computes.
LEMMA AbstractTick ==
  ASSUME Inv, MidTick, design' = design,
         IF Result.exit = "error"
         THEN AbsStatus' = "raised" /\ UNCHANGED <<AbsTc, AbsSig, out, count>>
         ELSE /\ AbsStatus' = IF Result.exit = "finish" THEN "done" ELSE "running"
              /\ AbsTc' = tc
              /\ AbsSig' = Result.sig
              /\ IF Firing # {} THEN out' = Result.sig /\ count' = count + 1
                                ELSE UNCHANGED <<out, count>>
  PROVE  RTL!Tick
<1>1. AbsStatus = "running" /\ AbsTc = tc - 1 /\ AbsSig = snap
  BY AbstractState DEF Stands
<1>2. tc - 1 + 1 = tc /\ tc - 1 < design.ticks
  BY DesignFacts DEF Inv, TypeOK, Timing, Ticks
<1>3. RTL!WithClocks(AbsSig, AbsTc + 1) = Toggled
  BY <1>1, <1>2 DEF Toggled
<1>4. RTL!Resets(RTL!WithClocks(AbsSig, AbsTc + 1)) = Reset
  BY <1>3, AbstractLoops DEF Reset
<1>5. RTL!DueAt(AbsTc + 1) \ Reset.held = Firing
  BY <1>1, <1>2 DEF Firing
<1>6. RTL!RunDomains(Reset.sig, Firing) = Ran
  BY AbstractLoops DEF Ran
<1>7. (IF Ran.exit = "ok" THEN RTL!SettleAll(Ran.sig) ELSE Ran) = Result
  BY AbstractLoops DEF Result, AllSettled
<1> HIDE DEF Toggled, Reset, Firing, Ran, Result
<1> QED
  BY <1>1, <1>2, <1>3, <1>4, <1>5, <1>6, <1>7 DEF RTL!Tick

\* A step that keeps the abstract state.
Stutter == UNCHANGED <<design, AbsStatus, AbsTc, AbsSig, out, count>>

\* The steps of a walk that go on are the abstract tick still to come.
LEMMA WithinTick ==
  ASSUME Inv, Inv', UNCHANGED <<design, tc, snap, out, count>>, MidTick, MidTick'
  PROVE  Stutter
<1>1. AbsStatus = "running" /\ AbsTc = tc - 1 /\ AbsSig = snap
  BY AbstractState DEF Stands
<1>2. AbsStatus' = "running" /\ AbsTc' = tc' - 1 /\ AbsSig' = snap'
  BY AbstractNext DEF Stands
<1> QED
  BY <1>1, <1>2 DEF Stutter

\* A tick begins with the abstract state that the last one left.
LEMMA StartStutters ==
  ASSUME Inv, Inv', StartTick
  PROVE  Stutter
<1>1. /\ UNCHANGED <<design, out, count>> /\ pc = "tick" /\ pc' = "toggle"
      /\ tc' = tc + 1 /\ snap' = sig /\ tc \in Nat
  BY DesignFacts DEF StartTick, Goto, Inv, TypeOK
<1>2. AbsStatus = "running" /\ AbsTc = tc /\ AbsSig = sig
  BY <1>1, AbstractState DEF Stands
<1>3. AbsStatus' = "running" /\ AbsTc' = tc' - 1 /\ AbsSig' = snap'
  BY <1>1, AbstractNext DEF Stands, MidTick
<1> QED
  BY <1>1, <1>2, <1>3 DEF Stutter

\* A tick that raises is the abstract one that does, and leaves no trace.
LEMMA RaiseTicks ==
  ASSUME Inv, RunDomain \/ SettleComponent, pc' = "raised"
  PROVE  RTL!Tick
<1>1. UNCHANGED <<design, tc, snap, out, count>> /\ pc \in {"seq", "settle"} /\ MidTick
  BY DEF RunDomain, SettleComponent, MidTick
<1>2. Result.exit = "error"
  <2>1. CASE RunDomain
    <3>1. k \in Dom /\ pc = "seq" /\ k \in due
      BY <2>1 DEF RunDomain, Inv, TypeOK
    <3>2. RanAfter(k) = IF Domains[k].style = "sync" /\ ResetActive(Domains[k], sig)
                        THEN [sig |-> ApplyReset(Domains[k], InitVal, sig), exit |-> "ok"]
                        ELSE Exec(Domains[k].block, sig)
      BY <3>1, RunAtPosition DEF Inv, Ok
    <3>3. RanAfter(k).exit = "error"
      BY <2>1, <3>1, <3>2 DEF RunDomain, Goto
    <3>4. Ran = RanAfter(k)
      BY <3>1, <3>3, RunAtPosition DEF Inv
    <3> QED
      BY <3>3, <3>4 DEF Result
  <2>2. CASE SettleComponent
    <3>1. pc = "settle" /\ k \in Comp /\ fired /\ Exec(Comps[k].block, sig).exit = "error"
      BY <2>2 DEF SettleComponent, Goto, Inv, TypeOK, Comp
    <3> QED
      BY <3>1, SettleAtPosition DEF Inv
  <2> QED
    BY <2>1, <2>2
<1>3. AbsStatus' = "raised"
  BY DEF AbsStatus
<1>4. AbsTc' = AbsTc
  BY <1>1 DEF AbsTc, MidTick
<1>5. AbsSig' = AbsSig
  <2>1. tc > 0
    BY <1>1, DesignFacts DEF Inv, TypeOK, Timing
  <2>2. AbsSig = Settled(snap)
    BY <1>1 DEF AbsSig, MidTick
  <2>3. AbsSig' = Settled(snap)'
    BY <1>1, <2>1 DEF AbsSig, MidTick
  <2>4. Settled(snap)' = Settled(snap)
    BY <1>1 DEF Settled, Comps
  <2> QED
    BY <2>2, <2>3, <2>4
<1> QED
  BY <1>1, <1>2, <1>3, <1>4, <1>5, AbstractTick

\* The end of the walk is the abstract tick.
LEMMA RecordTicks ==
  ASSUME Inv, Inv', Record
  PROVE  RTL!Tick
<1>1. /\ UNCHANGED <<design, tc, sig, finished>> /\ pc = "record" /\ MidTick
      /\ pc' = IF finished THEN "done" ELSE "tick"
      /\ IF fired THEN out' = sig /\ count' = count + 1 ELSE UNCHANGED <<out, count>>
  BY DEF Record, Traced, AfterRecord, Goto, MidTick
<1>2. fired <=> Firing # {}
  BY <1>1 DEF Inv, Walk
<1>3. Comp' = Comp /\ Comps' = Comps
  BY <1>1 DEF Comp, Comps
<1>4. CASE finished
  <2>1. Result.exit = "finish" /\ Result.sig = sig
    BY <1>1, <1>4 DEF Inv, Walk
  <2>2. AbsStatus' = "done" /\ AbsTc' = tc /\ AbsSig' = sig
    BY <1>1, <1>4, AbstractNext DEF Stands
  <2> QED
    BY <1>1, <1>2, <2>1, <2>2, AbstractTick
<1>5. CASE ~finished
  <2>1. \A c \in Comp : Fresh(c, sig)
    BY <1>1, <1>3, <1>5 DEF Inv, AllFresh, Fresh
  <2>2. Result = Ok(sig)
    <3>1. CASE fired
      BY <1>1, <1>5, <3>1 DEF Inv, Walk
    <3>2. CASE ~fired
      <4>1. Ran = Ok(sig)
        BY <1>1, <1>5, <3>2 DEF Inv, Walk
      <4>2. AllSettled(sig) = Ok(sig)
        BY <2>1, SettleLoop DEF Inv, TypeOK
      <4> QED
        BY <4>1, <4>2 DEF Result, Ok
    <3> QED
      BY <3>1, <3>2
  <2>3. AbsStatus' = "running" /\ AbsTc' = tc /\ AbsSig' = sig
    BY <1>1, <1>5, AbstractNext DEF Stands
  <2> QED
    BY <1>1, <1>2, <2>2, <2>3, AbstractTick DEF Ok
<1> QED
  BY <1>4, <1>5

\* The abstract beginning, in terms of the initial blocks and the seed.
LEMMA AbstractBegin ==
  ASSUME Inv, pc \in {"init", "seed"}, UNCHANGED <<design, tc>>, AbsTc' = tc,
         \/ /\ Begun.exit = "ok" /\ AllSettled(Begun.sig).exit = "ok"
            /\ AbsStatus' = "running" /\ AbsSig' = AllSettled(Begun.sig).sig /\ UNCHANGED <<out, count>>
         \/ /\ Begun.exit = "finish"
            /\ AbsStatus' = "done" /\ AbsSig' = Begun.sig /\ out' = Begun.sig /\ count' = 1
         \/ /\ Begun.exit = "error" \/ (Begun.exit = "ok" /\ AllSettled(Begun.sig).exit # "ok")
            /\ AbsStatus' = "raised" /\ AbsSig' = AbsSig /\ UNCHANGED <<out, count>>
  PROVE  RTL!Begin
<1>1. AbsStatus = "init" /\ AbsTc = tc /\ AbsSig = snap
  BY AbstractState DEF Stands
<1>2. Exec(design.initial, AbsSig) = Begun
  BY <1>1 DEF Begun
<1>3. RTL!SettleAll(Begun.sig) = AllSettled(Begun.sig)
  BY AbstractLoops DEF AllSettled
<1> HIDE DEF Begun, AllSettled
<1> QED
  BY <1>1, <1>2, <1>3 DEF RTL!Begin

\* The initial blocks and the seed are the abstract beginning when they are over.
LEMMA InitialBegins ==
  ASSUME Inv, Inv', RunInitial
  PROVE  RTL!Begin \/ Stutter
<1>1. /\ UNCHANGED <<design, tc, snap>> /\ pc = "init" /\ tc = 0 /\ sig = snap
      /\ sig' = Begun.sig
      /\ \/ Begun.exit = "ok" /\ pc' = "seed" /\ UNCHANGED <<out, count>>
         \/ Begun.exit = "finish" /\ pc' = "done" /\ out' = Begun.sig /\ count' = 1
         \/ Begun.exit = "error" /\ pc' = "raised" /\ UNCHANGED <<out, count>>
  BY DEF RunInitial, Goto, Inv, Walk, Begun
<1>2. AbsStatus = "init" /\ AbsTc = tc /\ AbsSig = snap
  BY <1>1, AbstractState DEF Stands
<1>3. CASE Begun.exit = "ok" /\ pc' = "seed" /\ UNCHANGED <<out, count>>
  <2>1. AbsStatus' = "init" /\ AbsTc' = tc' /\ AbsSig' = snap'
    BY <1>3, AbstractNext DEF Stands
  <2> QED
    BY <1>1, <1>2, <1>3, <2>1 DEF Stutter
<1>4. CASE Begun.exit = "finish" /\ pc' = "done" /\ out' = Begun.sig /\ count' = 1
  <2>1. AbsStatus' = "done" /\ AbsTc' = tc' /\ AbsSig' = sig'
    BY <1>1, <1>4, AbstractNext DEF Stands
  <2> QED
    BY <1>1, <1>4, <2>1, AbstractBegin
<1>5. CASE Begun.exit = "error" /\ pc' = "raised" /\ UNCHANGED <<out, count>>
  <2>1. AbsStatus' = "raised" /\ AbsTc' = tc' /\ AbsSig' = snap'
    BY <1>1, <1>5 DEF AbsStatus, AbsTc, AbsSig, MidTick
  <2> QED
    BY <1>1, <1>2, <1>5, <2>1, AbstractBegin
<1> QED
  BY <1>1, <1>3, <1>4, <1>5

\* A component of the seed that raises ends the abstract beginning.
LEMMA SeedBegins ==
  ASSUME Inv, Inv', Seed
  PROVE  RTL!Begin \/ Stutter
<1>1. /\ UNCHANGED <<design, tc, snap, out, count>> /\ pc = "seed" /\ k \in Comp /\ tc = 0
      /\ Begun.exit = "ok" /\ SettledAfter(Begun.sig, k - 1) = Ok(sig)
      /\ pc' \in {"seed", "raised"}
  BY DEF Seed, Goto, Inv, TypeOK, Walk, Comp
<1>2. AbsStatus = "init" /\ AbsTc = tc /\ AbsSig = snap
  BY <1>1, AbstractState DEF Stands
<1>3. CASE pc' = "seed"
  <2>1. AbsStatus' = "init" /\ AbsTc' = tc' /\ AbsSig' = snap'
    BY <1>3, AbstractNext DEF Stands
  <2> QED
    BY <1>1, <1>2, <2>1 DEF Stutter
<1>4. CASE pc' = "raised"
  <2>1. Exec(Comps[k].block, sig).exit # "ok"
    BY <1>1, <1>4 DEF Seed
  <2>2. /\ Ok(sig) \in Outcome /\ Ok(sig).exit = "ok" /\ Ok(sig).sig = sig
        /\ Begun.sig \in Valuation
    BY BlockOutcome DEF Inv, TypeOK, Outcome, Ok, Begun
  <2>3. SettledAfter(Begun.sig, k) = Settles[k][Ok(sig)]
    BY <1>1, <2>2, SettleLoop DEF Inv
  <2>4. SettledAfter(Begun.sig, k).exit # "ok"
    BY <1>1, <2>1, <2>2, <2>3, SettleSteps DEF Inv, TypeOK
  <2>5. k \in 0 .. Len(Comps)
    BY <1>1, DesignFacts DEF Comp, Inv, TypeOK
  <2>6. AllSettled(Begun.sig).exit # "ok"
    BY <2>2, <2>4, <2>5, SettleLoop DEF Inv
  <2>7. AbsStatus' = "raised" /\ AbsTc' = tc' /\ AbsSig' = snap'
    BY <1>1, <1>4 DEF AbsStatus, AbsTc, AbsSig, MidTick
  <2> QED
    BY <1>1, <1>2, <2>6, <2>7, AbstractBegin
<1> QED
  BY <1>1, <1>3, <1>4

\* The end of the seed is the abstract beginning.
LEMMA NextPartBegins ==
  ASSUME Inv, Inv', NextPart
  PROVE  RTL!Begin \/ Stutter
<1>1. UNCHANGED <<design, tc, sig, snap, out, count>>
  BY DEF NextPart
<1>2. CASE pc = "seed"
  <2>1. /\ pc' = "tick" /\ k - 1 = Len(Comps) /\ tc = 0 /\ Begun.exit = "ok"
        /\ SettledAfter(Begun.sig, k - 1) = Ok(sig)
    BY <1>2, DesignFacts DEF NextPart, Goto, Inv, TypeOK, PartLength, Walk
  <2>2. Begun.sig \in Valuation
    BY BlockOutcome DEF Inv, TypeOK, Outcome, Begun
  <2>3. AllSettled(Begun.sig) = Ok(sig)
    BY <2>1, <2>2, SettleLoop DEF Inv
  <2>4. AbsStatus' = "running" /\ AbsTc' = tc' /\ AbsSig' = sig'
    BY <2>1, AbstractNext DEF Stands
  <2> QED
    BY <1>1, <1>2, <2>1, <2>3, <2>4, AbstractBegin DEF Ok
<1>3. CASE pc # "seed"
  <2>1. MidTick /\ MidTick'
    BY <1>3 DEF NextPart, Goto, MidTick
  <2> QED
    BY <1>1, <2>1, WithinTick
<1> QED
  BY <1>2, <1>3

\* The end of the run.
LEMMA EndFinishes ==
  ASSUME Inv, EndRun
  PROVE  RTL!Finish
<1>1. /\ UNCHANGED <<design, tc, sig, finished, out, count>>
      /\ pc = "tick" /\ pc' = "done" /\ tc = Ticks
  BY DEF EndRun, Goto
<1>2. AbsStatus = "running" /\ AbsTc = tc /\ AbsSig = sig /\ Settled(sig) = sig
  BY <1>1, AbstractState, SettledIsFresh DEF Stands, Inv, AllFresh, TypeOK
<1>3. Settled(sig)' = Settled(sig)
  BY <1>1 DEF Settled, Comps
<1>4. AbsStatus' = "done" /\ AbsTc' = tc' /\ AbsSig' = sig
  BY <1>1, <1>2, <1>3 DEF AbsStatus, AbsTc, AbsSig, MidTick
<1> QED
  BY <1>1, <1>2, <1>4 DEF RTL!Finish, Ticks

\* Every step of the walk is an abstract step or leaves the abstract state.
LEMMA StepRefines == Inv /\ Inv' /\ [Next]_vars => [RTL!Next]_RTL!absVars
<1> SUFFICES ASSUME Inv, Inv', [Next]_vars PROVE RTL!Next \/ Stutter
  BY DEF Stutter, RTL!absVars
<1>1. CASE RunInitial \/ Seed \/ NextPart
  BY <1>1, InitialBegins, SeedBegins, NextPartBegins DEF RTL!Next
<1>2. CASE StartTick
  BY <1>2, StartStutters
<1>3. CASE ToggleClock \/ AsyncReset \/ SkipDomain
  <2>1. UNCHANGED <<design, tc, snap, out, count>> /\ MidTick /\ MidTick'
    BY <1>3 DEF ToggleClock, AsyncReset, SkipDomain, MidTick
  <2> QED
    BY <2>1, WithinTick
<1>4. CASE RunDomain \/ SettleComponent
  <2>1. UNCHANGED <<design, tc, snap, out, count>> /\ MidTick /\ (MidTick' \/ pc' = "raised")
    BY <1>4 DEF RunDomain, SettleComponent, MidTick, Goto
  <2> QED
    BY <1>4, <2>1, WithinTick, RaiseTicks DEF RTL!Next
<1>5. CASE Record
  BY <1>5, RecordTicks DEF RTL!Next
<1>6. CASE EndRun
  BY <1>6, EndFinishes DEF RTL!Next
<1>7. CASE Ended \/ UNCHANGED vars
  <2>1. UNCHANGED vars
    BY <1>7 DEF Ended
  <2> QED
    BY <2>1 DEF vars, Stutter, AbsStatus, AbsTc, AbsSig, MidTick, Settled, Comps
<1> QED
  BY <1>1, <1>2, <1>3, <1>4, <1>5, <1>6, <1>7 DEF Next

\* The first state.
LEMMA InitRefines == Init => RTL!Init
BY DEF Init, RTL!Init, AbsStatus, AbsTc, AbsSig, MidTick

\* ImplementsClockedDesign of RunLoopRTL, in runs whose silent ticks leave the
\* components alone: the walk through domains and components, with the signals it
\* notes and the components it passes, has the traces, the tick count and the end
\* of a design that settles every component in every tick.
THEOREM RunLoopImplements == Spec /\ []QuietTicks => ImplementsClockedDesign
<1>1. Spec /\ []QuietTicks => []Inv
  <2>1. Init => Walk
    BY WalkInit
  <2>2. Spec => []Finishing
    BY FinishingInit, FinishingStep, PTL DEF Spec
  <2>3. Spec => []Entries
    BY TypeCorrect, TimingCorrect, EntriesInit, EntriesStep, PTL DEF Spec
  <2>4. Spec /\ []QuietTicks => []Walk
    BY TypeCorrect, TimingCorrect, SettlingIsSelective, FreshBetweenTicks, <2>1, <2>2, <2>3,
       WalkStep, PTL DEF Spec
  <2> QED
    BY TypeCorrect, TimingCorrect, SettlingIsSelective, FreshBetweenTicks, <2>2, <2>3, <2>4, PTL DEF Inv
<1> QED
  BY <1>1, InitRefines, StepRefines, PTL DEF Spec, ImplementsClockedDesign, RTL!Spec

\* The same for quiet designs, in every run of them.
THEOREM QuietDesignsImplement ==
  ASSUME \A D \in Designs : Quiet(D)
  PROVE  Spec => ImplementsClockedDesign
BY QuietDesignsRunQuietly, RunLoopImplements, PTL

=============================================================================
