----------------------- MODULE TestbenchContextProofs -----------------------
(***************************************************************************)
(* Proofs about TestbenchContext, and about the engine that walks the IR   *)
(* as it runs it: for every test, every set of designs, every expression   *)
(* language (Exec, Track) and every number of cycles.                      *)
(***************************************************************************)
EXTENDS TestbenchContext, LoopProofs, SequenceTheorems

-----------------------------------------------------------------------------
\* The states of the engine.

WordsIn(D) ==
  { w \in [1 .. Len(D.mems) -> UNION { WordsOf(D.mems[m]) : m \in 1 .. Len(D.mems) }] :
      WordsOK(D.mems, w) }

State(D) ==
  [sig : Valuation, words : WordsIn(D), clock : [Doms(D) -> {0, 1}], tc : Nat,
   moved : SUBSET Signal, due : SUBSET Doms(D), exit : {"ok", "finish", "error"},
   traces : Seq(Valuation)]

Registers(D) == UNION { D.domains[i].written : i \in Doms(D) }
Clocks(D) == { D.domains[i].clk : i \in Doms(D) }
Comp(D) == 1 .. Len(D.comps)

\* What is assumed of a design, in one place.
LEMMA DesignFacts ==
  ASSUME NEW D \in Designs
  PROVE  /\ Len(D.domains) \in Nat \ {0} /\ Len(D.comps) \in Nat /\ Len(D.order) \in Nat
         /\ D.init \in Valuation /\ BlockTotal(D.initial)
         /\ \A i \in Doms(D) :
              /\ DomainOK(D.domains[i]) /\ Tracks(D.domains[i].block)
              /\ D.domains[i].written \subseteq Registers(D)
         /\ \A c \in Comp(D) : ComponentOK(D.comps[c]) /\ Tracks(D.comps[c].block)
         /\ \A k \in 1 .. Len(D.order) : Tracks(D.order[k])
         /\ MemoriesOK(D.mems) /\ ComponentsOK(D) /\ OrderOK(D)
<1>1. DesignOK(D) /\ EngineOK(D)
  BY DesignAssumption, EngineAssumption
<1> QED
  BY <1>1 DEF DesignOK, EngineOK, OrderOK, Doms, Comp, Registers

LEMMA TrackedParts ==
  ASSUME NEW u \in Tracked
  PROVE  u.sig \in Valuation /\ u.moved \subseteq Signal /\ u.exit \in {"ok", "finish", "error"}
BY DEF Tracked, Valuation

LEMMA StateParts ==
  ASSUME NEW D, NEW t \in State(D)
  PROVE  /\ t.sig \in Valuation /\ t.words \in WordsIn(D) /\ t.clock \in [Doms(D) -> {0, 1}]
         /\ t.tc \in Nat /\ t.moved \subseteq Signal /\ t.due \subseteq Doms(D)
         /\ t.exit \in {"ok", "finish", "error"} /\ t.traces \in Seq(Valuation)
BY DEF State

\* Running one block.
RunsWell(block, u) ==
  LET r == Runs(block)[u]
  IN  /\ r \in Tracked /\ u.moved \subseteq r.moved /\ Differing(r.sig, u.sig) \subseteq r.moved
      /\ u.exit # "ok" => r = u
      /\ u.exit = "ok" => r.sig = Exec(block, u.sig).sig /\ r.exit = Exec(block, u.sig).exit

LEMMA RunsFacts ==
  ASSUME NEW block, Tracks(block), NEW u \in Tracked
  PROVE  RunsWell(block, u)
<1> DEFINE r == Track(block, u.sig)
<1>1. u.sig \in Valuation /\ u.moved \subseteq Signal
  BY TrackedParts
<1>2. r \in Tracked /\ [sig |-> r.sig, exit |-> r.exit] = Exec(block, u.sig)
      /\ Differing(r.sig, u.sig) \subseteq r.moved
  BY <1>1 DEF Tracks
<1> HIDE DEF r
<1>3. r.sig = Exec(block, u.sig).sig /\ r.exit = Exec(block, u.sig).exit
  <2>1. [sig |-> r.sig, exit |-> r.exit].sig = r.sig /\ [sig |-> r.sig, exit |-> r.exit].exit = r.exit
    OBVIOUS
  <2> QED
    BY <1>2, <2>1
<1>4. CASE u.exit # "ok"
  <2>1. Runs(block)[u] = u
    BY <1>4 DEF Runs
  <2> QED
    BY <1>4, <2>1 DEF RunsWell, Differing
<1>5. CASE u.exit = "ok"
  <2>1. Runs(block)[u] = [r EXCEPT !.moved = @ \cup u.moved]
    BY <1>5 DEF Runs, r
  <2>2. /\ [r EXCEPT !.moved = @ \cup u.moved] \in Tracked
        /\ [r EXCEPT !.moved = @ \cup u.moved].sig = r.sig
        /\ [r EXCEPT !.moved = @ \cup u.moved].exit = r.exit
        /\ [r EXCEPT !.moved = @ \cup u.moved].moved = r.moved \cup u.moved
    BY <1>1, <1>2 DEF Tracked
  <2> QED
    BY <1>2, <1>3, <1>5, <2>1, <2>2 DEF RunsWell
<1> QED
  BY <1>4, <1>5

\* Its function is one on tracked outcomes.
LEMMA RunsType ==
  ASSUME NEW block, Tracks(block)
  PROVE  Runs(block) \in [Tracked -> Tracked]
<1>1. \A u \in Tracked : Runs(block)[u] \in Tracked
  BY RunsFacts DEF RunsWell
<1> QED
  BY <1>1 DEF Runs

-----------------------------------------------------------------------------
\* A loop over blocks.

Part(t) == [sig |-> t.sig, moved |-> t.moved, exit |-> t.exit]

\* Nothing else of the state has changed.
OnlyPart(t, U) ==
  /\ U.words = t.words /\ U.clock = t.clock /\ U.tc = t.tc /\ U.due = t.due
  /\ U.traces = t.traces

LEMMA AfterKeeps ==
  ASSUME NEW D, NEW t \in State(D), NEW n \in Nat, NEW steps, Len(steps) = n,
         NEW B \in SUBSET Tracked, Part(t) \in B,
         \A k \in 1 .. n : steps[k] \in [Tracked -> Tracked] /\ \A b \in B : steps[k][b] \in B
  PROVE  /\ After(steps, t) \in State(D) /\ OnlyPart(t, After(steps, t))
         /\ Part(After(steps, t)) \in B
         /\ Part(After(steps, t)) = Through(steps, Part(t))
<1> DEFINE u == Through(steps, Part(t))
<1>1. u \in B
  BY ThroughKeeps
<1>2. After(steps, t) = [t EXCEPT !.sig = u.sig, !.moved = u.moved, !.exit = u.exit]
  BY DEF After, Part
<1> HIDE DEF u
<1>3. u.sig \in Valuation /\ u.moved \subseteq Signal /\ u.exit \in {"ok", "finish", "error"}
  BY <1>1, TrackedParts
<1>4. After(steps, t) \in State(D) /\ OnlyPart(t, After(steps, t))
  BY <1>2, <1>3 DEF State, OnlyPart
<1>5. Part(After(steps, t)) = [sig |-> u.sig, moved |-> u.moved, exit |-> u.exit]
  BY <1>2 DEF State, Part
<1>6. u = [sig |-> u.sig, moved |-> u.moved, exit |-> u.exit]
  BY <1>1 DEF Tracked
<1> QED
  BY <1>1, <1>4, <1>5, <1>6 DEF u

-----------------------------------------------------------------------------
\* The parts of a tick.

\* What moved since S is noted.
Noted(S, u) == Differing(u.sig, S) \subseteq u.moved

\* A step that notes what it moves.
Moves(u, r) == u.moved \subseteq r.moved /\ Differing(r.sig, u.sig) \subseteq r.moved

LEMMA MovesNoted ==
  ASSUME NEW S, NEW u, NEW r, Noted(S, u), Moves(u, r)
  PROVE  Noted(S, r)
BY DEF Noted, Moves, Differing

\* A reset sets registers of its domain, to values of their kind.
LEMMA ResetFacts ==
  ASSUME NEW D \in Designs, NEW i \in Doms(D), NEW S \in Valuation
  PROVE  /\ ApplyReset(D.domains[i], D.init, S) \in Valuation
         /\ \A s \in Signal \ D.domains[i].written : ApplyReset(D.domains[i], D.init, S)[s] = S[s]
BY DesignFacts DEF ApplyReset, Valuation

\* A domain's turn.
RunsDomainWell(D, due, i, u) ==
  LET r == RunsDomain(D, due, i)[u]
  IN  r \in Tracked /\ Moves(u, r) /\ \A s \in Signal \ Registers(D) : r.sig[s] = u.sig[s]

LEMMA RunsDomainFacts ==
  ASSUME NEW D \in Designs, NEW due, NEW i \in Doms(D), NEW u \in Tracked
  PROVE  RunsDomainWell(D, due, i, u)
<1> DEFINE d == D.domains[i]
           r == RunsDomain(D, due, i)[u]
           resets == d.style = "sync" /\ Active(d, u.sig)
<1>1. /\ u.sig \in Valuation /\ u.moved \subseteq Signal
      /\ DomainOK(d) /\ Tracks(d.block) /\ d.written \subseteq Registers(D)
  BY TrackedParts, DesignFacts
<1>2. r = IF i \notin due \/ u.exit # "ok" THEN u
          ELSE IF resets THEN ResetDomain(D, i, u) ELSE Runs(d.block)[u]
  BY DEF RunsDomain
<1>3. CASE i \notin due \/ u.exit # "ok"
  <2>1. r = u
    BY <1>2, <1>3
  <2> HIDE DEF r
  <2>2. r \in Tracked /\ Moves(u, r) /\ \A s \in Signal \ Registers(D) : r.sig[s] = u.sig[s]
    BY <2>1 DEF Moves, Differing
  <2> QED
    BY <2>2 DEF RunsDomainWell, r
<1>4. CASE i \in due /\ u.exit = "ok" /\ resets
  <2> DEFINE S == ApplyReset(d, D.init, u.sig)
  <2>1. S \in Valuation /\ \A s \in Signal \ d.written : S[s] = u.sig[s]
    BY <1>1, ResetFacts
  <2>2. r = [u EXCEPT !.sig = S, !.moved = @ \cup Differing(S, u.sig)]
    BY <1>2, <1>4 DEF ResetDomain
  <2> HIDE DEF S, r
  <2>3. r.sig = S /\ r.moved = u.moved \cup Differing(S, u.sig) /\ r.exit = u.exit
    BY <2>2 DEF Tracked
  <2>4. r \in Tracked
    BY <1>1, <2>1, <2>2 DEF Tracked, Valuation, Differing
  <2>5. r \in Tracked /\ Moves(u, r) /\ \A s \in Signal \ Registers(D) : r.sig[s] = u.sig[s]
    BY <1>1, <2>1, <2>3, <2>4 DEF Moves
  <2> QED
    BY <2>5 DEF RunsDomainWell, r
<1>5. CASE i \in due /\ u.exit = "ok" /\ ~resets
  <2>1. r = Runs(d.block)[u]
    BY <1>2, <1>5
  <2>2. RunsWell(d.block, u)
    BY <1>1, RunsFacts
  <2>3. r \in Tracked /\ Moves(u, r) /\ r.sig = Exec(d.block, u.sig).sig
    BY <1>5, <2>1, <2>2 DEF RunsWell, Moves
  <2>4. \A s \in Signal \ d.written : Exec(d.block, u.sig).sig[s] = u.sig[s]
    BY <1>1 DEF DomainOK, WritesOnly
  <2> HIDE DEF r, d
  <2>5. r \in Tracked /\ Moves(u, r) /\ \A s \in Signal \ Registers(D) : r.sig[s] = u.sig[s]
    BY <1>1, <2>3, <2>4
  <2> QED
    BY <2>5 DEF RunsDomainWell, r
<1> HIDE DEF resets
<1> QED
  BY <1>3, <1>4, <1>5

\* What the sequential blocks leave: they write registers, and what they move is noted.
LEMMA RunDomainsFacts ==
  ASSUME NEW D \in Designs, NEW t \in State(D), NEW S, Noted(S, t)
  PROVE  /\ RunDomains(D, t) \in State(D) /\ OnlyPart(t, RunDomains(D, t))
         /\ Noted(S, RunDomains(D, t))
         /\ \A s \in Signal \ Registers(D) : RunDomains(D, t).sig[s] = t.sig[s]
<1> DEFINE B == { u \in Tracked : Noted(S, u) /\ \A s \in Signal \ Registers(D) : u.sig[s] = t.sig[s] }
           steps == [i \in Doms(D) |-> RunsDomain(D, t.due, i)]
           n == Len(D.domains)
           U == RunDomains(D, t)
<1>1. n \in Nat /\ Doms(D) = 1 .. n
  BY DesignFacts DEF Doms
<1>2. ASSUME NEW i \in Doms(D), NEW u \in Tracked
      PROVE  /\ steps[i][u] \in Tracked
             /\ u \in B => steps[i][u] \in B
  <2> DEFINE r == RunsDomain(D, t.due, i)[u]
  <2>1. steps[i][u] = r
    OBVIOUS
  <2>2. r \in Tracked /\ Moves(u, r) /\ \A s \in Signal \ Registers(D) : r.sig[s] = u.sig[s]
    BY RunsDomainFacts DEF RunsDomainWell
  <2> HIDE DEF r, steps
  <2>3. u \in B => Noted(S, r)
    BY <2>2, MovesNoted
  <2> QED
    BY <2>1, <2>2, <2>3
<1>3. steps \in [1 .. n -> [Tracked -> Tracked]]
  BY <1>1, <1>2 DEF RunsDomain
<1>4. Part(t) \in B
  BY StateParts DEF Part, Tracked, Valuation, Noted
<1>5. U = After(steps, t)
  BY DEF RunDomains
<1>6. B \in SUBSET Tracked /\ \A k \in 1 .. n : steps[k] \in [Tracked -> Tracked] /\ \A b \in B : steps[k][b] \in B
  BY <1>1, <1>2, <1>3
<1> HIDE DEF B, steps, n, U
<1>7. Len(steps) = n
  BY <1>1, <1>3, LengthOf
<1>8. After(steps, t) \in State(D) /\ OnlyPart(t, After(steps, t)) /\ Part(After(steps, t)) \in B
  BY <1>1, <1>4, <1>6, <1>7, AfterKeeps
<1>9. U \in State(D) /\ OnlyPart(t, U) /\ Noted(S, Part(U)) /\ \A s \in Signal \ Registers(D) : Part(U).sig[s] = t.sig[s]
  BY <1>5, <1>8 DEF B
<1>10. Part(U).sig = U.sig /\ Part(U).moved = U.moved
  BY DEF Part
<1>11. Noted(S, U)
  BY <1>9, <1>10 DEF Noted
<1> QED
  BY <1>9, <1>10, <1>11 DEF U

\* A clock's turn.
TogglesWell(D, tc, i, u) ==
  LET r == Toggles(D, tc, i)[u]
  IN  /\ r \in Clocking(D) /\ Moves(u, r) /\ u.due \subseteq r.due
      /\ \A s \in Differing(r.sig, u.sig) :
           s = D.domains[i].clk /\ (D.domains[i].edge = "both" => i \in r.due)

LEMMA TogglesFacts ==
  ASSUME NEW D \in Designs, NEW tc, NEW i \in Doms(D), NEW u \in Clocking(D)
  PROVE  TogglesWell(D, tc, i, u)
<1> DEFINE d == D.domains[i]
           level == 1 - u.clock[i]
           r == Toggles(D, tc, i)[u]
           T == [u.sig EXCEPT ![d.clk] = LevelValue(level)]
           C == [u.clock EXCEPT ![i] = level]
           M == u.moved \cup (IF u.sig[d.clk] = LevelValue(level) THEN {} ELSE {d.clk})
           F == u.due \cup (IF EdgeFires(d.edge, level) THEN {i} ELSE {})
           idle == tc % d.hpt # 0
<1>1. /\ u.sig \in Valuation /\ u.clock \in [Doms(D) -> {0, 1}] /\ u.moved \subseteq Signal
      /\ u.due \subseteq Doms(D)
  BY DEF Clocking, Valuation
<1>2. d.clk \in Signal
  BY DesignFacts DEF DomainOK
<1>3. r = IF idle THEN u ELSE [sig |-> T, clock |-> C, moved |-> M, due |-> F]
  BY DEF Toggles
<1>4. level \in {0, 1} /\ LevelValue(level) \in Value
  BY <1>1, EngineAssumption
<1> HIDE DEF level, r, idle
<1>5. CASE idle
  <2>1. r = u
    BY <1>3, <1>5
  <2>2. /\ r \in Clocking(D) /\ Moves(u, r) /\ u.due \subseteq r.due
        /\ \A s \in Differing(r.sig, u.sig) : s = d.clk /\ (d.edge = "both" => i \in r.due)
    BY <2>1 DEF Moves, Differing
  <2> QED
    BY <2>2 DEF TogglesWell, r
<1>6. CASE ~idle
  <2>1. r = [sig |-> T, clock |-> C, moved |-> M, due |-> F]
    BY <1>3, <1>6
  <2>2. T \in Valuation /\ T[d.clk] = LevelValue(level) /\ \A s \in Signal \ {d.clk} : T[s] = u.sig[s]
    BY <1>1, <1>2, <1>4 DEF Valuation
  <2>3. C \in [Doms(D) -> {0, 1}]
    BY <1>1, <1>4
  <2>4. M \subseteq Signal /\ F \subseteq Doms(D)
    BY <1>1, <1>2
  <2>5. Differing(T, u.sig) \subseteq {d.clk} /\ Differing(T, u.sig) \subseteq M
    BY <2>2 DEF Differing
  <2>6. d.edge = "both" => i \in F
    BY DEF EdgeFires
  <2>7. u.moved \subseteq M /\ u.due \subseteq F
    OBVIOUS
  <2> HIDE DEF T, C, M, F
  <2>8. r \in Clocking(D) /\ r.sig = T /\ r.clock = C /\ r.moved = M /\ r.due = F
    BY <2>1, <2>2, <2>3, <2>4 DEF Clocking, Valuation
  <2>9. /\ r \in Clocking(D) /\ Moves(u, r) /\ u.due \subseteq r.due
        /\ \A s \in Differing(r.sig, u.sig) : s = d.clk /\ (d.edge = "both" => i \in r.due)
    BY <2>5, <2>6, <2>7, <2>8 DEF Moves
  <2> QED
    BY <2>9 DEF TogglesWell, r
<1> QED
  BY <1>5, <1>6

\* Nothing but the clocks and what fires has changed.
OnlyClocks(t, U) == U.words = t.words /\ U.tc = t.tc /\ U.exit = t.exit /\ U.traces = t.traces

ClockPart(t) == [sig |-> t.sig, clock |-> t.clock, moved |-> t.moved, due |-> t.due]

\* The loop over the clocks.
LEMMA ToggleLoop ==
  ASSUME NEW D \in Designs, NEW t \in State(D)
  PROVE  LET steps == [i \in Doms(D) |-> Toggles(D, t.tc, i)]
             u == Through(steps, ClockPart(t))
             U == Toggle(D, t)
         IN  /\ Len(steps) = Len(D.domains) /\ Len(D.domains) \in Nat
             /\ \A i \in 1 .. Len(D.domains) : steps[i] \in [Clocking(D) -> Clocking(D)]
             /\ ClockPart(t) \in Clocking(D)
             /\ u \in Clocking(D) =>
                  /\ U \in State(D) /\ OnlyClocks(t, U)
                  /\ U.sig = u.sig /\ U.clock = u.clock /\ U.moved = u.moved /\ U.due = u.due
<1> DEFINE steps == [i \in Doms(D) |-> Toggles(D, t.tc, i)]
           u == Through(steps, ClockPart(t))
           n == Len(D.domains)
<1>1. n \in Nat /\ Doms(D) = 1 .. n
  BY DesignFacts DEF Doms
<1>2. \A i \in Doms(D), v \in Clocking(D) : Toggles(D, t.tc, i)[v] \in Clocking(D)
  BY TogglesFacts DEF TogglesWell
<1>3. \A i \in Doms(D) : Toggles(D, t.tc, i) \in [Clocking(D) -> Clocking(D)]
  BY <1>2 DEF Toggles
<1>4. steps \in [1 .. n -> [Clocking(D) -> Clocking(D)]]
  BY <1>1, <1>3
<1>5. ClockPart(t) \in Clocking(D)
  BY StateParts DEF ClockPart, Clocking, Valuation
<1>6. Toggle(D, t) = [t EXCEPT !.sig = u.sig, !.clock = u.clock, !.moved = u.moved, !.due = u.due]
  BY DEF Toggle, ClockPart
<1> HIDE DEF steps, u, n
<1>7. Len(steps) = n
  BY <1>1, <1>4, LengthOf
<1>8. ASSUME u \in Clocking(D)
      PROVE  /\ Toggle(D, t) \in State(D) /\ OnlyClocks(t, Toggle(D, t))
             /\ Toggle(D, t).sig = u.sig /\ Toggle(D, t).clock = u.clock
             /\ Toggle(D, t).moved = u.moved /\ Toggle(D, t).due = u.due
  <2>1. /\ u.sig \in Valuation /\ u.clock \in [Doms(D) -> {0, 1}] /\ u.moved \subseteq Signal
        /\ u.due \subseteq Doms(D)
    BY <1>8 DEF Clocking, Valuation
  <2> QED
    BY <1>6, <2>1 DEF State, OnlyClocks
<1> QED
  BY <1>1, <1>4, <1>5, <1>7, <1>8 DEF steps, u, n

\* What toggling moves is the signals of clocks, and a domain of both edges fires
\* when its own moves.
LEMMA ToggleFacts ==
  ASSUME NEW D \in Designs, NEW t \in State(D), NEW S, Noted(S, t)
  PROVE  /\ Toggle(D, t) \in State(D) /\ OnlyClocks(t, Toggle(D, t)) /\ Noted(S, Toggle(D, t))
         /\ \A s \in Differing(Toggle(D, t).sig, t.sig) :
              \E i \in Doms(D) :
                s = D.domains[i].clk /\ (D.domains[i].edge = "both" => i \in Toggle(D, t).due)
<1> DEFINE A == Clocking(D)
           B == { u \in A :
                    /\ Noted(S, u)
                    /\ \A s \in Differing(u.sig, t.sig) :
                         \E i \in Doms(D) :
                           s = D.domains[i].clk /\ (D.domains[i].edge = "both" => i \in u.due) }
           steps == [i \in Doms(D) |-> Toggles(D, t.tc, i)]
           v == Through(steps, ClockPart(t))
           n == Len(D.domains)
           U == Toggle(D, t)
<1>1. /\ Len(steps) = n /\ n \in Nat
      /\ \A i \in 1 .. n : steps[i] \in [A -> A]
      /\ ClockPart(t) \in A
      /\ v \in A =>
           /\ U \in State(D) /\ OnlyClocks(t, U)
           /\ U.sig = v.sig /\ U.clock = v.clock /\ U.moved = v.moved /\ U.due = v.due
  BY ToggleLoop
<1>2. ASSUME NEW i \in 1 .. n, NEW u \in B PROVE steps[i][u] \in B
  <2> DEFINE r == Toggles(D, t.tc, i)[u]
  <2>1. steps[i][u] = r /\ i \in Doms(D)
    BY DEF Doms
  <2>2. /\ r \in A /\ Moves(u, r) /\ u.due \subseteq r.due
        /\ \A s \in Differing(r.sig, u.sig) :
             s = D.domains[i].clk /\ (D.domains[i].edge = "both" => i \in r.due)
    BY <2>1, TogglesFacts DEF TogglesWell
  <2> HIDE DEF r, steps
  <2>3. Noted(S, r)
    BY <2>2, MovesNoted
  <2>4. ASSUME NEW s \in Differing(r.sig, t.sig)
        PROVE  \E j \in Doms(D) :
                 s = D.domains[j].clk /\ (D.domains[j].edge = "both" => j \in r.due)
    <3>1. CASE s \in Differing(r.sig, u.sig)
      BY <2>1, <2>2, <3>1
    <3>2. CASE s \in Differing(u.sig, t.sig)
      <4>1. PICK j \in Doms(D) : s = D.domains[j].clk /\ (D.domains[j].edge = "both" => j \in u.due)
        BY <3>2
      <4> QED
        BY <2>2, <4>1
    <3> QED
      BY <3>1, <3>2 DEF Differing
  <2> QED
    BY <2>1, <2>2, <2>3, <2>4
<1>3. ClockPart(t) \in B
  BY <1>1 DEF ClockPart, Noted, Differing
<1>4. B \in SUBSET A
  OBVIOUS
<1> HIDE DEF A, B, steps, v, n, U
<1>5. Through(steps, ClockPart(t)) \in B
  BY <1>1, <1>2, <1>3, <1>4, ThroughKeeps
<1>6. v \in B /\ v \in A
  BY <1>4, <1>5 DEF v
<1>7. Noted(S, U)
  BY <1>1, <1>6 DEF B, Noted
<1>8. \A s \in Differing(U.sig, t.sig) :
        \E i \in Doms(D) : s = D.domains[i].clk /\ (D.domains[i].edge = "both" => i \in U.due)
  BY <1>1, <1>6 DEF B
<1> QED
  BY <1>1, <1>6, <1>7, <1>8 DEF U

\* An asynchronous reset, if it is active.
HoldsWell(D, i, u) ==
  LET r == Holds(D, i)[u]
  IN  /\ r \in Resetting(D) /\ Moves(u, r) /\ r.due \subseteq u.due
      /\ \A s \in Differing(r.sig, u.sig) :
           D.domains[i].style = "async" /\ s \in D.domains[i].written
      /\ \A j \in u.due : D.domains[j].style # "async" => j \in r.due

LEMMA HoldsFacts ==
  ASSUME NEW D \in Designs, NEW i \in Doms(D), NEW u \in Resetting(D)
  PROVE  HoldsWell(D, i, u)
<1> DEFINE d == D.domains[i]
           r == Holds(D, i)[u]
           T == ApplyReset(d, D.init, u.sig)
           on == d.style = "async" /\ Active(d, u.sig)
<1>1. u.sig \in Valuation /\ u.moved \subseteq Signal /\ u.due \subseteq Doms(D)
  BY DEF Resetting, Valuation
<1>2. T \in Valuation /\ \A s \in Signal \ d.written : T[s] = u.sig[s]
  BY <1>1, ResetFacts
<1>3. r = IF on THEN [[u EXCEPT !.sig = T, !.moved = @ \cup Differing(T, u.sig)] EXCEPT !.due = @ \ {i}]
          ELSE u
  BY DEF Holds, ResetDomain
<1>4. on => d.style = "async"
  OBVIOUS
<1> HIDE DEF r, T, on
<1>5. CASE on
  <2>1. r = [[u EXCEPT !.sig = T, !.moved = @ \cup Differing(T, u.sig)] EXCEPT !.due = @ \ {i}]
    BY <1>3, <1>5
  <2>2. r.sig = T /\ r.moved = u.moved \cup Differing(T, u.sig) /\ r.due = u.due \ {i}
    BY <2>1 DEF Resetting
  <2>3. r \in Resetting(D)
    BY <1>1, <1>2, <2>1 DEF Resetting, Valuation, Differing
  <2>4. /\ r \in Resetting(D) /\ Moves(u, r) /\ r.due \subseteq u.due
        /\ \A s \in Differing(r.sig, u.sig) : d.style = "async" /\ s \in d.written
        /\ \A j \in u.due : D.domains[j].style # "async" => j \in r.due
    BY <1>2, <1>4, <1>5, <2>2, <2>3 DEF Moves, Differing
  <2> QED
    BY <2>4 DEF HoldsWell, r
<1>6. CASE ~on
  <2>1. r = u
    BY <1>3, <1>6
  <2>2. /\ r \in Resetting(D) /\ Moves(u, r) /\ r.due \subseteq u.due
        /\ \A s \in Differing(r.sig, u.sig) : d.style = "async" /\ s \in d.written
        /\ \A j \in u.due : D.domains[j].style # "async" => j \in r.due
    BY <2>1 DEF Moves, Differing
  <2> QED
    BY <2>2 DEF HoldsWell, r
<1> QED
  BY <1>5, <1>6

ResetPart(t) == [sig |-> t.sig, moved |-> t.moved, due |-> t.due]

\* Nothing but what resets change has changed.
OnlyResets(t, U) == OnlyClocks(t, U) /\ U.clock = t.clock

\* Asynchronous resets move registers of their domains, and hold those only.
LEMMA AsyncFacts ==
  ASSUME NEW D \in Designs, NEW t \in State(D), NEW S, Noted(S, t)
  PROVE  LET U == AsyncResets(D, t)
         IN  /\ U \in State(D) /\ OnlyResets(t, U) /\ Noted(S, U) /\ U.due \subseteq t.due
             /\ \A s \in Differing(U.sig, t.sig) :
                  \E i \in Doms(D) : D.domains[i].style = "async" /\ s \in D.domains[i].written
             /\ \A i \in t.due : D.domains[i].style # "async" => i \in U.due
<1> DEFINE A == Resetting(D)
           B == { u \in A :
                    /\ Noted(S, u) /\ u.due \subseteq t.due
                    /\ \A s \in Differing(u.sig, t.sig) :
                         \E i \in Doms(D) : D.domains[i].style = "async" /\ s \in D.domains[i].written
                    /\ \A i \in t.due : D.domains[i].style # "async" => i \in u.due }
           steps == [i \in Doms(D) |-> Holds(D, i)]
           v == Through(steps, ResetPart(t))
           n == Len(D.domains)
           U == AsyncResets(D, t)
<1>1. n \in Nat /\ Doms(D) = 1 .. n
  BY DesignFacts DEF Doms
<1>2. \A i \in Doms(D), u \in A : Holds(D, i)[u] \in A
  BY HoldsFacts DEF HoldsWell
<1>3. \A i \in Doms(D) : Holds(D, i) \in [A -> A]
  BY <1>2 DEF Holds
<1>4. steps \in [1 .. n -> [A -> A]]
  BY <1>1, <1>3
<1>5. ASSUME NEW i \in 1 .. n, NEW u \in B PROVE steps[i][u] \in B
  <2> DEFINE r == Holds(D, i)[u]
  <2>1. steps[i][u] = r /\ i \in Doms(D)
    BY <1>1
  <2>2. /\ r \in A /\ Moves(u, r) /\ r.due \subseteq u.due
        /\ \A s \in Differing(r.sig, u.sig) :
             D.domains[i].style = "async" /\ s \in D.domains[i].written
        /\ \A j \in u.due : D.domains[j].style # "async" => j \in r.due
    BY <2>1, HoldsFacts DEF HoldsWell
  <2> HIDE DEF r, steps
  <2>3. Noted(S, r)
    BY <2>2, MovesNoted
  <2>4. ASSUME NEW s \in Differing(r.sig, t.sig)
        PROVE  \E j \in Doms(D) : D.domains[j].style = "async" /\ s \in D.domains[j].written
    <3>1. CASE s \in Differing(r.sig, u.sig)
      BY <2>1, <2>2, <3>1
    <3>2. CASE s \in Differing(u.sig, t.sig)
      BY <3>2
    <3> QED
      BY <3>1, <3>2 DEF Differing
  <2> QED
    BY <2>1, <2>2, <2>3, <2>4
<1>6. ResetPart(t) \in B
  BY StateParts DEF ResetPart, Resetting, Valuation, Noted, Differing
<1>7. U = [t EXCEPT !.sig = v.sig, !.moved = v.moved, !.due = v.due]
  BY DEF AsyncResets, ResetPart
<1>8. B \in SUBSET A
  OBVIOUS
<1> HIDE DEF A, B, steps, v, n, U
<1>9. Len(steps) = n
  BY <1>1, <1>4, LengthOf
<1>10. \A i \in 1 .. n : steps[i] \in [A -> A]
  BY <1>4
<1>11. Through(steps, ResetPart(t)) \in B
  BY <1>1, <1>5, <1>6, <1>8, <1>9, <1>10, ThroughKeeps
<1>12. v \in B
  BY <1>11 DEF v
<1>13. v.sig \in Valuation /\ v.moved \subseteq Signal /\ v.due \subseteq Doms(D)
  BY <1>8, <1>12 DEF A, Resetting, Valuation
<1>14. U \in State(D) /\ OnlyResets(t, U)
  BY <1>7, <1>13 DEF State, OnlyResets, OnlyClocks
<1>15. U.sig = v.sig /\ U.moved = v.moved /\ U.due = v.due
  BY <1>7 DEF State
<1>16. Noted(S, U)
  BY <1>12, <1>15 DEF B, Noted
<1>17. /\ \A s \in Differing(U.sig, t.sig) :
            \E i \in Doms(D) : D.domains[i].style = "async" /\ s \in D.domains[i].written
       /\ \A i \in t.due : D.domains[i].style # "async" => i \in U.due
       /\ U.due \subseteq t.due
  BY <1>12, <1>15 DEF B
<1> QED
  BY <1>14, <1>16, <1>17 DEF U

\* Settling chosen components: what they move is noted.
LEMMA SettlesFacts ==
  ASSUME NEW D \in Designs, NEW set, NEW c \in Comp(D), NEW u \in Tracked
  PROVE  /\ Settles(D, set, c)[u] \in Tracked
         /\ D.comps[c].signals \cap set = {} => Settles(D, set, c)[u] = u
         /\ D.comps[c].signals \cap set # {} => Settles(D, set, c)[u] = Runs(D.comps[c].block)[u]
<1>1. RunsWell(D.comps[c].block, u)
  BY DesignFacts, RunsFacts
<1>2. Settles(D, set, c)[u] =
        IF D.comps[c].signals \cap set = {} THEN u ELSE Runs(D.comps[c].block)[u]
  BY DEF Settles
<1> QED
  BY <1>1, <1>2 DEF RunsWell

Settling(D, set) == [c \in Comp(D) |-> Settles(D, set, c)]

LEMMA SettleFromFacts ==
  ASSUME NEW D \in Designs, NEW t \in State(D), NEW set
  PROVE  /\ Len(D.comps) \in Nat /\ Len(Settling(D, set)) = Len(D.comps)
         /\ \A c \in 1 .. Len(D.comps) : Settling(D, set)[c] \in [Tracked -> Tracked]
         /\ Part(t) \in Tracked
         /\ Part(SettleFrom(D, t, set)) = Through(Settling(D, set), Part(t))
         /\ SettleFrom(D, t, set) \in State(D) /\ OnlyPart(t, SettleFrom(D, t, set))
<1> DEFINE steps == Settling(D, set)
           n == Len(D.comps)
<1>1. n \in Nat /\ Comp(D) = 1 .. n
  BY DesignFacts DEF Comp
<1>2. \A c \in Comp(D) : Settles(D, set, c) \in [Tracked -> Tracked]
  BY SettlesFacts DEF Settles
<1>3. steps \in [1 .. n -> [Tracked -> Tracked]]
  BY <1>1, <1>2 DEF Settling
<1>4. Part(t) \in Tracked
  BY StateParts DEF Part, Tracked, Valuation
<1>5. SettleFrom(D, t, set) = After(steps, t)
  BY DEF SettleFrom, Settling, Comp
<1>6. \A c \in 1 .. n : steps[c] \in [Tracked -> Tracked] /\ \A u \in Tracked : steps[c][u] \in Tracked
  BY <1>3
<1> HIDE DEF steps, n
<1>7. Len(steps) = n
  BY <1>1, <1>3, LengthOf
<1>8. Tracked \in SUBSET Tracked
  OBVIOUS
<1>9. /\ After(steps, t) \in State(D) /\ OnlyPart(t, After(steps, t))
      /\ Part(After(steps, t)) = Through(steps, Part(t))
  BY <1>1, <1>4, <1>6, <1>7, <1>8, AfterKeeps
<1> QED
  BY <1>1, <1>4, <1>5, <1>6, <1>7, <1>9 DEF steps, n

\* Words as the ports leave them.
LEMMA WordsFacts ==
  ASSUME NEW D \in Designs
  PROVE  /\ InitWords(D.mems) \in WordsIn(D)
         /\ \A w \in WordsIn(D), S \in Valuation : \A names :
              MemWrites(D.mems, w, S, names) \in WordsIn(D)
<1> DEFINE n == Len(D.mems)
           W == UNION { WordsOf(D.mems[m]) : m \in 1 .. n }
<1>1. MemoriesOK(D.mems)
  BY DesignFacts
<1>2. ASSUME NEW w, DOMAIN w = 1 .. n, w = [m \in 1 .. n |-> w[m]], WordsOK(D.mems, w)
      PROVE  w \in WordsIn(D)
  <2>1. \A m \in 1 .. n : w[m] \in W
    BY <1>2 DEF WordsOK
  <2> HIDE DEF W
  <2>2. w \in [1 .. n -> W]
    BY <1>2, <2>1
  <2> QED
    BY <1>2, <2>2 DEF WordsIn, W
<1>3. InitWords(D.mems) \in WordsIn(D)
  <2>1. WordsOK(D.mems, InitWords(D.mems))
    BY <1>1 DEF WordsOK, InitWords, MemoriesOK, MemoryOK
  <2>2. InitWords(D.mems) = [m \in 1 .. n |-> InitWords(D.mems)[m]] /\ DOMAIN InitWords(D.mems) = 1 .. n
    BY DEF InitWords
  <2> QED
    BY <1>2, <2>1, <2>2
<1>4. ASSUME NEW w \in WordsIn(D), NEW S \in Valuation, NEW names
      PROVE  MemWrites(D.mems, w, S, names) \in WordsIn(D)
  <2>1. WordsOK(D.mems, w)
    BY DEF WordsIn
  <2>2. WordsOK(D.mems, MemWrites(D.mems, w, S, names))
    BY <1>1, <2>1, MemWritesFacts
  <2> DEFINE v == MemWrites(D.mems, w, S, names)
  <2>3. v = [m \in 1 .. n |-> v[m]] /\ DOMAIN v = 1 .. n
    BY DEF MemWrites
  <2> QED
    BY <1>2, <2>2, <2>3
<1> QED
  BY <1>3, <1>4

\* The memory ports; a design without memories is left as it is.
LEMMA PortsFacts ==
  ASSUME NEW D \in Designs, NEW t \in State(D)
  PROVE  LET U == MemoryPorts(D, t)
         IN  /\ U \in State(D)
             /\ U.clock = t.clock /\ U.tc = t.tc /\ U.due = t.due /\ U.exit = t.exit
             /\ U.traces = t.traces
             /\ t.exit # "ok" \/ D.mems = << >> => U.sig = t.sig /\ U.moved = t.moved
<1> DEFINE names == { D.domains[i].name : i \in t.due }
           w == MemWrites(D.mems, t.words, t.sig, names)
           S == MemReads(D.mems, w, t.sig, names)
           U == MemoryPorts(D, t)
<1>1. t.sig \in Valuation /\ t.words \in WordsIn(D) /\ t.moved \subseteq Signal
  BY StateParts
<1>2. w \in WordsIn(D)
  BY <1>1, WordsFacts
<1>3. MemoriesOK(D.mems) /\ WordsOK(D.mems, w)
  BY <1>2, DesignFacts DEF WordsIn
<1>4. U = IF t.exit # "ok" THEN t
          ELSE [t EXCEPT !.words = w, !.sig = S, !.moved = @ \cup Differing(S, t.sig)]
  BY DEF MemoryPorts
<1> HIDE DEF names, w, U
<1>5. S \in Valuation /\ (D.mems = << >> => S = t.sig)
  BY <1>1, <1>3, MemReadsFacts, NothingRead
<1> HIDE DEF S
<1>6. CASE t.exit # "ok"
  BY <1>4, <1>6 DEF U
<1>7. CASE t.exit = "ok"
  <2> DEFINE M == t.moved \cup Differing(S, t.sig)
  <2>1. M \subseteq Signal /\ (S = t.sig => M = t.moved)
    BY <1>1 DEF Differing
  <2>2. U = [t EXCEPT !.words = w, !.sig = S, !.moved = M]
    BY <1>4, <1>7
  <2> HIDE DEF M
  <2>3. U \in State(D)
    BY <1>2, <1>5, <2>1, <2>2 DEF State
  <2>4. /\ U.clock = t.clock /\ U.tc = t.tc /\ U.due = t.due /\ U.exit = t.exit
        /\ U.traces = t.traces /\ U.sig = S /\ U.moved = M
    BY <2>2 DEF State
  <2> QED
    BY <1>5, <1>7, <2>1, <2>3, <2>4 DEF U
<1> QED
  BY <1>6, <1>7

\* A settling in a tick that fired nothing does nothing.
LEMMA SettleFacts ==
  ASSUME NEW D \in Designs, NEW t \in State(D)
  PROVE  /\ Settle(D, t) \in State(D) /\ OnlyPart(t, Settle(D, t))
         /\ t.due = {} => Settle(D, t) = t
         /\ t.due # {} => Settle(D, t) = SettleFrom(D, t, t.moved)
<1>1. Settle(D, t) = IF t.due = {} THEN t ELSE SettleFrom(D, t, t.moved)
  BY DEF Settle
<1>2. SettleFrom(D, t, t.moved) \in State(D) /\ OnlyPart(t, SettleFrom(D, t, t.moved))
  BY SettleFromFacts
<1> QED
  BY <1>1, <1>2 DEF OnlyPart

\* What Emit appends.
LEMMA EmitFacts ==
  ASSUME NEW D \in Designs, NEW t \in State(D)
  PROVE  LET U == Emit(t)
         IN  /\ U \in State(D)
             /\ U.sig = t.sig /\ U.words = t.words /\ U.clock = t.clock /\ U.tc = t.tc
             /\ U.moved = t.moved /\ U.due = t.due /\ U.exit = t.exit
             /\ t.due = {} \/ t.exit = "error" => U.traces = t.traces
             /\ ~(t.due = {} \/ t.exit = "error") => U.traces = Append(t.traces, t.sig)
<1> DEFINE U == Emit(t)
<1>1. U = IF t.due = {} \/ t.exit = "error" THEN t ELSE [t EXCEPT !.traces = Append(t.traces, t.sig)]
  BY DEF Emit
<1>2. Append(t.traces, t.sig) \in Seq(Valuation)
  BY StateParts
<1> HIDE DEF U
<1>3. CASE t.due = {} \/ t.exit = "error"
  BY <1>1, <1>3 DEF U
<1>4. CASE ~(t.due = {} \/ t.exit = "error")
  <2>1. U = [t EXCEPT !.traces = Append(t.traces, t.sig)]
    BY <1>1, <1>4
  <2>2. U \in State(D)
    BY <1>2, <2>1 DEF State
  <2>3. /\ U.sig = t.sig /\ U.words = t.words /\ U.clock = t.clock /\ U.tc = t.tc
        /\ U.moved = t.moved /\ U.due = t.due /\ U.exit = t.exit
        /\ U.traces = Append(t.traces, t.sig)
    BY <2>1 DEF State
  <2> QED
    BY <1>4, <2>2, <2>3 DEF U
<1> QED
  BY <1>3, <1>4

-----------------------------------------------------------------------------
\* Ticks.

LEMMA StartFacts ==
  ASSUME NEW D \in Designs, NEW S \in Valuation
  PROVE  Start(D, S) \in State(D)
<1>1. InitWords(D.mems) \in WordsIn(D)
  BY WordsFacts
<1> QED
  BY <1>1 DEF Start, State

\* The first settling touches the signals, and nothing else; what remains of a
\* $finish or an exception in it is an error.
LEMMA SeedFacts ==
  ASSUME NEW D \in Designs, NEW t \in State(D)
  PROVE  LET v == SettleFrom(D, t, Signal)
             U == Seed(D, t)
         IN  /\ U \in State(D) /\ OnlyPart(t, U)
             /\ v.exit = "ok" => U.exit = "ok"
             /\ v.exit # "ok" => U.exit = "error"
             /\ D.mems = << >> => U.sig = v.sig
<1> DEFINE v == SettleFrom(D, t, Signal)
           R == MemReads(D.mems, t.words, v.sig, {})
           U == Seed(D, t)
<1>1. v \in State(D) /\ OnlyPart(t, v)
  BY SettleFromFacts
<1>2. v.sig \in Valuation /\ t.words \in WordsIn(D) /\ MemoriesOK(D.mems)
  BY <1>1, StateParts, DesignFacts
<1>3. R \in Valuation /\ (D.mems = << >> => R = v.sig)
  BY <1>2, MemReadsFacts, NothingRead DEF WordsIn
<1>4. U = IF v.exit # "ok" THEN [v EXCEPT !.exit = "error"] ELSE [v EXCEPT !.sig = R]
  BY DEF Seed
<1> HIDE DEF v, R, U
<1>5. CASE v.exit # "ok"
  <2>1. U = [v EXCEPT !.exit = "error"]
    BY <1>4, <1>5
  <2> QED
    BY <1>1, <1>5, <2>1 DEF State, OnlyPart, v, U
<1>6. CASE v.exit = "ok"
  <2>1. U = [v EXCEPT !.sig = R]
    BY <1>4, <1>6
  <2> QED
    BY <1>1, <1>3, <1>6, <2>1 DEF State, OnlyPart, v, U
<1> QED
  BY <1>5, <1>6

\* A tick begins: it counts itself, and nothing has moved or fired.
Begun(s) == [s EXCEPT !.tc = @ + 1, !.moved = {}, !.due = {}]

LEMMA BegunFacts ==
  ASSUME NEW D, NEW s \in State(D)
  PROVE  LET u == Begun(s)
         IN  /\ u \in State(D) /\ u.sig = s.sig /\ u.words = s.words /\ u.clock = s.clock
             /\ u.exit = s.exit /\ u.traces = s.traces
             /\ u.tc = s.tc + 1 /\ u.moved = {} /\ u.due = {}
<1>1. s.tc \in Nat /\ s.tc + 1 \in Nat
  BY StateParts
<1>2. Begun(s) = [s EXCEPT !.tc = s.tc + 1, !.moved = {}, !.due = {}]
  BY DEF Begun
<1> DEFINE n == s.tc + 1
<1> HIDE DEF n
<1>3. Begun(s) = [s EXCEPT !.tc = n, !.moved = {}, !.due = {}] /\ n \in Nat
  BY <1>1, <1>2 DEF n
<1>4. Begun(s) \in State(D)
  BY <1>3 DEF State
<1>5. /\ Begun(s).sig = s.sig /\ Begun(s).words = s.words /\ Begun(s).clock = s.clock
      /\ Begun(s).exit = s.exit /\ Begun(s).traces = s.traces
      /\ Begun(s).tc = n /\ Begun(s).moved = {} /\ Begun(s).due = {}
  BY <1>3 DEF State
<1> QED
  BY <1>4, <1>5 DEF n

\* The stages of a tick, each from the one before.
Clocked(D, s) == Toggle(D, Begun(s))
Held(D, s)    == AsyncResets(D, Clocked(D, s))
Ran(D, s)     == RunDomains(D, Held(D, s))
Ported(D, s)  == MemoryPorts(D, Ran(D, s))
Settled(D, s) == Settle(D, Ported(D, s))

LEMMA StageFacts ==
  ASSUME NEW D \in Designs, NEW s \in State(D)
  PROVE  /\ Begun(s) \in State(D) /\ Clocked(D, s) \in State(D) /\ Held(D, s) \in State(D)
         /\ Ran(D, s) \in State(D) /\ Ported(D, s) \in State(D) /\ Settled(D, s) \in State(D)
         /\ Noted(s.sig, Clocked(D, s)) /\ Noted(s.sig, Held(D, s)) /\ Noted(s.sig, Ran(D, s))
<1>1. Begun(s) \in State(D) /\ Noted(s.sig, Begun(s))
  BY BegunFacts DEF Noted, Differing
<1>2. Clocked(D, s) \in State(D) /\ Noted(s.sig, Clocked(D, s))
  BY <1>1, ToggleFacts DEF Clocked
<1>3. Held(D, s) \in State(D) /\ Noted(s.sig, Held(D, s))
  BY <1>2, AsyncFacts DEF Held
<1>4. Ran(D, s) \in State(D) /\ Noted(s.sig, Ran(D, s))
  BY <1>3, RunDomainsFacts DEF Ran
<1>5. Ported(D, s) \in State(D)
  BY <1>4, PortsFacts DEF Ported
<1>6. Settled(D, s) \in State(D)
  BY <1>5, SettleFacts DEF Settled
<1> QED
  BY <1>1, <1>2, <1>3, <1>4, <1>5, <1>6

\* What a tick begins from.
Seeded(D, t) == IF t.tc = 0 THEN Seed(D, t) ELSE t

LEMMA SeqTickFacts ==
  ASSUME NEW D \in Designs, NEW t \in State(D)
  PROVE  /\ Seeded(D, t) \in State(D) /\ OnlyPart(t, Seeded(D, t))
         /\ Seeded(D, t).exit # "ok" => SeqTick(D, t) = Seeded(D, t)
         /\ Seeded(D, t).exit = "ok" => SeqTick(D, t) = Emit(Settled(D, Seeded(D, t)))
         /\ SeqTick(D, t) \in State(D)
<1> DEFINE s == Seeded(D, t)
<1>1. s \in State(D) /\ OnlyPart(t, s)
  BY SeedFacts DEF Seeded, OnlyPart
<1>2. SeqTick(D, t) = IF s.exit # "ok" THEN s ELSE Emit(Settled(D, s))
  BY DEF SeqTick, SeededTick, Seeded, Settled, Ported, Ran, Held, Clocked, Begun
<1>3. Emit(Settled(D, s)) \in State(D)
  BY <1>1, StageFacts, EmitFacts
<1> QED
  BY <1>1, <1>2, <1>3

\* The combinational node.
LEMMA CombTickFacts ==
  ASSUME NEW D \in Designs, NEW t \in State(D)
  PROVE  LET read == [t EXCEPT !.sig = MemReads(D.mems, t.words, t.sig, {})]
             steps == [k \in 1 .. Len(D.order) |-> Runs(D.order[k])]
             u == After(steps, read)
             U == CombTick(D, t)
         IN  /\ read \in State(D) /\ u \in State(D) /\ U \in State(D)
             /\ read.sig \in Valuation /\ (D.mems = << >> => read.sig = t.sig)
             /\ read.words = t.words /\ read.exit = t.exit
             /\ Len(steps) = Len(D.order) /\ Len(D.order) \in Nat
             /\ \A k \in 1 .. Len(D.order) : steps[k] \in [Tracked -> Tracked]
             /\ Part(read) \in Tracked /\ Part(u) = Through(steps, Part(read))
             /\ U.sig = u.sig /\ U.exit = u.exit /\ U.words = t.words
             /\ U.exit = "error" => U.traces = t.traces
             /\ U.exit # "error" => U.traces = Append(t.traces, U.sig)
<1> DEFINE R == MemReads(D.mems, t.words, t.sig, {})
           read == [t EXCEPT !.sig = R]
           n == Len(D.order)
           steps == [k \in 1 .. n |-> Runs(D.order[k])]
           u == After(steps, read)
           U == CombTick(D, t)
<1>1. /\ n \in Nat /\ \A k \in 1 .. n : Tracks(D.order[k])
      /\ MemoriesOK(D.mems) /\ t.words \in WordsIn(D) /\ t.sig \in Valuation
  BY DesignFacts, StateParts
<1>2. R \in Valuation /\ (D.mems = << >> => R = t.sig)
  BY <1>1, MemReadsFacts, NothingRead DEF WordsIn
<1>3. /\ read \in State(D) /\ read.sig = R /\ read.words = t.words /\ read.exit = t.exit
      /\ read.traces = t.traces
  BY <1>2 DEF State
<1>4. steps \in [1 .. n -> [Tracked -> Tracked]]
  BY <1>1, RunsType
<1>5. Part(read) \in Tracked
  BY <1>3, StateParts DEF Part, Tracked, Valuation
<1>6. U = IF u.exit = "error" THEN u ELSE [u EXCEPT !.traces = Append(u.traces, u.sig)]
  BY DEF CombTick
<1> HIDE DEF R, read, n, steps, u, U
<1>7. Len(steps) = n
  BY <1>1, <1>4, LengthOf
<1>8. \A k \in 1 .. n : steps[k] \in [Tracked -> Tracked] /\ \A b \in Tracked : steps[k][b] \in Tracked
  BY <1>4
<1>9. Tracked \in SUBSET Tracked
  OBVIOUS
<1>10. u \in State(D) /\ OnlyPart(read, u) /\ Part(u) = Through(steps, Part(read))
  BY <1>1, <1>3, <1>5, <1>7, <1>8, <1>9, AfterKeeps DEF u
<1>11. u.sig \in Valuation /\ u.traces \in Seq(Valuation) /\ u.traces = t.traces /\ u.words = t.words
  BY <1>3, <1>10, StateParts DEF OnlyPart
<1>12. Append(u.traces, u.sig) \in Seq(Valuation)
  BY <1>11
<1>13. /\ U \in State(D) /\ U.sig = u.sig /\ U.exit = u.exit /\ U.words = t.words
       /\ U.exit = "error" => U.traces = t.traces
       /\ U.exit # "error" => U.traces = Append(t.traces, U.sig)
  <2>1. CASE u.exit = "error"
    BY <1>6, <1>10, <1>11, <2>1
  <2>2. CASE u.exit # "error"
    <3>1. U = [u EXCEPT !.traces = Append(u.traces, u.sig)]
      BY <1>6, <2>2
    <3>2. U \in State(D)
      BY <1>10, <1>12, <3>1 DEF State
    <3>3. U.sig = u.sig /\ U.exit = u.exit /\ U.words = u.words /\ U.traces = Append(u.traces, u.sig)
      BY <1>10, <3>1 DEF State
    <3> QED
      BY <1>11, <2>2, <3>2, <3>3
  <2> QED
    BY <2>1, <2>2
<1>14. read.sig \in Valuation /\ (D.mems = << >> => read.sig = t.sig)
  BY <1>2, <1>3
<1> HIDE DEF Part
<1> QED
  BY <1>1, <1>3, <1>4, <1>5, <1>7, <1>8, <1>10, <1>13, <1>14 DEF R, read, n, steps, u, U

LEMMA AdvanceFacts ==
  ASSUME NEW D \in Designs, NEW t \in State(D)
  PROVE  /\ Advance(D, t) \in State(D)
         /\ t.exit # "ok" => Advance(D, t) = t
         /\ t.exit = "ok" /\ HasSeq(D) => Advance(D, t) = SeqTick(D, t)
         /\ t.exit = "ok" /\ ~HasSeq(D) => Advance(D, t) = CombTick(D, t)
<1>1. SeqTick(D, t) \in State(D) /\ CombTick(D, t) \in State(D)
  BY SeqTickFacts, CombTickFacts
<1>2. Advance(D, t) =
        IF t.exit # "ok" THEN t ELSE IF HasSeq(D) THEN SeqTick(D, t) ELSE CombTick(D, t)
  BY DEF Advance
<1> QED
  BY <1>1, <1>2

-----------------------------------------------------------------------------
\* Runs.

\* A run of n ticks as a loop.
Ticking(D, n) == [k \in 1 .. n |-> [t \in State(D) |-> Advance(D, t)]]

LEMMA TickingFacts ==
  ASSUME NEW D \in Designs, NEW n \in Nat
  PROVE  /\ Ticking(D, n) \in [1 .. n -> [State(D) -> State(D)]] /\ Len(Ticking(D, n)) = n
         /\ \A k \in 1 .. n, t \in State(D) : Ticking(D, n)[k][t] = Advance(D, t)
<1>1. \A t \in State(D) : Advance(D, t) \in State(D)
  BY AdvanceFacts
<1>2. Ticking(D, n) \in [1 .. n -> [State(D) -> State(D)]]
  BY <1>1 DEF Ticking
<1>3. Len(Ticking(D, n)) = n
  BY <1>2, LengthOf
<1> QED
  BY <1>2, <1>3 DEF Ticking

LEMMA RunIsLoop ==
  ASSUME NEW D \in Designs, NEW initial, initial.exit = "ok", initial.sig \in Valuation,
         NEW n \in Nat
  PROVE  Run(D, initial, n) = Through(Ticking(D, n), Start(D, initial.sig))
<1> DEFINE t == Start(D, initial.sig)
           Is(g) == g = [k \in 0 .. n |-> IF k = 0 THEN t ELSE Advance(D, g[k - 1])]
           after == CHOOSE g : Is(g)
<1>1. t \in State(D)
  BY StartFacts
<1>2. /\ Len(Ticking(D, n)) = n /\ \A k \in 1 .. n : Ticking(D, n)[k] \in [State(D) -> State(D)]
      /\ \A k \in 1 .. n, u \in State(D) : Ticking(D, n)[k][u] = Advance(D, u)
  BY TickingFacts
<1>3. PICK f : Course(Ticking(D, n), t, State(D), n, f) /\ Through(Ticking(D, n), t) = f[n]
  BY <1>1, <1>2, ThroughCourse
<1>4. f \in [0 .. n -> State(D)] /\ f[0] = t /\ \A k \in 1 .. n : f[k] = Advance(D, f[k - 1])
  <2>1. f \in [0 .. n -> State(D)] /\ f[0] = t /\ \A k \in 1 .. n : f[k] = Ticking(D, n)[k][f[k - 1]]
    BY <1>3 DEF Course
  <2>2. \A k \in 1 .. n : f[k - 1] \in State(D)
    BY <2>1
  <2> QED
    BY <1>2, <2>1, <2>2
<1>5. Run(D, initial, n) = after[n]
  BY DEF Run
<1> HIDE DEF t
<1>6. Is(f)
  BY <1>4
<1>7. Is(after)
  BY <1>6
<1> HIDE DEF after
<1>8. after[0] = t /\ \A k \in 1 .. n : after[k] = Advance(D, after[k - 1])
  BY <1>7
<1> DEFINE Bad == { k \in 0 .. n : after[k] # f[k] }
<1>9. ASSUME Bad # {} PROVE FALSE
  <2>1. PICK m \in Bad : \A l \in Bad : m <= l
    <3>1. Bad \in SUBSET Nat
      OBVIOUS
    <3> QED
      BY <1>9, <3>1, LeastNatural
  <2>2. m # 0
    BY <1>4, <1>8
  <2>3. m - 1 \notin Bad /\ m - 1 \in 0 .. n /\ m \in 1 .. n
    BY <2>1, <2>2
  <2>4. after[m - 1] = f[m - 1]
    BY <2>3
  <2> QED
    BY <1>4, <1>8, <2>1, <2>3, <2>4
<1>10. after[n] = f[n]
  BY <1>9
<1> QED
  BY <1>3, <1>5, <1>10 DEF t

\* A run keeps what every tick keeps.
LEMMA RunKeeps ==
  ASSUME NEW D \in Designs, NEW initial, initial.exit = "ok", initial.sig \in Valuation,
         NEW n \in Nat, NEW B \in SUBSET State(D), Start(D, initial.sig) \in B,
         \A t \in B : Advance(D, t) \in B
  PROVE  Run(D, initial, n) \in B
<1>1. Run(D, initial, n) = Through(Ticking(D, n), Start(D, initial.sig))
  BY RunIsLoop
<1>2. /\ Len(Ticking(D, n)) = n /\ \A k \in 1 .. n : Ticking(D, n)[k] \in [State(D) -> State(D)]
      /\ \A k \in 1 .. n, u \in State(D) : Ticking(D, n)[k][u] = Advance(D, u)
  BY TickingFacts
<1>3. \A k \in 1 .. n : \A t \in B : Ticking(D, n)[k][t] \in B
  BY <1>2
<1>4. Through(Ticking(D, n), Start(D, initial.sig)) \in B
  BY <1>2, <1>3, ThroughKeeps
<1> QED
  BY <1>1, <1>4

\* What a run begins with, and what it leaves, whatever its initial blocks did.
LEMMA RunFacts ==
  ASSUME NEW D \in Designs, NEW initial \in Outcome, NEW n \in Nat
  PROVE  LET t == Run(D, initial, n)
         IN  t \in State(D) /\ (initial.exit # "ok" => t.exit # "ok")
<1> DEFINE t == Start(D, initial.sig)
<1>1. /\ initial.sig \in Valuation /\ initial.exit \in {"ok", "finish", "error"}
      /\ t \in State(D) /\ <<initial.sig>> \in Seq(Valuation)
  BY StartFacts DEF Outcome
<1>2. CASE initial.exit = "ok"
  <2>1. \A u \in State(D) : Advance(D, u) \in State(D)
    BY AdvanceFacts
  <2>2. State(D) \in SUBSET State(D)
    OBVIOUS
  <2>3. Run(D, initial, n) \in State(D)
    BY <1>1, <1>2, <2>1, <2>2, RunKeeps
  <2> QED
    BY <1>2, <2>3
<1>3. CASE initial.exit = "finish"
  <2>1. Run(D, initial, n) = [t EXCEPT !.exit = "finish", !.traces = <<initial.sig>>]
    BY <1>3 DEF Run
  <2> HIDE DEF t
  <2> QED
    BY <1>1, <1>3, <2>1 DEF State
<1>4. CASE initial.exit = "error"
  <2>1. Run(D, initial, n) = [t EXCEPT !.exit = "error"]
    BY <1>4 DEF Run
  <2> HIDE DEF t
  <2> QED
    BY <1>1, <1>4, <2>1 DEF State
<1> QED
  BY <1>1, <1>2, <1>3, <1>4

-----------------------------------------------------------------------------
\* Types of the test.

\* The values a test can leave on the signals.
Kept == [Signal -> Input \cup Value]

\* TypeOK, with what the test keeps for the properties.
TypeInv ==
  /\ TypeOK
  /\ design \in Designs /\ base \in Kept /\ mark \in 1 .. Len(history)
  /\ since = 0 => base = sig /\ mark = Len(history)

\* A run of a design from values that a test left.
LEMMA SimulateFacts ==
  ASSUME design \in Designs, NEW S \in Kept, NEW n \in Nat
  PROVE  /\ Fitted(S) \in Valuation /\ Exec(design.initial, Fitted(S)) \in Outcome
         /\ TicksOf(n) \in Nat
         /\ Simulate(S, n) \in State(design)
         /\ Simulate(S, n).traces \in Seq(Valuation)
<1>1. Fitted(S) \in Valuation
  BY TestAssumption DEF Fitted, Kept, Valuation
<1>2. Exec(design.initial, Fitted(S)) \in Outcome
  BY <1>1, DesignFacts DEF BlockTotal
<1>3. TicksOf(n) \in Nat
  <2>1. 1 \in Doms(design) /\ DomainOK(design.domains[1])
    BY DesignFacts DEF Doms
  <2>2. design.domains[1].hpt \in Nat
    BY <2>1 DEF DomainOK
  <2>3. \A m \in Nat : 2 * n * m \in Nat
    OBVIOUS
  <2> QED
    BY <2>2, <2>3 DEF TicksOf
<1>4. Simulate(S, n) \in State(design)
  BY <1>2, <1>3, RunFacts DEF Simulate
<1> QED
  BY <1>1, <1>2, <1>3, <1>4, StateParts

\* What a call of tick takes from the traces of its run.
LEMMA TracedFacts ==
  ASSUME NEW S \in Kept, NEW n \in Nat, NEW t, t.traces \in Seq(Valuation)
  PROVE  /\ LastTraced(S, t) \in Kept /\ (t.traces # << >> => LastTraced(S, t) \in Valuation)
         /\ Recorded(S, n, t) \in Seq(Kept)
<1>1. Valuation \subseteq Kept
  BY DEF Valuation, Kept
<1>2. CASE t.traces = << >>
  <2>1. [i \in 1 .. n |-> S] \in Seq(Kept)
    OBVIOUS
  <2> QED
    BY <1>2, <2>1 DEF LastTraced, Recorded
<1>3. CASE t.traces # << >>
  <2>1. Len(t.traces) \in 1 .. Len(t.traces) /\ \A i \in 1 .. Len(t.traces) : t.traces[i] \in Valuation
    BY <1>3
  <2>2. Last(t.traces) \in Valuation
    BY <2>1 DEF Last
  <2>3. t.traces \in Seq(Kept)
    BY <1>1
  <2> QED
    BY <1>1, <1>3, <2>2, <2>3 DEF LastTraced, Recorded
<1> QED
  BY <1>2, <1>3

LEMMA TypeInit == Init => TypeInv
<1> SUFFICES ASSUME Init PROVE TypeInv
  OBVIOUS
<1>1. design \in Designs /\ sig \in Valuation /\ sig \in Kept
  BY DesignFacts DEF Init, Valuation, Kept
<1>2. DOMAIN forced = {}
  BY DEF Init
<1>3. history = <<sig>> /\ history \in Seq(Kept) /\ Len(history) = 1
  BY <1>1 DEF Init
<1>4. TypeOK
  BY <1>1, <1>2, <1>3, TestAssumption DEF Init, TypeOK, Kept
<1>5. base = sig /\ mark = 1
  BY DEF Init
<1> QED
  BY <1>1, <1>3, <1>4, <1>5 DEF TypeInv

LEMMA TypeNext == TypeInv /\ [Next]_vars => TypeInv'
<1> SUFFICES ASSUME TypeInv, [Next]_vars PROVE TypeInv'
  OBVIOUS
<1>0. /\ sig \in Kept /\ history \in Seq(Kept) /\ design \in Designs /\ base \in Kept
      /\ mark \in 1 .. Len(history) /\ Len(history) \in Nat
      /\ DOMAIN forced \subseteq Forceable /\ \A s \in DOMAIN forced : forced[s] \in Input
      /\ cycle \in 0 .. MaxCycles /\ since \in 0 .. cycle
  BY DEF TypeInv, TypeOK, Kept
<1>1. ASSUME NEW s \in Settable, NEW v \in Input, SetSignal(s, v) PROVE TypeInv'
  <2>1. sig' \in Kept
    BY <1>0, <1>1, TestAssumption DEF SetSignal, Kept
  <2>2. /\ base' = sig' /\ mark' = Len(history') /\ since' = 0 /\ traced' = FALSE
        /\ history' = history /\ cycle' = cycle /\ design' = design /\ whole' = whole
        /\ forced' = forced
    BY <1>1 DEF SetSignal, Touch
  <2>3. TypeOK'
    BY <1>0, <2>1, <2>2 DEF TypeOK, Kept
  <2> QED
    BY <1>0, <2>1, <2>2, <2>3 DEF TypeInv, Kept
<1>2. ASSUME NEW s \in Forceable, NEW v \in Input, ForceSignal(s, v) PROVE TypeInv'
  <2>1. sig' \in Kept
    BY <1>0, <1>2, TestAssumption DEF ForceSignal, Kept
  <2>2. /\ base' = sig' /\ mark' = Len(history') /\ since' = 0 /\ traced' = FALSE
        /\ history' = history /\ cycle' = cycle /\ design' = design /\ whole' = whole
    BY <1>2 DEF ForceSignal, Touch
  <2>3. forced' = [x \in DOMAIN forced \cup {s} |-> IF x = s THEN v ELSE forced[x]]
    BY <1>2 DEF ForceSignal
  <2>4. DOMAIN forced' \subseteq Forceable /\ \A x \in DOMAIN forced' : forced'[x] \in Input
    BY <1>0, <2>3
  <2>5. TypeOK'
    BY <1>0, <2>1, <2>2, <2>4 DEF TypeOK, Kept
  <2> QED
    BY <1>0, <2>1, <2>2, <2>5 DEF TypeInv, Kept
<1>3. ASSUME NEW s \in Forceable, ReleaseSignal(s) PROVE TypeInv'
  <2>1. /\ base' = sig' /\ mark' = Len(history') /\ since' = 0 /\ traced' = FALSE /\ sig' = sig
        /\ history' = history /\ cycle' = cycle /\ design' = design /\ whole' = whole
    BY <1>3 DEF ReleaseSignal, Touch
  <2>2. forced' = [x \in DOMAIN forced \ {s} |-> forced[x]]
    BY <1>3 DEF ReleaseSignal, Restrict
  <2>3. DOMAIN forced' \subseteq Forceable /\ \A x \in DOMAIN forced' : forced'[x] \in Input
    BY <1>0, <2>2
  <2>4. TypeOK'
    BY <1>0, <2>1, <2>3 DEF TypeOK, Kept
  <2> QED
    BY <1>0, <2>1, <2>4 DEF TypeInv, Kept
<1>4. ASSUME NEW n \in 1 .. MaxTicks, Tick(n) PROVE TypeInv'
  <2> DEFINE t == Simulate(sig, n)
             S == LastTraced(sig, t)
             R == Recorded(sig, n, t)
  <2>1. n \in Nat /\ n >= 1
    BY TestAssumption
  <2>2. t.traces \in Seq(Valuation) /\ t.exit # "error"
    BY <1>0, <1>4, <2>1, SimulateFacts DEF Tick, Takes
  <2>3. S \in Kept /\ (t.traces # << >> => S \in Valuation) /\ R \in Seq(Kept)
    BY <1>0, <2>1, <2>2, TracedFacts
  <2>4. /\ cycle + n <= MaxCycles
        /\ sig' = [s \in Signal |-> IF s \in DOMAIN forced THEN forced[s] ELSE S[s]]
        /\ history' = history \o R
        /\ cycle' = cycle + n
        /\ whole' = (whole /\ t.exit = "ok")
        /\ traced' = (t.traces # << >>)
        /\ IF forced = << >> THEN since' = since + n /\ base' = base /\ mark' = mark
           ELSE base' = sig' /\ mark' = Len(history') /\ since' = 0
        /\ design' = design /\ forced' = forced
    BY <1>4 DEF Tick, Takes, Touch, InTime
  <2> HIDE DEF t, S, R
  <2>5. sig' \in Kept
    BY <1>0, <2>3, <2>4 DEF Kept
  <2>6. history' \in Seq(Kept) /\ Len(history') = Len(history) + Len(R) /\ Len(R) \in Nat
    BY <1>0, <2>3, <2>4
  <2>7. traced' => \A s \in Signal \ DOMAIN forced' : sig'[s] \in Value
    BY <2>3, <2>4 DEF Valuation
  <2>8. cycle' \in 0 .. MaxCycles /\ since' \in 0 .. cycle' /\ (since' = 0 => forced # << >>)
    BY <1>0, <2>1, <2>4, TestAssumption
  <2>9. mark' \in 1 .. Len(history') /\ base' \in Kept
    <3>1. CASE forced = << >>
      BY <1>0, <2>4, <2>6, <3>1
    <3>2. CASE forced # << >>
      <4>1. base' = sig' /\ mark' = Len(history')
        BY <2>4, <3>2
      <4>2. Len(history') \in Nat /\ Len(history') >= 1
        BY <1>0, <2>6
      <4> QED
        BY <2>5, <4>1, <4>2
    <3> QED
      BY <3>1, <3>2
  <2>10. TypeOK'
    BY <1>0, <2>4, <2>5, <2>6, <2>7, <2>8 DEF TypeOK, Kept
  <2>11. (since = 0 => base = sig /\ mark = Len(history))'
    BY <2>4, <2>8
  <2> QED
    BY <1>0, <2>4, <2>5, <2>9, <2>10, <2>11 DEF TypeInv, Kept
<1>5. CASE UNCHANGED vars
  <2>1. /\ sig' = sig /\ forced' = forced /\ history' = history /\ cycle' = cycle /\ design' = design
        /\ base' = base /\ mark' = mark /\ since' = since /\ whole' = whole /\ traced' = traced
    BY <1>5 DEF vars, touched
  <2> QED
    BY <2>1 DEF TypeInv, TypeOK, Kept
<1>6. ASSUME NEW n \in 1 .. MaxTicks, TickRaises(n) PROVE TypeInv'
  BY <1>5, <1>6 DEF TickRaises
<1> QED
  BY <1>1, <1>2, <1>3, <1>4, <1>5, <1>6 DEF Next

LEMMA TypeInvariant == Spec => []TypeInv
BY TypeInit, TypeNext, PTL DEF Spec

\* Whatever a test sets, forces and releases, and however often it ticks: the
\* signals hold values, those it gave them or those the engine computed, the
\* history is a list of such valuations, and what a run traced fits its signals.
THEOREM TestTypeCorrect == Spec => []TypeOK
BY TypeInvariant, PTL DEF TypeInv

-----------------------------------------------------------------------------
\* Settling.

Block(D, c) == D.comps[c].block

\* Every component agrees with what it reads.
Fresh(D, S) == \A c \in Comp(D) : Agrees(Block(D, c), S)

\* A component agrees alike with valuations that differ where it touches nothing.
LEMMA AgreesKept ==
  ASSUME NEW D \in Designs, NEW c \in Comp(D), NEW S \in Valuation, NEW T \in Valuation,
         Differing(T, S) \subseteq Movable(D) \ D.comps[c].signals,
         Agrees(Block(D, c), S)
  PROVE  Agrees(Block(D, c), T)
<1> DEFINE C == D.comps[c]
           At(U) == [s \in Signal |-> IF s \in Movable(D) \ C.signals THEN D.init[s] ELSE U[s]]
<1>1. ReadsOnlyItsOwn(D, C)
  BY DesignFacts DEF ComponentsOK, Comp
<1>2. Agrees(C.block, S) <=> Agrees(C.block, At(S))
  BY <1>1 DEF ReadsOnlyItsOwn
<1>3. Agrees(C.block, T) <=> Agrees(C.block, At(T))
  BY <1>1 DEF ReadsOnlyItsOwn
<1>4. At(S) = At(T)
  BY DEF Differing
<1> HIDE DEF At
<1> QED
  BY <1>2, <1>3, <1>4 DEF Block

\* What a component moves, another does not touch.
LEMMA OthersKept ==
  ASSUME NEW D \in Designs, NEW b \in Comp(D), NEW c \in Comp(D), c # b, NEW S \in Valuation,
         Agrees(Block(D, c), S)
  PROVE  /\ Exec(Block(D, b), S).sig \in Valuation
         /\ Agrees(Block(D, c), Exec(Block(D, b), S).sig)
<1> DEFINE T == Exec(Block(D, b), S).sig
<1>1. ComponentOK(D.comps[b]) /\ ComponentsOK(D)
  BY DesignFacts
<1>2. T \in Valuation /\ \A s \in Signal \ D.comps[b].writes : T[s] = S[s]
  BY <1>1 DEF ComponentOK, BlockTotal, Outcome, WritesOnly, Block
<1>3. D.comps[b].writes \cap D.comps[c].signals = {}
  BY <1>1 DEF ComponentsOK, Comp
<1>4. D.comps[b].writes \subseteq Movable(D)
  BY DEF Movable, Comp
<1> HIDE DEF T
<1>5. Differing(T, S) \subseteq Movable(D) \ D.comps[c].signals
  BY <1>2, <1>3, <1>4 DEF Differing
<1>6. Agrees(Block(D, c), T)
  BY <1>2, <1>5, AgreesKept
<1> QED
  BY <1>2, <1>6 DEF T

\* Every component in order.
Pass(D) == [c \in Comp(D) |-> Then(Block(D, c))]

Result(t) == [sig |-> t.sig, exit |-> t.exit]

\* After the first k of them, if nothing raised: those agree, and so do the
\* skipped ones to come.
Partly(D, set, k, S) ==
  \A c \in Comp(D) : c <= k \/ D.comps[c].signals \cap set = {} => Agrees(Block(D, c), S)

PassPair(D, set, k) ==
  { p \in Tracked \X Outcome :
      Result(p[1]) = p[2] /\ (p[1].exit = "ok" => Partly(D, set, k, p[1].sig)) }

LEMMA PassStep ==
  ASSUME NEW D \in Designs, NEW set, NEW k \in Comp(D), NEW u \in Tracked, NEW r \in Outcome,
         <<u, r>> \in PassPair(D, set, k - 1)
  PROVE  <<Settles(D, set, k)[u], Pass(D)[k][r]>> \in PassPair(D, set, k)
<1> DEFINE B == Block(D, k)
           v == Settles(D, set, k)[u]
           q == Pass(D)[k][r]
           skipped == D.comps[k].signals \cap set = {}
<1>1. /\ u.sig = r.sig /\ u.exit = r.exit /\ u.sig \in Valuation
      /\ r = [sig |-> r.sig, exit |-> r.exit]
      /\ u.exit = "ok" => Partly(D, set, k - 1, u.sig)
  <2>1. Result(u) = r /\ (u.exit = "ok" => Partly(D, set, k - 1, u.sig))
    BY DEF PassPair
  <2> QED
    BY <2>1, TrackedParts DEF Result
<1>2. /\ v \in Tracked /\ (skipped => v = u) /\ (~skipped => v = Runs(B)[u])
  BY SettlesFacts DEF Block
<1>3. q = IF r.exit = "ok" THEN Exec(B, r.sig) ELSE r
  BY DEF Pass, Then
<1>4. /\ Tracks(B) /\ BlockTotal(B) /\ OnePass(D.comps[k]) /\ RunsWell(B, u)
  BY DesignFacts, RunsFacts DEF Block, ComponentOK, ComponentsOK, Comp
<1>5. k \in Nat /\ Comp(D) \subseteq Nat
  BY DEF Comp
<1> HIDE DEF v, q, skipped, B
<1>6. CASE u.exit # "ok"
  <2>1. v = u
    BY <1>2, <1>4, <1>6 DEF RunsWell
  <2>2. q = r
    BY <1>1, <1>3, <1>6
  <2>3. <<v, q>> \in PassPair(D, set, k)
    BY <1>6, <2>1, <2>2 DEF PassPair
  <2> QED
    BY <2>3 DEF v, q
<1>7. CASE u.exit = "ok" /\ skipped
  <2>1. v = u /\ Agrees(B, u.sig)
    BY <1>1, <1>2, <1>7 DEF Partly, B, skipped
  <2>2. q = r
    BY <1>1, <1>3, <1>7, <2>1 DEF Agrees, Ok
  <2>3. Partly(D, set, k, u.sig)
    BY <1>1, <1>5, <1>7, <2>1 DEF Partly, B
  <2>4. <<v, q>> \in PassPair(D, set, k)
    BY <2>1, <2>2, <2>3 DEF PassPair
  <2> QED
    BY <2>4 DEF v, q
<1>8. CASE u.exit = "ok" /\ ~skipped
  <2>1. /\ v.sig = Exec(B, u.sig).sig /\ v.exit = Exec(B, u.sig).exit
    BY <1>2, <1>4, <1>8 DEF RunsWell
  <2>2. q = Exec(B, u.sig) /\ q \in Outcome
    BY <1>1, <1>3, <1>4, <1>8 DEF BlockTotal
  <2>3. Result(v) = q
    BY <2>1, <2>2 DEF Result, Outcome
  <2>4. ASSUME v.exit = "ok" PROVE Partly(D, set, k, v.sig)
    <3>1. Agrees(B, v.sig)
      BY <1>1, <1>4, <2>1, <2>4 DEF OnePass, B, Block
    <3>2. ASSUME NEW c \in Comp(D), c # k, c <= k \/ D.comps[c].signals \cap set = {}
          PROVE  Agrees(Block(D, c), v.sig)
      <4>1. Agrees(Block(D, c), u.sig)
        BY <1>1, <1>5, <1>8, <3>2 DEF Partly
      <4> QED
        BY <1>1, <2>1, <3>2, <4>1, OthersKept DEF B
    <3> QED
      BY <3>1, <3>2 DEF Partly, B
  <2>5. <<v, q>> \in PassPair(D, set, k)
    BY <1>2, <2>2, <2>3, <2>4 DEF PassPair
  <2> QED
    BY <2>5 DEF v, q
<1> QED
  BY <1>6, <1>7, <1>8

\* Running the touched components is running them all, if the others agree; and
\* then every one does.
LEMMA SettleIsPass ==
  ASSUME NEW D \in Designs, NEW t \in State(D), NEW set,
         t.exit = "ok" =>
           \A c \in Comp(D) : D.comps[c].signals \cap set = {} => Agrees(Block(D, c), t.sig)
  PROVE  /\ Result(SettleFrom(D, t, set)) = Through(Pass(D), Result(t))
         /\ SettleFrom(D, t, set).exit = "ok" => Fresh(D, SettleFrom(D, t, set).sig)
<1> DEFINE steps == Settling(D, set)
           n == Len(D.comps)
           U == SettleFrom(D, t, set)
           R == [k \in 0 .. n |-> PassPair(D, set, k)]
<1>1. /\ n \in Nat /\ Len(steps) = n /\ \A c \in 1 .. n : steps[c] \in [Tracked -> Tracked]
      /\ Part(t) \in Tracked /\ Part(U) = Through(steps, Part(t))
  BY SettleFromFacts
<1>2. Pass(D) \in [1 .. n -> [Outcome -> Outcome]]
  <2>1. ASSUME NEW c \in Comp(D) PROVE Then(Block(D, c)) \in [Outcome -> Outcome]
    <3>1. \A S \in Valuation : Exec(Block(D, c), S) \in Outcome
      BY DesignFacts DEF Block, ComponentOK, BlockTotal
    <3>2. \A r \in Outcome : r.sig \in Valuation
      BY DEF Outcome
    <3>3. \A r \in Outcome : (IF r.exit = "ok" THEN Exec(Block(D, c), r.sig) ELSE r) \in Outcome
      BY <3>1, <3>2
    <3> QED
      BY <3>3 DEF Then
  <2> QED
    BY <2>1 DEF Pass, Comp
<1>3. Result(t) \in Outcome
  BY StateParts DEF Result, Outcome
<1>4. <<Part(t), Result(t)>> \in R[0]
  <2>1. Result(Part(t)) = Result(t) /\ Part(t).sig = t.sig /\ Part(t).exit = t.exit
    BY DEF Result, Part
  <2>2. t.exit = "ok" => Partly(D, set, 0, t.sig)
    BY <1>1 DEF Partly, Comp
  <2>3. <<Part(t), Result(t)>> \in PassPair(D, set, 0)
    BY <1>1, <1>3, <2>1, <2>2 DEF PassPair
  <2> QED
    BY <1>1, <2>3
<1>5. \A k \in 1 .. n, u \in Tracked, r \in Outcome :
        <<u, r>> \in R[k - 1] => <<steps[k][u], Pass(D)[k][r]>> \in R[k]
  <2> SUFFICES ASSUME NEW k \in 1 .. n, NEW u \in Tracked, NEW r \in Outcome,
                      <<u, r>> \in R[k - 1]
               PROVE  <<steps[k][u], Pass(D)[k][r]>> \in R[k]
    OBVIOUS
  <2>1. k \in Comp(D) /\ k \in 0 .. n /\ k - 1 \in 0 .. n
    BY <1>1 DEF Comp
  <2>2. R[k] = PassPair(D, set, k) /\ R[k - 1] = PassPair(D, set, k - 1)
    BY <2>1
  <2>3. steps[k] = Settles(D, set, k)
    BY <2>1 DEF Settling
  <2> HIDE DEF R, steps
  <2> QED
    BY <2>1, <2>2, <2>3, PassStep
<1> HIDE DEF steps, R, n, U
<1>6. Len(Pass(D)) = n
  BY <1>1, <1>2, LengthOf
<1>7. \A k \in 1 .. n : steps[k] \in [Tracked -> Tracked] /\ Pass(D)[k] \in [Outcome -> Outcome]
  BY <1>1, <1>2
<1>8. <<Through(steps, Part(t)), Through(Pass(D), Result(t))>> \in R[n]
  BY <1>1, <1>3, <1>4, <1>5, <1>6, <1>7, ThroughPairs
<1>9. <<Part(U), Through(Pass(D), Result(t))>> \in PassPair(D, set, n)
  <2>1. R[n] = PassPair(D, set, n)
    BY <1>1 DEF R
  <2> QED
    BY <1>1, <1>8, <2>1
<1>10. /\ Result(Part(U)) = Through(Pass(D), Result(t))
       /\ Part(U).exit = "ok" => Partly(D, set, n, Part(U).sig)
  BY <1>9 DEF PassPair
<1>11. Result(Part(U)) = Result(U) /\ Part(U).sig = U.sig /\ Part(U).exit = U.exit
  BY DEF Result, Part
<1>12. U.exit = "ok" => Fresh(D, U.sig)
  BY <1>10, <1>11 DEF Partly, Fresh, Comp, n
<1> QED
  BY <1>10, <1>11, <1>12 DEF U

\* The first settling leaves every component in agreement.
LEMMA SeedFresh ==
  ASSUME NEW D \in Designs, D.mems = << >>, NEW t \in State(D)
  PROVE  /\ Result(SettleFrom(D, t, Signal)) = Through(Pass(D), Result(t))
         /\ Seed(D, t).sig = SettleFrom(D, t, Signal).sig
         /\ Seed(D, t).exit = "ok" => Fresh(D, Seed(D, t).sig)
<1>1. ASSUME NEW c \in Comp(D), D.comps[c].signals \cap Signal = {}
      PROVE  Agrees(Block(D, c), t.sig)
  <2>1. D.comps[c].signals = {}
    BY <1>1, DesignFacts DEF ComponentOK
  <2> QED
    BY <2>1, DesignFacts, StateParts DEF ComponentsOK, Comp, Block
<1>2. /\ Result(SettleFrom(D, t, Signal)) = Through(Pass(D), Result(t))
      /\ SettleFrom(D, t, Signal).exit = "ok" => Fresh(D, SettleFrom(D, t, Signal).sig)
  BY <1>1, SettleIsPass
<1>3. /\ Seed(D, t).sig = SettleFrom(D, t, Signal).sig
      /\ Seed(D, t).exit = "ok" => SettleFrom(D, t, Signal).exit = "ok"
  BY SeedFacts
<1> QED
  BY <1>2, <1>3

\* No domain runs that is not due.
LEMMA RunNothing ==
  ASSUME NEW D \in Designs, NEW t \in State(D), t.due = {}
  PROVE  Part(RunDomains(D, t)) = Part(t)
<1> DEFINE steps == [i \in Doms(D) |-> RunsDomain(D, t.due, i)]
           n == Len(D.domains)
           B == {Part(t)}
<1>1. n \in Nat /\ Doms(D) = 1 .. n
  BY DesignFacts DEF Doms
<1>2. \A i \in Doms(D), u \in Tracked : RunsDomain(D, t.due, i)[u] \in Tracked
  BY RunsDomainFacts DEF RunsDomainWell
<1>3. \A i \in Doms(D) : RunsDomain(D, t.due, i) \in [Tracked -> Tracked]
  BY <1>2 DEF RunsDomain
<1>4. Part(t) \in Tracked
  BY StateParts DEF Part, Tracked, Valuation
<1>5. \A i \in Doms(D) : RunsDomain(D, t.due, i)[Part(t)] = Part(t)
  BY <1>4 DEF RunsDomain
<1>6. steps \in [1 .. n -> [Tracked -> Tracked]]
  BY <1>1, <1>3
<1>7. \A k \in 1 .. n : steps[k] \in [Tracked -> Tracked] /\ \A b \in B : steps[k][b] \in B
  BY <1>1, <1>3, <1>5
<1>8. RunDomains(D, t) = After(steps, t)
  BY DEF RunDomains
<1>9. B \in SUBSET Tracked /\ Part(t) \in B
  BY <1>4
<1> HIDE DEF steps, B, n
<1>10. Len(steps) = n
  BY <1>1, <1>6, LengthOf
<1>11. Part(After(steps, t)) \in B
  BY <1>1, <1>7, <1>9, <1>10, AfterKeeps
<1> QED
  BY <1>8, <1>11 DEF B

\* What a tick does before it settles, in a design without memories.
LEMMA StageMoves ==
  ASSUME NEW D \in Designs, D.mems = << >>, NEW s \in State(D)
  PROVE  /\ Ported(D, s).sig = Ran(D, s).sig /\ Ported(D, s).moved = Ran(D, s).moved
         /\ Ported(D, s).exit = Ran(D, s).exit
         /\ Held(D, s).exit = s.exit
         /\ Ported(D, s).due = Held(D, s).due /\ Settled(D, s).due = Held(D, s).due
         /\ Differing(Ported(D, s).sig, s.sig) \subseteq Ported(D, s).moved
         /\ Differing(Ported(D, s).sig, s.sig) \subseteq Movable(D)
<1>1. /\ Begun(s) \in State(D) /\ Clocked(D, s) \in State(D) /\ Held(D, s) \in State(D)
      /\ Ran(D, s) \in State(D) /\ Ported(D, s) \in State(D)
      /\ Noted(s.sig, Clocked(D, s)) /\ Noted(s.sig, Ran(D, s))
      /\ Noted(s.sig, Begun(s)) /\ Begun(s).exit = s.exit /\ Begun(s).sig = s.sig
  BY StageFacts, BegunFacts DEF Noted, Differing
<1>2. /\ Ported(D, s).sig = Ran(D, s).sig /\ Ported(D, s).moved = Ran(D, s).moved
      /\ Ported(D, s).exit = Ran(D, s).exit /\ Ported(D, s).due = Ran(D, s).due
  BY <1>1, PortsFacts DEF Ported
<1>3. /\ OnlyClocks(Begun(s), Clocked(D, s))
      /\ \A x \in Differing(Clocked(D, s).sig, s.sig) : \E i \in Doms(D) : x = D.domains[i].clk
  <2>1. OnlyClocks(Begun(s), Clocked(D, s))
    BY <1>1, ToggleFacts DEF Clocked
  <2>2. \A x \in Differing(Clocked(D, s).sig, s.sig) :
          \E i \in Doms(D) :
            x = D.domains[i].clk /\ (D.domains[i].edge = "both" => i \in Clocked(D, s).due)
    BY <1>1, ToggleFacts DEF Clocked
  <2> QED
    BY <2>1, <2>2
<1>4. /\ OnlyResets(Clocked(D, s), Held(D, s))
      /\ \A x \in Differing(Held(D, s).sig, Clocked(D, s).sig) :
           \E i \in Doms(D) : x \in D.domains[i].written
  BY <1>1, AsyncFacts DEF Held
<1>5. /\ OnlyPart(Held(D, s), Ran(D, s))
      /\ \A x \in Signal \ Registers(D) : Ran(D, s).sig[x] = Held(D, s).sig[x]
  <2>1. Noted(s.sig, Held(D, s))
    BY StageFacts
  <2> QED
    BY <1>1, <2>1, RunDomainsFacts DEF Ran
<1>6. OnlyPart(Ported(D, s), Settled(D, s))
  BY <1>1, SettleFacts DEF Settled
<1>7. /\ \A i \in Doms(D) : D.domains[i].clk \in Movable(D)
      /\ Registers(D) \subseteq Movable(D)
      /\ \A i \in Doms(D) : D.domains[i].written \subseteq Movable(D)
  BY DEF Movable, Registers, Doms
<1>8. Differing(Ported(D, s).sig, s.sig) \subseteq Movable(D)
  <2> SUFFICES ASSUME NEW x \in Signal, Ran(D, s).sig[x] # s.sig[x] PROVE x \in Movable(D)
    BY <1>2 DEF Differing
  <2>1. CASE x \in Registers(D)
    BY <1>7, <2>1
  <2>2. CASE x \notin Registers(D)
    <3>1. Held(D, s).sig[x] # s.sig[x]
      BY <1>5, <2>2
    <3>2. CASE Held(D, s).sig[x] # Clocked(D, s).sig[x]
      BY <1>4, <1>7, <3>2 DEF Differing
    <3>3. CASE Held(D, s).sig[x] = Clocked(D, s).sig[x]
      BY <1>3, <1>7, <3>1, <3>3 DEF Differing
    <3> QED
      BY <3>2, <3>3
  <2> QED
    BY <2>1, <2>2
<1>9. Differing(Ported(D, s).sig, s.sig) \subseteq Ported(D, s).moved
  BY <1>1, <1>2 DEF Noted
<1>10. Held(D, s).exit = s.exit
  BY <1>1, <1>3, <1>4 DEF OnlyClocks, OnlyResets
<1>11. Ported(D, s).due = Held(D, s).due /\ Settled(D, s).due = Held(D, s).due
  BY <1>2, <1>5, <1>6 DEF OnlyPart
<1> QED
  BY <1>2, <1>8, <1>9, <1>10, <1>11

\* A tick that runs no domain ends where its resets left it.
LEMMA SilentTick ==
  ASSUME NEW D \in Designs, D.mems = << >>, NEW s \in State(D), Held(D, s).due = {}
  PROVE  /\ Settled(D, s) = Ported(D, s)
         /\ Ported(D, s).sig = Held(D, s).sig /\ Ported(D, s).exit = Held(D, s).exit
<1>1. Held(D, s) \in State(D) /\ Ported(D, s) \in State(D)
  BY StageFacts
<1>2. Ran(D, s).sig = Held(D, s).sig /\ Ran(D, s).exit = Held(D, s).exit
  <2>1. Part(Ran(D, s)) = Part(Held(D, s))
    BY <1>1, RunNothing DEF Ran
  <2> QED
    BY <2>1 DEF Part
<1>3. /\ Ported(D, s).sig = Held(D, s).sig /\ Ported(D, s).exit = Held(D, s).exit
      /\ Ported(D, s).due = {}
  BY <1>2, StageMoves
<1>4. Settled(D, s) = Ported(D, s)
  BY <1>1, <1>3, SettleFacts DEF Settled
<1> QED
  BY <1>3, <1>4

\* A tick that runs no domain moves nothing that a component of a quiet design
\* touches.
LEMMA SilentMoves ==
  ASSUME NEW D \in Designs, D.mems = << >>, Quiet(D), NEW s \in State(D), Held(D, s).due = {},
         NEW c \in Comp(D)
  PROVE  Differing(Ported(D, s).sig, s.sig) \cap D.comps[c].signals = {}
<1>1. /\ Begun(s) \in State(D) /\ Clocked(D, s) \in State(D) /\ Held(D, s) \in State(D)
      /\ Noted(s.sig, Clocked(D, s))
      /\ Noted(s.sig, Begun(s)) /\ Begun(s).sig = s.sig
  BY StageFacts, BegunFacts DEF Noted, Differing
<1>2. \A x \in Differing(Clocked(D, s).sig, s.sig) :
        \E i \in Doms(D) :
          x = D.domains[i].clk /\ (D.domains[i].edge = "both" => i \in Clocked(D, s).due)
  BY <1>1, ToggleFacts DEF Clocked
<1>3. /\ \A x \in Differing(Held(D, s).sig, Clocked(D, s).sig) :
           \E i \in Doms(D) : D.domains[i].style = "async" /\ x \in D.domains[i].written
      /\ \A i \in Clocked(D, s).due : D.domains[i].style # "async" => i \in Held(D, s).due
  BY <1>1, AsyncFacts DEF Held
<1>4. Ported(D, s).sig = Held(D, s).sig
  BY SilentTick
<1>5. ASSUME NEW x \in Signal, Held(D, s).sig[x] # s.sig[x], x \in D.comps[c].signals PROVE FALSE
  <2>1. CASE Held(D, s).sig[x] # Clocked(D, s).sig[x]
    <3>1. PICK i \in Doms(D) : D.domains[i].style = "async" /\ x \in D.domains[i].written
      BY <1>3, <2>1 DEF Differing
    <3> QED
      BY <1>5, <3>1 DEF Quiet, Doms, Comp
  <2>2. CASE Held(D, s).sig[x] = Clocked(D, s).sig[x]
    <3>1. PICK i \in Doms(D) :
            x = D.domains[i].clk /\ (D.domains[i].edge = "both" => i \in Clocked(D, s).due)
      BY <1>2, <1>5, <2>2 DEF Differing
    <3>2. D.domains[i].edge = "both" /\ D.domains[i].style # "async"
      BY <1>5, <3>1 DEF Quiet, Doms, Comp
    <3> QED
      BY <1>3, <3>1, <3>2
  <2> QED
    BY <2>1, <2>2
<1> QED
  BY <1>4, <1>5 DEF Differing

\* Every tick of a quiet design without memories leaves its components in
\* agreement, if they were.
LEMMA TickFresh ==
  ASSUME NEW D \in Designs, D.mems = << >>, Quiet(D), NEW s \in State(D), s.exit = "ok",
         Fresh(D, s.sig)
  PROVE  /\ Held(D, s).due # {} => Result(Settled(D, s)) = Through(Pass(D), Result(Ported(D, s)))
         /\ Held(D, s).due = {} => Settled(D, s) = Ported(D, s)
         /\ Settled(D, s).exit = "ok" => Fresh(D, Settled(D, s).sig)
<1> DEFINE P == Ported(D, s)
<1>1. /\ P \in State(D) /\ s.sig \in Valuation /\ P.sig \in Valuation
      /\ P.due = Held(D, s).due
      /\ Differing(P.sig, s.sig) \subseteq P.moved /\ Differing(P.sig, s.sig) \subseteq Movable(D)
  BY StageFacts, StageMoves, StateParts
<1> HIDE DEF P
<1>2. ASSUME NEW c \in Comp(D), Differing(P.sig, s.sig) \cap D.comps[c].signals = {}
      PROVE  Agrees(Block(D, c), P.sig)
  <2>1. Differing(P.sig, s.sig) \subseteq Movable(D) \ D.comps[c].signals
    BY <1>1, <1>2
  <2>2. Agrees(Block(D, c), s.sig)
    BY DEF Fresh
  <2> QED
    BY <1>1, <2>1, <2>2, AgreesKept
<1>3. CASE Held(D, s).due = {}
  <2>1. \A c \in Comp(D) : Differing(P.sig, s.sig) \cap D.comps[c].signals = {}
    BY <1>3, SilentMoves DEF P
  <2>2. Fresh(D, P.sig)
    BY <1>2, <2>1 DEF Fresh
  <2>3. Settled(D, s) = P
    BY <1>3, SilentTick DEF P
  <2> QED
    BY <1>3, <2>2, <2>3 DEF P
<1>4. CASE Held(D, s).due # {}
  <2>1. Settled(D, s) = SettleFrom(D, P, P.moved)
    BY <1>1, <1>4, SettleFacts DEF Settled, P
  <2>2. \A c \in Comp(D) : D.comps[c].signals \cap P.moved = {} => Agrees(Block(D, c), P.sig)
    BY <1>1, <1>2
  <2>3. /\ Result(SettleFrom(D, P, P.moved)) = Through(Pass(D), Result(P))
        /\ SettleFrom(D, P, P.moved).exit = "ok" => Fresh(D, SettleFrom(D, P, P.moved).sig)
    BY <1>1, <2>2, SettleIsPass
  <2> QED
    BY <1>4, <2>1, <2>3 DEF P
<1> QED
  BY <1>3, <1>4

\* The blocks of a combinational design in order.
CombPass(D) == [k \in 1 .. Len(D.order) |-> Then(D.order[k])]

FirstAgree(D, k, S) == \A j \in 1 .. Len(D.order) : j <= k => Agrees(D.order[j], S)

OrderPair(D, k) ==
  { p \in Tracked \X Outcome :
      Result(p[1]) = p[2] /\ (p[1].exit = "ok" => FirstAgree(D, k, p[1].sig)) }

LEMMA OrderStep ==
  ASSUME NEW D \in Designs, NEW k \in 1 .. Len(D.order), NEW u \in Tracked, NEW r \in Outcome,
         <<u, r>> \in OrderPair(D, k - 1)
  PROVE  <<Runs(D.order[k])[u], Then(D.order[k])[r]>> \in OrderPair(D, k)
<1> DEFINE B == D.order[k]
           v == Runs(B)[u]
           q == Then(B)[r]
<1>1. /\ u.sig = r.sig /\ u.exit = r.exit /\ u.sig \in Valuation
      /\ u.exit = "ok" => FirstAgree(D, k - 1, u.sig)
  <2>1. Result(u) = r /\ (u.exit = "ok" => FirstAgree(D, k - 1, u.sig))
    BY DEF OrderPair
  <2> QED
    BY <2>1, TrackedParts DEF Result
<1>2. Tracks(B) /\ BlockTotal(B) /\ InDependencyOrder(D.order) /\ Len(D.order) \in Nat
  BY DesignFacts DEF OrderOK
<1>3. RunsWell(B, u)
  BY <1>2, RunsFacts
<1>4. q = IF r.exit = "ok" THEN Exec(B, r.sig) ELSE r
  BY DEF Then
<1> HIDE DEF v, q
<1>5. CASE u.exit # "ok"
  <2>1. v = u /\ q = r
    BY <1>1, <1>3, <1>4, <1>5 DEF RunsWell, v
  <2>2. <<v, q>> \in OrderPair(D, k)
    BY <1>5, <2>1 DEF OrderPair
  <2> QED
    BY <2>2 DEF v, q
<1>6. CASE u.exit = "ok"
  <2>1. v \in Tracked /\ v.sig = Exec(B, u.sig).sig /\ v.exit = Exec(B, u.sig).exit
    BY <1>3, <1>6 DEF RunsWell, v
  <2>2. q = Exec(B, u.sig) /\ q \in Outcome
    BY <1>1, <1>2, <1>4, <1>6 DEF BlockTotal
  <2>3. Result(v) = q
    BY <2>1, <2>2 DEF Result, Outcome
  <2>4. ASSUME v.exit = "ok" PROVE FirstAgree(D, k, v.sig)
    <3>1. /\ Agrees(B, v.sig)
          /\ \A i \in 1 .. k - 1 : Agrees(D.order[i], u.sig) => Agrees(D.order[i], v.sig)
      BY <1>1, <1>2, <2>1, <2>4 DEF InDependencyOrder
    <3>2. ASSUME NEW j \in 1 .. Len(D.order), j <= k PROVE Agrees(D.order[j], v.sig)
      <4>1. CASE j = k
        BY <3>1, <4>1
      <4>2. CASE j # k
        <5>1. j \in 1 .. k - 1 /\ j <= k - 1
          BY <1>2, <3>2, <4>2
        <5>2. Agrees(D.order[j], u.sig)
          BY <1>1, <1>6, <5>1 DEF FirstAgree
        <5> QED
          BY <3>1, <5>1, <5>2
      <4> QED
        BY <4>1, <4>2
    <3> QED
      BY <3>2 DEF FirstAgree
  <2>5. <<v, q>> \in OrderPair(D, k)
    BY <2>1, <2>2, <2>3, <2>4 DEF OrderPair
  <2> QED
    BY <2>5 DEF v, q
<1> QED
  BY <1>5, <1>6

\* A tick of the combinational node is one pass, which leaves every block, and so
\* every component, in agreement.
LEMMA CombTickIsPass ==
  ASSUME NEW D \in Designs, D.mems = << >>, NEW t \in State(D)
  PROVE  /\ CombTick(D, t) \in State(D)
         /\ Result(CombTick(D, t)) = Through(CombPass(D), Result(t))
         /\ CombTick(D, t).exit = "ok" =>
              /\ FirstAgree(D, Len(D.order), CombTick(D, t).sig)
              /\ Fresh(D, CombTick(D, t).sig)
         /\ CombTick(D, t).exit = "error" => CombTick(D, t).traces = t.traces
         /\ CombTick(D, t).exit # "error" =>
              CombTick(D, t).traces = Append(t.traces, CombTick(D, t).sig)
<1> DEFINE read == [t EXCEPT !.sig = MemReads(D.mems, t.words, t.sig, {})]
           n == Len(D.order)
           steps == [k \in 1 .. n |-> Runs(D.order[k])]
           u == After(steps, read)
           U == CombTick(D, t)
           R == [k \in 0 .. n |-> OrderPair(D, k)]
<1>1. /\ read \in State(D) /\ u \in State(D) /\ U \in State(D)
      /\ read.sig = t.sig /\ read.exit = t.exit
      /\ Len(steps) = n /\ n \in Nat
      /\ \A k \in 1 .. n : steps[k] \in [Tracked -> Tracked]
      /\ Part(read) \in Tracked /\ Part(u) = Through(steps, Part(read))
      /\ U.sig = u.sig /\ U.exit = u.exit
      /\ U.exit = "error" => U.traces = t.traces
      /\ U.exit # "error" => U.traces = Append(t.traces, U.sig)
  BY CombTickFacts
<1>2. CombPass(D) \in [1 .. n -> [Outcome -> Outcome]]
  <2>1. ASSUME NEW k \in 1 .. n PROVE Then(D.order[k]) \in [Outcome -> Outcome]
    <3>1. \A S \in Valuation : Exec(D.order[k], S) \in Outcome
      BY DesignFacts DEF OrderOK, BlockTotal
    <3>2. \A r \in Outcome : r.sig \in Valuation
      BY DEF Outcome
    <3>3. \A r \in Outcome : (IF r.exit = "ok" THEN Exec(D.order[k], r.sig) ELSE r) \in Outcome
      BY <3>1, <3>2
    <3> QED
      BY <3>3 DEF Then
  <2> QED
    BY <2>1 DEF CombPass
<1>3. Result(t) \in Outcome /\ Result(Part(read)) = Result(t)
  BY <1>1, StateParts DEF Result, Outcome, Part
<1>4. <<Part(read), Result(t)>> \in R[0]
  <2>1. FirstAgree(D, 0, Part(read).sig)
    BY DEF FirstAgree
  <2>2. <<Part(read), Result(t)>> \in OrderPair(D, 0)
    BY <1>1, <1>3, <2>1 DEF OrderPair
  <2> QED
    BY <1>1, <2>2
<1>5. \A k \in 1 .. n, x \in Tracked, r \in Outcome :
        <<x, r>> \in R[k - 1] => <<steps[k][x], CombPass(D)[k][r]>> \in R[k]
  <2> SUFFICES ASSUME NEW k \in 1 .. n, NEW x \in Tracked, NEW r \in Outcome,
                      <<x, r>> \in R[k - 1]
               PROVE  <<steps[k][x], CombPass(D)[k][r]>> \in R[k]
    OBVIOUS
  <2>1. k \in 0 .. n /\ k - 1 \in 0 .. n
    BY <1>1
  <2>2. R[k] = OrderPair(D, k) /\ R[k - 1] = OrderPair(D, k - 1)
    BY <2>1
  <2>3. steps[k] = Runs(D.order[k]) /\ CombPass(D)[k] = Then(D.order[k])
    BY DEF CombPass
  <2> HIDE DEF R, steps
  <2> QED
    BY <2>2, <2>3, OrderStep
<1> HIDE DEF steps, R, n, u, U, read
<1>6. Len(CombPass(D)) = n
  BY <1>1, <1>2, LengthOf
<1>7. \A k \in 1 .. n : steps[k] \in [Tracked -> Tracked] /\ CombPass(D)[k] \in [Outcome -> Outcome]
  BY <1>1, <1>2
<1>8. <<Through(steps, Part(read)), Through(CombPass(D), Result(t))>> \in R[n]
  BY <1>1, <1>3, <1>4, <1>5, <1>6, <1>7, ThroughPairs
<1>9. <<Part(u), Through(CombPass(D), Result(t))>> \in OrderPair(D, n)
  <2>1. R[n] = OrderPair(D, n)
    BY <1>1 DEF R
  <2> QED
    BY <1>1, <1>8, <2>1
<1>10. /\ Result(Part(u)) = Through(CombPass(D), Result(t))
       /\ Part(u).exit = "ok" => FirstAgree(D, n, Part(u).sig)
  BY <1>9 DEF OrderPair
<1>11. Result(Part(u)) = Result(U) /\ Part(u).sig = U.sig /\ Part(u).exit = U.exit
  BY <1>1 DEF Result, Part
<1>12. ASSUME U.exit = "ok" PROVE FirstAgree(D, n, U.sig) /\ Fresh(D, U.sig)
  <2>1. FirstAgree(D, n, U.sig) /\ U.sig \in Valuation
    BY <1>1, <1>10, <1>11, <1>12, StateParts
  <2>2. \A k \in 1 .. Len(D.order) : Agrees(D.order[k], U.sig)
    BY <1>1, <2>1 DEF FirstAgree, n
  <2>3. EngineOK(D)
    BY EngineAssumption
  <2>4. \A c \in 1 .. Len(D.comps) : Agrees(D.comps[c].block, U.sig)
    BY <2>1, <2>2, <2>3 DEF EngineOK
  <2> QED
    BY <2>1, <2>4 DEF Fresh, Comp, Block
<1> QED
  BY <1>1, <1>10, <1>11, <1>12 DEF U, n

\* What is emitted last is in agreement.
FreshRun(D) ==
  { t \in State(D) :
      t.exit = "ok" => /\ HasSeq(D) /\ t.tc > 0 => Fresh(D, t.sig)
                       /\ t.traces # << >> => Fresh(D, Last(t.traces)) }

LEMMA LastAppended ==
  ASSUME NEW T, NEW seq \in Seq(T), NEW x \in T
  PROVE  Append(seq, x) # << >> /\ Last(Append(seq, x)) = x
<1>1. Len(Append(seq, x)) = Len(seq) + 1 /\ Append(seq, x)[Len(seq) + 1] = x
  OBVIOUS
<1> QED
  BY <1>1 DEF Last

LEMMA AdvanceFresh ==
  ASSUME NEW D \in Designs, D.mems = << >>, Quiet(D), NEW t \in FreshRun(D)
  PROVE  Advance(D, t) \in FreshRun(D)
<1> DEFINE U == Advance(D, t)
<1>1. t \in State(D) /\ U \in State(D) /\ t.tc \in Nat /\ t.traces \in Seq(Valuation)
  BY AdvanceFacts, StateParts DEF FreshRun
<1>2. CASE t.exit # "ok"
  BY <1>2, AdvanceFacts DEF FreshRun
<1>3. CASE t.exit = "ok" /\ HasSeq(D)
  <2> DEFINE s == Seeded(D, t)
             P == Settled(D, s)
  <2>1. /\ U = SeqTick(D, t) /\ s \in State(D) /\ OnlyPart(t, s)
        /\ s.exit # "ok" => U = s
        /\ s.exit = "ok" => U = Emit(P)
    BY <1>1, <1>3, AdvanceFacts, SeqTickFacts
  <2>2. s.exit = "ok" => Fresh(D, s.sig)
    BY <1>1, <1>3, SeedFresh DEF Seeded, FreshRun
  <2> HIDE DEF s, U
  <2>3. CASE s.exit # "ok"
    BY <1>1, <2>1, <2>3 DEF FreshRun, U
  <2>4. CASE s.exit = "ok"
    <3>1. P \in State(D) /\ (P.exit = "ok" => Fresh(D, P.sig))
      BY <2>1, <2>2, <2>4, TickFresh, StageFacts
    <3>2. P.traces = t.traces
      <4>1. Begun(s).traces = s.traces /\ Begun(s) \in State(D) /\ Noted(s.sig, Begun(s))
        BY <2>1, BegunFacts DEF Noted, Differing
      <4>2. Clocked(D, s).traces = s.traces
        BY <4>1, ToggleFacts DEF Clocked, OnlyClocks
      <4>3. Held(D, s).traces = s.traces
        BY <2>1, <4>2, StageFacts, AsyncFacts DEF Held, OnlyResets, OnlyClocks
      <4>4. Ran(D, s).traces = s.traces
        BY <2>1, <4>3, StageFacts, RunDomainsFacts DEF Ran, OnlyPart
      <4>5. Ported(D, s).traces = s.traces
        BY <2>1, <4>4, StageFacts, PortsFacts DEF Ported
      <4>6. P.traces = s.traces
        BY <2>1, <4>5, StageFacts, SettleFacts DEF Settled, OnlyPart
      <4> QED
        BY <2>1, <4>6 DEF OnlyPart
    <3>3. P.sig \in Valuation
      BY <3>1, StateParts
    <3> HIDE DEF P
    <3>4. /\ U.sig = P.sig /\ U.exit = P.exit
          /\ U.traces = t.traces \/ U.traces = Append(t.traces, P.sig)
      BY <2>1, <2>4, <3>1, <3>2, EmitFacts
    <3>5. U.exit = "ok" => Fresh(D, U.sig)
      BY <3>1, <3>4
    <3>6. U.exit = "ok" /\ U.traces # << >> => Fresh(D, Last(U.traces))
      <4>1. CASE U.traces = t.traces
        BY <1>1, <1>3, <4>1 DEF FreshRun
      <4>2. CASE U.traces = Append(t.traces, P.sig)
        <5>1. Last(Append(t.traces, P.sig)) = P.sig
          BY <1>1, <3>3, LastAppended
        <5> QED
          BY <3>4, <3>5, <4>2, <5>1
      <4> QED
        BY <3>4, <4>1, <4>2
    <3> QED
      BY <1>1, <3>5, <3>6 DEF FreshRun, U
  <2> QED
    BY <2>3, <2>4
<1>4. CASE t.exit = "ok" /\ ~HasSeq(D)
  <2>1. U = CombTick(D, t)
    BY <1>1, <1>4, AdvanceFacts
  <2> HIDE DEF U
  <2>2. /\ U.exit = "ok" => Fresh(D, U.sig)
        /\ U.exit # "error" => U.traces = Append(t.traces, U.sig)
        /\ U.sig \in Valuation
    BY <1>1, <2>1, CombTickIsPass, StateParts
  <2>3. Last(Append(t.traces, U.sig)) = U.sig
    BY <1>1, <2>2, LastAppended
  <2>4. U.exit = "ok" /\ U.traces # << >> => Fresh(D, Last(U.traces))
    BY <2>2, <2>3
  <2> QED
    BY <1>1, <1>4, <2>4 DEF FreshRun, U
<1> QED
  BY <1>2, <1>3, <1>4

\* The last point of a run that was not ended early is in agreement.
LEMMA RunFresh ==
  ASSUME NEW D \in Designs, D.mems = << >>, Quiet(D), NEW initial \in Outcome, NEW n \in Nat,
         Run(D, initial, n).exit = "ok", Run(D, initial, n).traces # << >>
  PROVE  Fresh(D, Last(Run(D, initial, n).traces))
<1>1. initial.exit = "ok" /\ initial.sig \in Valuation
  BY RunFacts DEF Outcome
<1>2. Start(D, initial.sig) \in FreshRun(D)
  <2>1. Start(D, initial.sig) \in State(D)
    BY <1>1, StartFacts
  <2>2. Start(D, initial.sig).tc = 0 /\ Start(D, initial.sig).traces = << >>
    BY DEF Start
  <2> QED
    BY <2>1, <2>2 DEF FreshRun
<1>3. \A t \in FreshRun(D) : Advance(D, t) \in FreshRun(D)
  BY AdvanceFresh
<1>4. FreshRun(D) \in SUBSET State(D)
  BY DEF FreshRun
<1>5. Run(D, initial, n) \in FreshRun(D)
  BY <1>1, <1>2, <1>3, <1>4, RunKeeps
<1> QED
  BY <1>5 DEF FreshRun

\* After a tick that brought a trace, with nothing forced any more, no component
\* of a quiet design without memories disagrees with what the signals hold,
\* whatever the test set or forced before.  (In one that is not quiet, an
\* asynchronous reset between edges leaves components behind.)
THEOREM NothingLeftOver == Spec => [](Quiet(design) => SettledAfterTick)
<1> DEFINE Q == Quiet(design) => SettledAfterTick
<1>1. Init => Q
  BY DEF Init, SettledAfterTick
<1>2. TypeInv /\ Q /\ [Next]_vars => Q'
  <2> SUFFICES ASSUME TypeInv, Q, [Next]_vars PROVE Q'
    OBVIOUS
  <2>1. ASSUME traced' = FALSE PROVE Q'
    BY <2>1 DEF SettledAfterTick
  <2>2. ASSUME NEW n \in 1 .. MaxTicks, Tick(n) PROVE Q'
    <3> DEFINE t == Simulate(sig, n)
    <3> SUFFICES ASSUME Quiet(design)', traced', forced' = << >>, whole', (design.mems = << >>)',
                        NEW c \in 1 .. Len(design'.comps)
                 PROVE  Exec(design'.comps[c].block, sig').sig = sig'
      BY DEF SettledAfterTick
    <3>1. /\ design' = design /\ forced = << >> /\ t.traces # << >> /\ t.exit = "ok"
          /\ sig' = [s \in Signal |-> IF s \in DOMAIN forced THEN forced[s]
                                      ELSE LastTraced(sig, t)[s]]
      BY <2>2 DEF Tick, Takes
    <3>2. Quiet(design) /\ design.mems = << >> /\ design \in Designs /\ sig \in Kept /\ n \in Nat
      BY <3>1, TestAssumption DEF TypeInv, TypeOK, Kept
    <3>3. /\ Exec(design.initial, Fitted(sig)) \in Outcome /\ TicksOf(n) \in Nat
          /\ t = Run(design, Exec(design.initial, Fitted(sig)), TicksOf(n))
          /\ t.traces \in Seq(Valuation)
      BY <3>2, SimulateFacts DEF Simulate
    <3> HIDE DEF t
    <3>4. Fresh(design, Last(t.traces))
      BY <3>1, <3>2, <3>3, RunFresh
    <3>5. LastTraced(sig, t) \in Valuation /\ LastTraced(sig, t) = Last(t.traces)
      BY <3>1, <3>2, <3>3, TracedFacts DEF LastTraced
    <3>6. sig' = Last(t.traces)
      BY <3>1, <3>5 DEF Valuation
    <3>7. Agrees(design.comps[c].block, sig')
      BY <3>1, <3>4, <3>6 DEF Fresh, Comp, Block
    <3> QED
      BY <3>1, <3>7 DEF Agrees, Ok
  <2>3. CASE UNCHANGED vars
    BY <2>3 DEF vars, SettledAfterTick
  <2>4. ASSUME NEW n \in 1 .. MaxTicks, TickRaises(n) PROVE Q'
    BY <2>3, <2>4 DEF TickRaises
  <2> QED
    BY <2>1, <2>2, <2>3, <2>4 DEF Next, SetSignal, ForceSignal, ReleaseSignal
<1> QED
  BY <1>1, <1>2, TypeInvariant, PTL DEF Spec

-----------------------------------------------------------------------------
\* Clocks of one rate.

OneRate(D) == \A i \in Doms(D) : D.domains[i].hpt = 1

\* No domain has an asynchronous reset.
Unheld(D) == \A i \in Doms(D) : D.domains[i].style # "async"

\* All clocks at one level.
Level(D, l) == [i \in Doms(D) |-> l]

\* A valuation with the clocks at a level.
AtLevel(D, S, l) == [s \in Signal |-> IF s \in Clocks(D) THEN LevelValue(l) ELSE S[s]]

\* The domains that fire when the clocks reach a level.
Firing(D, l) == { i \in Doms(D) : EdgeFires(D.domains[i].edge, l) }

\* The clocks of the first k domains have toggled.
FirstToggled(D, t, l, k) ==
  { u \in Clocking(D) :
      /\ \A i \in Doms(D) : u.clock[i] = IF i <= k THEN l ELSE 1 - l
      /\ \A i \in Doms(D) : i \in u.due <=> i <= k /\ EdgeFires(D.domains[i].edge, l)
      /\ \A s \in Signal :
           u.sig[s] = IF \E i \in Doms(D) : i <= k /\ s = D.domains[i].clk THEN LevelValue(l)
                      ELSE t.sig[s] }

LEMMA ToggleStep ==
  ASSUME NEW D \in Designs, OneRate(D), NEW t \in State(D), NEW l \in {0, 1}, NEW k \in Doms(D),
         NEW u \in FirstToggled(D, t, l, k - 1)
  PROVE  Toggles(D, t.tc, k)[u] \in FirstToggled(D, t, l, k)
<1> DEFINE d == D.domains[k]
           r == Toggles(D, t.tc, k)[u]
           T == [u.sig EXCEPT ![d.clk] = LevelValue(l)]
           C == [u.clock EXCEPT ![k] = l]
           M == u.moved \cup (IF u.sig[d.clk] = LevelValue(l) THEN {} ELSE {d.clk})
           F == u.due \cup (IF EdgeFires(d.edge, l) THEN {k} ELSE {})
<1>1. /\ u \in Clocking(D) /\ u.sig \in Valuation /\ u.clock \in [Doms(D) -> {0, 1}]
      /\ Doms(D) \subseteq Nat /\ d.clk \in Signal /\ k \in Nat
  BY DesignFacts DEF FirstToggled, Clocking, Valuation, Doms, DomainOK
<1>2. t.tc % d.hpt = 0
  <2>1. d.hpt = 1 /\ t.tc \in Nat
    BY StateParts DEF OneRate
  <2> QED
    BY <2>1
<1>3. 1 - u.clock[k] = l
  <2>1. u.clock[k] = 1 - l
    BY <1>1 DEF FirstToggled
  <2> QED
    BY <2>1
<1>4. r = [sig |-> T, clock |-> C, moved |-> M, due |-> F]
  BY <1>1, <1>2, <1>3 DEF Toggles
<1>5. r \in Clocking(D)
  BY <1>1, TogglesFacts DEF TogglesWell
<1>6. r.sig = T /\ r.clock = C /\ r.due = F
  BY <1>4
<1> HIDE DEF r
<1>7. \A i \in Doms(D) : C[i] = IF i <= k THEN l ELSE 1 - l
  <2> SUFFICES ASSUME NEW i \in Doms(D) PROVE C[i] = IF i <= k THEN l ELSE 1 - l
    OBVIOUS
  <2>1. u.clock[i] = IF i <= k - 1 THEN l ELSE 1 - l
    BY DEF FirstToggled
  <2> QED
    BY <1>1, <2>1
<1>8. \A i \in Doms(D) : i \in F <=> i <= k /\ EdgeFires(D.domains[i].edge, l)
  <2> SUFFICES ASSUME NEW i \in Doms(D)
               PROVE  i \in F <=> i <= k /\ EdgeFires(D.domains[i].edge, l)
    OBVIOUS
  <2>1. i \in u.due <=> i <= k - 1 /\ EdgeFires(D.domains[i].edge, l)
    BY DEF FirstToggled
  <2> QED
    BY <1>1, <2>1
<1>9. \A s \in Signal :
        T[s] = IF \E i \in Doms(D) : i <= k /\ s = D.domains[i].clk THEN LevelValue(l)
               ELSE t.sig[s]
  <2> SUFFICES ASSUME NEW s \in Signal
               PROVE  T[s] = IF \E i \in Doms(D) : i <= k /\ s = D.domains[i].clk
                             THEN LevelValue(l) ELSE t.sig[s]
    OBVIOUS
  <2>1. u.sig[s] = IF \E i \in Doms(D) : i <= k - 1 /\ s = D.domains[i].clk THEN LevelValue(l)
                   ELSE t.sig[s]
    BY DEF FirstToggled
  <2>2. CASE s = d.clk
    BY <1>1, <2>2 DEF Valuation
  <2>3. CASE s # d.clk
    <3>1. T[s] = u.sig[s]
      BY <1>1, <2>3 DEF Valuation
    <3>2. (\E i \in Doms(D) : i <= k /\ s = D.domains[i].clk)
            <=> (\E i \in Doms(D) : i <= k - 1 /\ s = D.domains[i].clk)
      BY <1>1, <2>3
    <3> QED
      BY <2>1, <3>1, <3>2
  <2> QED
    BY <2>2, <2>3
<1>10. r \in FirstToggled(D, t, l, k)
  BY <1>5, <1>6, <1>7, <1>8, <1>9 DEF FirstToggled
<1> QED
  BY <1>10 DEF r

\* All clocks toggle in every tick, together.
LEMMA ToggleTogether ==
  ASSUME NEW D \in Designs, OneRate(D), NEW t \in State(D), NEW l \in {0, 1},
         t.clock = Level(D, 1 - l), t.due = {}
  PROVE  LET U == Toggle(D, t)
         IN  U.sig = AtLevel(D, t.sig, l) /\ U.clock = Level(D, l) /\ U.due = Firing(D, l)
<1> DEFINE A == Clocking(D)
           steps == [i \in Doms(D) |-> Toggles(D, t.tc, i)]
           v == Through(steps, ClockPart(t))
           n == Len(D.domains)
           U == Toggle(D, t)
           B == [k \in 0 .. n |-> FirstToggled(D, t, l, k)]
<1>1. /\ Len(steps) = n /\ n \in Nat
      /\ \A i \in 1 .. n : steps[i] \in [A -> A]
      /\ ClockPart(t) \in A
      /\ v \in A =>
           /\ U \in State(D) /\ OnlyClocks(t, U)
           /\ U.sig = v.sig /\ U.clock = v.clock /\ U.moved = v.moved /\ U.due = v.due
  BY ToggleLoop
<1>2. Doms(D) = 1 .. n
  BY DEF Doms
<1>3. ClockPart(t) \in B[0]
  <2>1. \A i \in Doms(D) : ~(i <= 0)
    BY <1>1, <1>2
  <2>2. ClockPart(t) \in FirstToggled(D, t, l, 0)
    BY <1>1, <2>1 DEF FirstToggled, ClockPart, Level
  <2> QED
    BY <1>1, <2>2
<1>4. \A k \in 1 .. n : \A b \in B[k - 1] : steps[k][b] \in B[k]
  <2> SUFFICES ASSUME NEW k \in 1 .. n, NEW b \in B[k - 1] PROVE steps[k][b] \in B[k]
    OBVIOUS
  <2>1. k \in 0 .. n /\ k - 1 \in 0 .. n /\ k \in Doms(D)
    BY <1>1, <1>2
  <2>2. B[k] = FirstToggled(D, t, l, k) /\ B[k - 1] = FirstToggled(D, t, l, k - 1)
    BY <2>1
  <2>3. steps[k] = Toggles(D, t.tc, k)
    BY <2>1
  <2> HIDE DEF B, steps
  <2> QED
    BY <2>1, <2>2, <2>3, ToggleStep
<1>5. \A k \in 0 .. n : B[k] \subseteq A
  BY DEF FirstToggled
<1>6. B[n] = FirstToggled(D, t, l, n)
  BY <1>1
<1> HIDE DEF A, B, steps, v, n, U
<1>7. Through(steps, ClockPart(t)) \in B[n]
  BY <1>1, <1>3, <1>4, <1>5, ThroughLeads
<1>8. v \in FirstToggled(D, t, l, n)
  BY <1>6, <1>7 DEF v
<1>9. /\ v \in A /\ v.sig \in Valuation /\ v.clock \in [Doms(D) -> {0, 1}] /\ v.due \subseteq Doms(D)
      /\ \A i \in Doms(D) : i <= n
  BY <1>1, <1>2, <1>8 DEF FirstToggled, A, Clocking, Valuation
<1>10. v.clock = Level(D, l)
  <2>1. \A i \in Doms(D) : v.clock[i] = l
    BY <1>8, <1>9 DEF FirstToggled
  <2> QED
    BY <1>9, <2>1 DEF Level
<1>11. v.due = Firing(D, l)
  <2>1. \A i \in Doms(D) : i \in v.due <=> EdgeFires(D.domains[i].edge, l)
    BY <1>8, <1>9 DEF FirstToggled
  <2> QED
    BY <1>9, <2>1 DEF Firing
<1>12. v.sig = AtLevel(D, t.sig, l)
  <2>1. ASSUME NEW s \in Signal PROVE v.sig[s] = AtLevel(D, t.sig, l)[s]
    <3>1. v.sig[s] = IF \E i \in Doms(D) : i <= n /\ s = D.domains[i].clk THEN LevelValue(l)
                     ELSE t.sig[s]
      BY <1>8 DEF FirstToggled
    <3>2. (\E i \in Doms(D) : i <= n /\ s = D.domains[i].clk) <=> s \in Clocks(D)
      BY <1>9 DEF Clocks
    <3> QED
      BY <3>1, <3>2 DEF AtLevel
  <2> QED
    BY <1>9, <2>1 DEF AtLevel, Valuation
<1> QED
  BY <1>1, <1>9, <1>10, <1>11, <1>12 DEF U

\* What a tick of such a design makes of the clocks, of what fires, of the count
\* and of the traces.
LEMMA TickTogether ==
  ASSUME NEW D \in Designs, OneRate(D), Unheld(D), NEW s \in State(D), NEW l \in {0, 1},
         s.clock = Level(D, 1 - l)
  PROVE  LET U == Emit(Settled(D, s))
         IN  /\ Held(D, s).sig = AtLevel(D, s.sig, l) /\ Held(D, s).due = Firing(D, l)
             /\ Held(D, s).exit = s.exit
             /\ U \in State(D) /\ U.sig = Settled(D, s).sig /\ U.exit = Settled(D, s).exit
             /\ U.clock = Level(D, l) /\ U.tc = s.tc + 1
             /\ Firing(D, l) = {} \/ U.exit = "error" => U.traces = s.traces
             /\ ~(Firing(D, l) = {} \/ U.exit = "error") => U.traces = Append(s.traces, U.sig)
<1> DEFINE B == Begun(s)
           C == Clocked(D, s)
           H == Held(D, s)
           R == Ran(D, s)
           P == Ported(D, s)
           Z == Settled(D, s)
           U == Emit(Settled(D, s))
<1>1. /\ B \in State(D) /\ C \in State(D) /\ H \in State(D) /\ R \in State(D) /\ P \in State(D)
      /\ Z \in State(D) /\ Noted(s.sig, C) /\ Noted(s.sig, H)
  BY StageFacts
<1>2. /\ B.sig = s.sig /\ B.clock = s.clock /\ B.exit = s.exit /\ B.traces = s.traces
      /\ B.tc = s.tc + 1 /\ B.due = {} /\ Noted(s.sig, B)
  BY BegunFacts DEF Noted, Differing
<1>3. C.sig = AtLevel(D, s.sig, l) /\ C.clock = Level(D, l) /\ C.due = Firing(D, l)
  BY <1>1, <1>2, ToggleTogether DEF Clocked
<1>4. OnlyClocks(B, C)
  BY <1>1, <1>2, ToggleFacts DEF Clocked
<1>5. /\ OnlyResets(C, H) /\ H.due \subseteq C.due
      /\ \A x \in Differing(H.sig, C.sig) :
           \E i \in Doms(D) : D.domains[i].style = "async" /\ x \in D.domains[i].written
      /\ \A i \in C.due : D.domains[i].style # "async" => i \in H.due
  BY <1>1, AsyncFacts DEF Held
<1>6. H.sig = C.sig
  <2>1. Differing(H.sig, C.sig) = {}
    BY <1>5 DEF Unheld
  <2>2. H.sig \in Valuation /\ C.sig \in Valuation
    BY <1>1, StateParts
  <2> HIDE DEF H, C
  <2> QED
    BY <2>1, <2>2 DEF Differing, Valuation
<1>7. H.due = C.due
  <2>1. C.due \subseteq Doms(D)
    BY <1>1, StateParts
  <2> QED
    BY <1>5, <2>1 DEF Unheld
<1>8. OnlyPart(H, R)
  BY <1>1, RunDomainsFacts DEF Ran
<1>9. /\ P.clock = R.clock /\ P.tc = R.tc /\ P.due = R.due /\ P.traces = R.traces
  BY <1>1, PortsFacts DEF Ported
<1>10. OnlyPart(P, Z)
  BY <1>1, SettleFacts DEF Settled
<1>11. /\ U \in State(D) /\ U.sig = Z.sig /\ U.clock = Z.clock /\ U.tc = Z.tc /\ U.exit = Z.exit
       /\ Z.due = {} \/ Z.exit = "error" => U.traces = Z.traces
       /\ ~(Z.due = {} \/ Z.exit = "error") => U.traces = Append(Z.traces, Z.sig)
  BY <1>1, EmitFacts
<1> HIDE DEF B, C, H, R, P, Z, U
<1>12. H.clock = C.clock /\ H.tc = B.tc /\ H.exit = B.exit /\ H.traces = B.traces
  BY <1>4, <1>5 DEF OnlyResets, OnlyClocks
<1>13. Z.clock = C.clock /\ Z.tc = B.tc /\ Z.due = C.due /\ Z.traces = B.traces
  BY <1>7, <1>8, <1>9, <1>10, <1>12 DEF OnlyPart
<1>14. H.sig = AtLevel(D, s.sig, l) /\ H.due = Firing(D, l) /\ H.exit = s.exit
  BY <1>2, <1>3, <1>6, <1>7, <1>12
<1>15. /\ U \in State(D) /\ U.sig = Z.sig /\ U.exit = Z.exit
       /\ U.clock = Level(D, l) /\ U.tc = s.tc + 1
       /\ Firing(D, l) = {} \/ U.exit = "error" => U.traces = s.traces
       /\ ~(Firing(D, l) = {} \/ U.exit = "error") => U.traces = Append(s.traces, U.sig)
  BY <1>2, <1>3, <1>11, <1>13
<1> QED
  BY <1>14, <1>15 DEF H, Z, U

\* The level the clocks reach in the next tick after n.
LevelAfter(n) == 1 - (n % 2)

LEMMA Levels ==
  ASSUME NEW n \in Nat
  PROVE  /\ n % 2 \in {0, 1} /\ LevelAfter(n) \in {0, 1} /\ 1 - LevelAfter(n) = n % 2
         /\ (n + 1) % 2 = LevelAfter(n)
<1>1. n % 2 = 0 \/ n % 2 = 1
  OBVIOUS
<1>2. (n + 1) % 2 = 1 - (n % 2)
  OBVIOUS
<1> QED
  BY <1>1, <1>2 DEF LevelAfter

-----------------------------------------------------------------------------
\* A run, tick by tick.

At(D, S, n) == Through(Ticking(D, n), Start(D, S))

LEMMA AtFacts ==
  ASSUME NEW D \in Designs, NEW S \in Valuation
  PROVE  /\ At(D, S, 0) = Start(D, S)
         /\ \A n \in Nat : At(D, S, n) \in State(D) /\ At(D, S, n + 1) = Advance(D, At(D, S, n))
<1> DEFINE a == Start(D, S)
<1>1. a \in State(D)
  BY StartFacts
<1>2. ASSUME NEW n \in Nat
      PROVE  /\ Through(Ticking(D, n), a) \in State(D)
             /\ Through(Upto(Ticking(D, n), n), a) = Through(Ticking(D, n), a)
             /\ Through(Upto(Ticking(D, n), 0), a) = a
  <2>1. Ticking(D, n) \in [1 .. n -> [State(D) -> State(D)]]
    BY TickingFacts
  <2>2. n \in 0 .. n
    OBVIOUS
  <2> QED
    BY <1>1, <2>1, <2>2, ThroughUpto
<1>3. ASSUME NEW n \in Nat
      PROVE  Through(Ticking(D, n + 1), a) = Advance(D, Through(Ticking(D, n), a))
  <2> DEFINE m == n + 1
  <2>1. m \in Nat /\ m \in 1 .. m /\ m - 1 = n /\ n \in 0 .. m
    OBVIOUS
  <2>2. Upto(Ticking(D, m), n) = Ticking(D, n)
    BY DEF Upto, Ticking
  <2> HIDE DEF m, a
  <2>3. /\ Ticking(D, m) \in [1 .. m -> [State(D) -> State(D)]]
        /\ \A t \in State(D) : Ticking(D, m)[m][t] = Advance(D, t)
    BY <2>1, TickingFacts
  <2>4. /\ Through(Upto(Ticking(D, m), m), a) = Ticking(D, m)[m][Through(Upto(Ticking(D, m), m - 1), a)]
        /\ Upto(Ticking(D, m), m) = Ticking(D, m)
    BY <1>1, <2>1, <2>3, ThroughUpto
  <2>5. Through(Ticking(D, m), a) = Ticking(D, m)[m][Through(Ticking(D, n), a)]
    BY <2>1, <2>2, <2>4
  <2>6. Through(Ticking(D, n), a) \in State(D)
    BY <1>2
  <2> QED
    BY <2>3, <2>5, <2>6 DEF m
<1>4. Through(Ticking(D, 0), a) = a
  <2>1. Ticking(D, 0) \in [1 .. 0 -> [State(D) -> State(D)]] /\ Len(Ticking(D, 0)) = 0
    BY TickingFacts
  <2> HIDE DEF a
  <2> QED
    BY <1>1, <2>1, ThroughNothing
<1> QED
  BY <1>2, <1>3, <1>4 DEF At

\* What holds of the first state, and of the next one in every tick, holds all along.
LEMMA AtLeads ==
  ASSUME NEW D \in Designs, NEW S \in Valuation, NEW B, Start(D, S) \in B[0],
         \A n \in Nat : At(D, S, n) \in B[n] => Advance(D, At(D, S, n)) \in B[n + 1],
         NEW n \in Nat
  PROVE  At(D, S, n) \in B[n]
<1> DEFINE Bad == { k \in Nat : At(D, S, k) \notin B[k] }
<1>1. ASSUME Bad # {} PROVE FALSE
  <2>1. PICK m \in Bad : \A k \in Bad : m <= k
    <3>1. Bad \in SUBSET Nat
      OBVIOUS
    <3> QED
      BY <1>1, <3>1, LeastNatural
  <2>2. m # 0
    BY AtFacts
  <2>3. m - 1 \in Nat /\ m - 1 \notin Bad /\ m = (m - 1) + 1
    BY <2>1, <2>2
  <2>4. At(D, S, m - 1) \in B[m - 1]
    BY <2>3
  <2>5. At(D, S, m) = Advance(D, At(D, S, m - 1))
    BY <2>3, AtFacts
  <2> QED
    BY <2>1, <2>3, <2>4, <2>5
<1> QED
  BY <1>1

\* Its clocks stand as the number of its ticks has it.
InStep(D, n) ==
  { t \in State(D) : t.exit = "ok" /\ HasSeq(D) => t.tc = n /\ t.clock = Level(D, n % 2) }

LEMMA AdvanceTogether ==
  ASSUME NEW D \in Designs, OneRate(D), Unheld(D), HasSeq(D), NEW n \in Nat,
         NEW t \in InStep(D, n), t.exit = "ok"
  PROVE  LET s == Seeded(D, t)
             U == Advance(D, t)
             l == LevelAfter(n)
         IN  /\ t \in State(D) /\ s \in State(D) /\ U \in State(D) /\ s.traces = t.traces
             /\ s.clock = t.clock /\ t.clock = Level(D, 1 - l) /\ t.tc = n
             /\ s.exit # "ok" => U = s
             /\ s.exit = "ok" =>
                  /\ U.exit = Settled(D, s).exit /\ U.sig = Settled(D, s).sig
                  /\ Held(D, s).sig = AtLevel(D, s.sig, l) /\ Held(D, s).due = Firing(D, l)
                  /\ Held(D, s).exit = "ok"
                  /\ Firing(D, l) = {} \/ U.exit = "error" => U.traces = t.traces
                  /\ ~(Firing(D, l) = {} \/ U.exit = "error") =>
                       U.traces = Append(t.traces, U.sig)
             /\ U \in InStep(D, n + 1)
<1> DEFINE s == Seeded(D, t)
           U == Advance(D, t)
           l == LevelAfter(n)
<1>1. /\ t \in State(D) /\ t.tc = n /\ t.clock = Level(D, n % 2)
      /\ l \in {0, 1} /\ 1 - l = n % 2 /\ (n + 1) % 2 = l
  BY Levels DEF InStep
<1>2. /\ s \in State(D) /\ OnlyPart(t, s) /\ U \in State(D)
      /\ s.exit # "ok" => U = s
      /\ s.exit = "ok" => U = Emit(Settled(D, s))
  BY <1>1, AdvanceFacts, SeqTickFacts
<1> HIDE DEF s, U, l
<1>3. s.clock = t.clock /\ s.tc = t.tc /\ s.traces = t.traces /\ t.clock = Level(D, 1 - l)
  BY <1>1, <1>2 DEF OnlyPart
<1>4. CASE s.exit # "ok"
  <2>1. U = s /\ U \in InStep(D, n + 1)
    BY <1>2, <1>4 DEF InStep
  <2> QED
    BY <1>1, <1>2, <1>3, <1>4, <2>1 DEF s, U, l
<1>5. CASE s.exit = "ok"
  <2>1. /\ Held(D, s).sig = AtLevel(D, s.sig, l) /\ Held(D, s).due = Firing(D, l)
        /\ Held(D, s).exit = s.exit
        /\ U \in State(D) /\ U.sig = Settled(D, s).sig /\ U.exit = Settled(D, s).exit
        /\ U.clock = Level(D, l) /\ U.tc = s.tc + 1
        /\ Firing(D, l) = {} \/ U.exit = "error" => U.traces = s.traces
        /\ ~(Firing(D, l) = {} \/ U.exit = "error") => U.traces = Append(s.traces, U.sig)
    <3>1. s \in State(D) /\ s.clock = Level(D, 1 - l) /\ l \in {0, 1} /\ U = Emit(Settled(D, s))
      BY <1>1, <1>2, <1>3, <1>5
    <3> QED
      BY <3>1, TickTogether
  <2>2. U \in InStep(D, n + 1)
    BY <1>1, <1>3, <2>1 DEF InStep
  <2> QED
    BY <1>1, <1>2, <1>3, <1>5, <2>1, <2>2 DEF s, U, l
<1> QED
  BY <1>4, <1>5

LEMMA StartInStep ==
  ASSUME NEW D \in Designs, NEW S \in Valuation
  PROVE  Start(D, S) \in InStep(D, 0)
<1>1. Start(D, S) \in State(D)
  BY StartFacts
<1>2. Start(D, S).tc = 0 /\ Start(D, S).clock = Level(D, 0) /\ 0 % 2 = 0
  BY DEF Start, Level
<1> QED
  BY <1>1, <1>2 DEF InStep

-----------------------------------------------------------------------------
\* One trace per cycle.

\* Every domain fires at the same edge of its clock, and not at both.
OneEdge(D) ==
  \A i, j \in Doms(D) : D.domains[i].edge = D.domains[j].edge /\ D.domains[i].edge # "both"

\* The edges among the first n ticks; a combinational design traces every tick.
Edges(D, n) ==
  IF ~HasSeq(D) THEN n ELSE IF D.domains[1].edge = "pos" THEN (n + 1) \div 2 ELSE n \div 2

LEMMA EdgesFacts ==
  ASSUME NEW D \in Designs, OneEdge(D), HasSeq(D), NEW n \in Nat
  PROVE  /\ Firing(D, LevelAfter(n)) = {} => Edges(D, n + 1) = Edges(D, n)
         /\ Firing(D, LevelAfter(n)) # {} => Edges(D, n + 1) = Edges(D, n) + 1
<1> DEFINE e == D.domains[1].edge
           l == LevelAfter(n)
<1>1. 1 \in Doms(D) /\ e \in {"pos", "neg"} /\ \A i \in Doms(D) : D.domains[i].edge = e
  <2>1. 1 \in Doms(D) /\ DomainOK(D.domains[1])
    BY DesignFacts DEF Doms
  <2> QED
    BY <2>1 DEF OneEdge, DomainOK
<1>2. Firing(D, l) = {} <=> ~EdgeFires(e, l)
  BY <1>1 DEF Firing
<1>3. (n % 2 = 0 /\ l = 1) \/ (n % 2 = 1 /\ l = 0)
  BY Levels DEF LevelAfter
<1>4. EdgeFires(e, l) <=> (e = "pos" <=> l = 1)
  BY <1>1, <1>3 DEF EdgeFires
<1>5. /\ n % 2 = 0 => (n + 1) \div 2 = n \div 2 /\ (n + 2) \div 2 = n \div 2 + 1
      /\ n % 2 = 1 => (n + 1) \div 2 = n \div 2 + 1 /\ (n + 2) \div 2 = n \div 2 + 1
  OBVIOUS
<1>6. (n + 1) + 1 = n + 2
  OBVIOUS
<1>7. /\ e = "pos" => Edges(D, n) = (n + 1) \div 2 /\ Edges(D, n + 1) = (n + 2) \div 2
      /\ e = "neg" => Edges(D, n) = n \div 2 /\ Edges(D, n + 1) = (n + 1) \div 2
  BY <1>6 DEF Edges
<1> HIDE DEF e, l
<1>8. (Firing(D, l) = {} => Edges(D, n + 1) = Edges(D, n))
       /\ (Firing(D, l) # {} => Edges(D, n + 1) = Edges(D, n) + 1)
  BY <1>1, <1>2, <1>3, <1>4, <1>5, <1>7
<1> QED
  BY <1>8 DEF l

Counted(D, n) ==
  { t \in InStep(D, n) : t.exit = "ok" => Len(t.traces) = Edges(D, n) }

LEMMA AdvanceCounts ==
  ASSUME NEW D \in Designs, HasSeq(D) => OneRate(D) /\ Unheld(D) /\ OneEdge(D), NEW n \in Nat,
         NEW t \in Counted(D, n)
  PROVE  Advance(D, t) \in Counted(D, n + 1)
<1> DEFINE U == Advance(D, t)
<1>1. /\ t \in State(D) /\ t \in InStep(D, n) /\ U \in State(D) /\ t.traces \in Seq(Valuation)
      /\ U.sig \in Valuation
      /\ t.exit = "ok" => Len(t.traces) = Edges(D, n)
  BY AdvanceFacts, StateParts DEF Counted, InStep
<1>2. \A x : Len(Append(t.traces, x)) = Len(t.traces) + 1
  BY <1>1
<1>3. CASE t.exit # "ok"
  <2>1. U = t
    BY <1>1, <1>3, AdvanceFacts
  <2> HIDE DEF U
  <2> QED
    BY <1>1, <1>3, <2>1 DEF Counted, InStep, U
<1>4. CASE t.exit = "ok" /\ HasSeq(D)
  <2> DEFINE s == Seeded(D, t)
  <2>1. /\ U \in InStep(D, n + 1)
        /\ s.exit # "ok" => U = s
        /\ s.exit = "ok" =>
             /\ Firing(D, LevelAfter(n)) = {} \/ U.exit = "error" => U.traces = t.traces
             /\ ~(Firing(D, LevelAfter(n)) = {} \/ U.exit = "error") =>
                  U.traces = Append(t.traces, U.sig)
    BY <1>1, <1>4, AdvanceTogether
  <2>2. /\ Firing(D, LevelAfter(n)) = {} => Edges(D, n + 1) = Edges(D, n)
        /\ Firing(D, LevelAfter(n)) # {} => Edges(D, n + 1) = Edges(D, n) + 1
    BY <1>4, EdgesFacts
  <2> HIDE DEF U, s
  <2>3. U.exit = "ok" => Len(U.traces) = Edges(D, n + 1)
    BY <1>1, <1>2, <1>4, <2>1, <2>2
  <2> QED
    BY <2>1, <2>3 DEF Counted, U
<1>5. CASE t.exit = "ok" /\ ~HasSeq(D)
  <2>1. U = CombTick(D, t)
    BY <1>1, <1>5, AdvanceFacts
  <2>2. U.exit # "error" => U.traces = Append(t.traces, U.sig)
    <3>1. CombTick(D, t).exit # "error" =>
            CombTick(D, t).traces = Append(t.traces, CombTick(D, t).sig)
      BY <1>1, CombTickFacts
    <3> QED
      BY <2>1, <3>1
  <2>3. Edges(D, n) = n /\ Edges(D, n + 1) = n + 1
    BY <1>5 DEF Edges
  <2> HIDE DEF U
  <2>4. U.exit = "ok" => Len(U.traces) = Edges(D, n + 1)
    BY <1>1, <1>2, <1>5, <2>2, <2>3
  <2>5. U \in InStep(D, n + 1)
    BY <1>1, <1>5 DEF InStep
  <2> QED
    BY <2>4, <2>5 DEF Counted, U
<1> QED
  BY <1>3, <1>4, <1>5

LEMMA AtCounts ==
  ASSUME NEW D \in Designs, HasSeq(D) => OneRate(D) /\ Unheld(D) /\ OneEdge(D),
         NEW S \in Valuation, NEW n \in Nat
  PROVE  At(D, S, n) \in Counted(D, n)
<1> DEFINE B == [k \in Nat |-> Counted(D, k)]
<1>1. Start(D, S) \in Counted(D, 0)
  <2>1. Start(D, S) \in InStep(D, 0) /\ Len(Start(D, S).traces) = 0 /\ Edges(D, 0) = 0
    BY StartInStep DEF Start, Edges
  <2> QED
    BY <2>1 DEF Counted
<1>2. ASSUME NEW k \in Nat, At(D, S, k) \in B[k] PROVE Advance(D, At(D, S, k)) \in B[k + 1]
  BY <1>2, AdvanceCounts
<1>3. Start(D, S) \in B[0]
  BY <1>1
<1> HIDE DEF B
<1>4. At(D, S, n) \in B[n]
  BY <1>2, <1>3, AtLeads
<1> QED
  BY <1>4 DEF B

\* The run of a call of tick, if nothing ended it early.
LEMMA SimulateIsAt ==
  ASSUME design \in Designs, NEW S \in Kept, NEW n \in Nat, Simulate(S, n).exit = "ok"
  PROVE  LET initial == Exec(design.initial, Fitted(S))
         IN  /\ initial.exit = "ok" /\ initial.sig \in Valuation /\ TicksOf(n) \in Nat
             /\ Simulate(S, n) = At(design, initial.sig, TicksOf(n))
<1> DEFINE initial == Exec(design.initial, Fitted(S))
<1>1. initial \in Outcome /\ TicksOf(n) \in Nat
  BY SimulateFacts
<1>2. Simulate(S, n) = Run(design, initial, TicksOf(n))
  BY DEF Simulate
<1> HIDE DEF initial
<1>3. initial.exit = "ok" /\ initial.sig \in Valuation
  BY <1>1, <1>2, RunFacts DEF Outcome
<1>4. Run(design, initial, TicksOf(n)) = At(design, initial.sig, TicksOf(n))
  BY <1>1, <1>3, RunIsLoop DEF At
<1> QED
  BY <1>1, <1>2, <1>3, <1>4 DEF initial

\* What HistoryPerCycle asks of a design and of the runs.
Uniform == SingleRate /\ whole /\ OneEdge(design) /\ Unheld(design)

LEMMA CyclesTraced ==
  ASSUME design \in Designs, SingleRate, OneEdge(design), Unheld(design), NEW S \in Kept,
         NEW n \in Nat, Simulate(S, n).exit = "ok"
  PROVE  Len(Simulate(S, n).traces) = n
<1> DEFINE T == Exec(design.initial, Fitted(S)).sig
<1>1. T \in Valuation /\ TicksOf(n) \in Nat /\ Simulate(S, n) = At(design, T, TicksOf(n))
  BY SimulateIsAt
<1>2. OneRate(design)
  BY DEF SingleRate, OneRate, Doms
<1> HIDE DEF T
<1>3. At(design, T, TicksOf(n)) \in Counted(design, TicksOf(n))
  BY <1>1, <1>2, AtCounts
<1>4. Len(Simulate(S, n).traces) = Edges(design, TicksOf(n))
  BY <1>1, <1>3 DEF Counted
<1>5. Edges(design, TicksOf(n)) = n
  <2>1. CASE ~HasSeq(design)
    BY <2>1 DEF Edges, TicksOf
  <2>2. CASE HasSeq(design)
    <3>1. 1 \in Doms(design)
      BY DesignFacts DEF Doms
    <3>2. design.domains[1].hpt = 1
      BY <1>2, <3>1 DEF OneRate
    <3>3. TicksOf(n) = 2 * n
      BY <2>2, <3>2 DEF TicksOf
    <3>4. (2 * n) \div 2 = n /\ (2 * n + 1) \div 2 = n
      OBVIOUS
    <3> QED
      BY <2>2, <3>3, <3>4 DEF Edges
  <2> QED
    BY <2>1, <2>2
<1> QED
  BY <1>4, <1>5

\* When one edge of one rate fires all the domains, no asynchronous reset holds
\* one back and $finish ended no run, the history has one entry per cycle and one
\* for the beginning: with memories, initial blocks and forced signals too.
THEOREM OneEntryPerCycle == Spec => [](Uniform => Len(history) = cycle + 1)
<1> DEFINE Q == Uniform => Len(history) = cycle + 1
<1>1. Init => Q
  <2> SUFFICES ASSUME Init PROVE Len(history) = cycle + 1
    OBVIOUS
  <2>1. history = <<sig>> /\ cycle = 0
    BY DEF Init
  <2> QED
    BY <2>1
<1>2. TypeInv /\ Q /\ [Next]_vars => Q'
  <2> SUFFICES ASSUME TypeInv, Q, [Next]_vars PROVE Q'
    OBVIOUS
  <2>1. ASSUME history' = history /\ cycle' = cycle /\ design' = design /\ whole' = whole PROVE Q'
    BY <2>1 DEF Uniform, SingleRate
  <2>2. ASSUME NEW n \in 1 .. MaxTicks, Tick(n) PROVE Q'
    <3> DEFINE t == Simulate(sig, n)
    <3> SUFFICES ASSUME Uniform' PROVE Len(history') = cycle' + 1
      OBVIOUS
    <3>1. /\ design' = design /\ whole /\ t.exit = "ok" /\ cycle' = cycle + n
          /\ history' = history \o Recorded(sig, n, t)
      BY <2>2 DEF Tick, Takes, Uniform
    <3>2. Uniform
      BY <3>1 DEF Uniform, SingleRate
    <3>3. /\ design \in Designs /\ sig \in Kept /\ n \in Nat /\ n >= 1 /\ history \in Seq(Kept)
          /\ cycle \in Nat
      BY TestAssumption DEF TypeInv, TypeOK, Kept
    <3>4. Len(t.traces) = n
      BY <3>1, <3>2, <3>3, CyclesTraced DEF Uniform
    <3>5. t.traces \in Seq(Valuation)
      BY <3>3, SimulateFacts
    <3> HIDE DEF t
    <3>6. Recorded(sig, n, t) = t.traces
      <4>1. t.traces # << >>
        BY <3>3, <3>4
      <4> QED
        BY <4>1 DEF Recorded
    <3>7. t.traces \in Seq(Kept)
      <4>1. Valuation \subseteq Kept
        BY DEF Valuation, Kept
      <4> QED
        BY <3>5, <4>1
    <3>8. Len(history') = Len(history) + n
      BY <3>1, <3>3, <3>4, <3>6, <3>7
    <3>9. Len(history) = cycle + 1
      BY <3>2
    <3> QED
      BY <3>1, <3>3, <3>8, <3>9
  <2>3. CASE UNCHANGED vars
    BY <2>1, <2>3 DEF vars
  <2>4. ASSUME NEW n \in 1 .. MaxTicks, TickRaises(n) PROVE Q'
    BY <2>3, <2>4 DEF TickRaises
  <2> QED
    BY <2>1, <2>2, <2>3, <2>4 DEF Next, SetSignal, ForceSignal, ReleaseSignal
<1> QED
  BY <1>1, <1>2, TypeInvariant, PTL DEF Spec

-----------------------------------------------------------------------------
\* Runs one after the other.

\* Two valuations that differ in clocks at most.
SameRest(D, S, T) == \A s \in Signal \ Clocks(D) : S[s] = T[s]

\* What a run can be continued from after n ticks: the last point of its trace
\* differs from where it stands in clocks at most, and both are in agreement.
Continuable(D, n) ==
  { t \in InStep(D, n) :
      t.exit = "ok" =>
        IF HasSeq(D)
        THEN /\ n = 0 => t.traces = << >>
             /\ n > 0 => Fresh(D, t.sig)
             /\ t.traces = << >> => n = 0 \/ (n = 1 /\ Firing(D, 1) = {})
             /\ t.traces # << >> =>
                  Fresh(D, Last(t.traces)) /\ SameRest(D, t.sig, Last(t.traces))
        ELSE n > 0 =>
               /\ t.traces # << >> /\ Last(t.traces) = t.sig
               /\ FirstAgree(D, Len(D.order), t.sig) }

\* No domain without an edge.
LEMMA SomeEdge ==
  ASSUME NEW D \in Designs
  PROVE  Firing(D, 1) # {} \/ Firing(D, 0) # {}
<1>1. 1 \in Doms(D) /\ D.domains[1].edge \in {"pos", "neg", "both"}
  <2>1. 1 \in Doms(D) /\ DomainOK(D.domains[1])
    BY DesignFacts DEF Doms
  <2> QED
    BY <2>1 DEF DomainOK
<1> QED
  BY <1>1 DEF Firing, EdgeFires

LEMMA AdvanceContinuable ==
  ASSUME NEW D \in Designs, D.mems = << >>, Quiet(D), OneRate(D), Unheld(D), NEW n \in Nat,
         NEW t \in Continuable(D, n)
  PROVE  Advance(D, t) \in Continuable(D, n + 1)
<1> DEFINE U == Advance(D, t)
           l == LevelAfter(n)
           s == Seeded(D, t)
<1>1. /\ t \in State(D) /\ t \in InStep(D, n) /\ U \in State(D) /\ U.sig \in Valuation
      /\ t.sig \in Valuation /\ t.traces \in Seq(Valuation)
  BY AdvanceFacts, StateParts DEF Continuable, InStep
<1>2. CASE t.exit # "ok"
  <2>1. U = t
    BY <1>1, <1>2, AdvanceFacts
  <2> HIDE DEF U
  <2> QED
    BY <1>1, <1>2, <2>1 DEF Continuable, InStep, U
<1>3. CASE t.exit = "ok" /\ ~HasSeq(D)
  <2>1. U = CombTick(D, t)
    BY <1>1, <1>3, AdvanceFacts
  <2>2. /\ CombTick(D, t).exit = "ok" => FirstAgree(D, Len(D.order), CombTick(D, t).sig)
        /\ CombTick(D, t).exit # "error" =>
             CombTick(D, t).traces = Append(t.traces, CombTick(D, t).sig)
    BY <1>1, CombTickIsPass
  <2> HIDE DEF U
  <2>3. Append(t.traces, U.sig) # << >> /\ Last(Append(t.traces, U.sig)) = U.sig
    BY <1>1, LastAppended
  <2>4. U.exit = "ok" => /\ U.traces # << >> /\ Last(U.traces) = U.sig
                         /\ FirstAgree(D, Len(D.order), U.sig)
    BY <2>1, <2>2, <2>3
  <2>5. U \in InStep(D, n + 1)
    BY <1>1, <1>3 DEF InStep
  <2> QED
    BY <1>3, <2>4, <2>5 DEF Continuable, U
<1>4. CASE t.exit = "ok" /\ HasSeq(D)
  <2>1. /\ s \in State(D) /\ s.traces = t.traces /\ t.tc = n
        /\ s.exit # "ok" => U = s
        /\ s.exit = "ok" =>
             /\ U.exit = Settled(D, s).exit /\ U.sig = Settled(D, s).sig
             /\ Held(D, s).sig = AtLevel(D, s.sig, l) /\ Held(D, s).due = Firing(D, l)
             /\ Held(D, s).exit = "ok"
             /\ Firing(D, l) = {} \/ U.exit = "error" => U.traces = t.traces
             /\ ~(Firing(D, l) = {} \/ U.exit = "error") => U.traces = Append(t.traces, U.sig)
        /\ U \in InStep(D, n + 1)
    BY <1>1, <1>4, AdvanceTogether
  <2>2. /\ n = 0 => t.traces = << >>
        /\ n > 0 => Fresh(D, t.sig)
        /\ t.traces = << >> => n = 0 \/ (n = 1 /\ Firing(D, 1) = {})
        /\ t.traces # << >> => Fresh(D, Last(t.traces)) /\ SameRest(D, t.sig, Last(t.traces))
    BY <1>4 DEF Continuable
  <2>3. n > 0 => s = t
    BY <2>1 DEF Seeded
  <2>4. s.exit = "ok" => Fresh(D, s.sig)
    <3>1. CASE n = 0
      <4>1. s = Seed(D, t)
        BY <2>1, <3>1 DEF Seeded
      <4> QED
        BY <1>1, <4>1, SeedFresh
    <3>2. CASE n > 0
      BY <2>2, <2>3, <3>2
    <3> QED
      BY <3>1, <3>2
  <2> SUFFICES ASSUME U.exit = "ok"
               PROVE  /\ Fresh(D, U.sig)
                      /\ U.traces = << >> => n + 1 = 1 /\ Firing(D, 1) = {}
                      /\ U.traces # << >> =>
                           Fresh(D, Last(U.traces)) /\ SameRest(D, U.sig, Last(U.traces))
    BY <1>4, <2>1 DEF Continuable
  <2>5. s.exit = "ok" /\ Settled(D, s).exit = "ok"
    BY <2>1
  <2>6. Fresh(D, U.sig)
    BY <2>1, <2>4, <2>5, TickFresh
  <2> HIDE DEF U, s
  <2>7. CASE Firing(D, l) # {}
    <3>1. U.traces = Append(t.traces, U.sig)
      BY <2>1, <2>5, <2>7
    <3>2. U.traces # << >> /\ Last(U.traces) = U.sig
      BY <1>1, <3>1, LastAppended
    <3> QED
      BY <2>6, <3>2 DEF SameRest
  <2>8. CASE Firing(D, l) = {}
    <3>1. U.traces = t.traces
      BY <2>1, <2>5, <2>8
    <3>2. U.sig = AtLevel(D, s.sig, l)
      BY <2>1, <2>5, <2>8, SilentTick
    <3>3. ASSUME t.traces = << >> PROVE n + 1 = 1 /\ Firing(D, 1) = {}
      <4>1. n = 0 \/ (n = 1 /\ Firing(D, 1) = {})
        BY <2>2, <3>3
      <4>2. n = 0 => l = 1
        BY DEF LevelAfter
      <4>3. n = 1 => l = 0
        BY DEF LevelAfter
      <4> QED
        BY <2>8, <4>1, <4>2, <4>3, SomeEdge
    <3>4. ASSUME t.traces # << >>
          PROVE  Fresh(D, Last(t.traces)) /\ SameRest(D, U.sig, Last(t.traces))
      <4>1. Fresh(D, Last(t.traces)) /\ SameRest(D, t.sig, Last(t.traces)) /\ s = t
        BY <2>2, <2>3, <3>4
      <4> QED
        BY <3>2, <4>1 DEF AtLevel, SameRest
    <3> QED
      BY <2>6, <3>1, <3>3, <3>4
  <2> QED
    BY <2>7, <2>8
<1> QED
  BY <1>2, <1>3, <1>4

LEMMA AtContinuable ==
  ASSUME NEW D \in Designs, D.mems = << >>, Quiet(D), OneRate(D), Unheld(D),
         NEW S \in Valuation, NEW n \in Nat
  PROVE  At(D, S, n) \in Continuable(D, n) /\ At(D, S, n) \in InStep(D, n)
<1> DEFINE B == [k \in Nat |-> Continuable(D, k)]
<1>1. Start(D, S) \in Continuable(D, 0)
  <2> DEFINE t == Start(D, S)
  <2>1. t \in InStep(D, 0) /\ t.traces = << >>
    BY StartInStep DEF Start
  <2> HIDE DEF t
  <2>2. CASE HasSeq(D)
    <3>1. /\ t.traces = << >> => 0 = 0 \/ (0 = 1 /\ Firing(D, 1) = {})
          /\ t.traces # << >> =>
               Fresh(D, Last(t.traces)) /\ SameRest(D, t.sig, Last(t.traces))
          /\ 0 > 0 => Fresh(D, t.sig)
      BY <2>1
    <3>2. t \in Continuable(D, 0)
      BY <2>1, <2>2, <3>1 DEF Continuable
    <3> QED
      BY <3>2 DEF t
  <2>3. CASE ~HasSeq(D)
    BY <2>1, <2>3 DEF Continuable, t
  <2> QED
    BY <2>2, <2>3
<1>2. ASSUME NEW k \in Nat, At(D, S, k) \in B[k] PROVE Advance(D, At(D, S, k)) \in B[k + 1]
  BY <1>2, AdvanceContinuable
<1>3. Start(D, S) \in B[0]
  BY <1>1
<1> HIDE DEF B
<1>4. At(D, S, n) \in B[n]
  BY <1>2, <1>3, AtLeads
<1> QED
  BY <1>4 DEF B, Continuable

\* A first settling moves nothing that agrees already.
LEMMA SeedIdle ==
  ASSUME NEW D \in Designs, D.mems = << >>, NEW t \in State(D), t.exit = "ok", Fresh(D, t.sig)
  PROVE  Seed(D, t).sig = t.sig /\ Seed(D, t).exit = "ok"
<1> DEFINE a == Result(t)
           n == Len(D.comps)
           v == SettleFrom(D, t, Signal)
<1>1. Result(v) = Through(Pass(D), a) /\ Seed(D, t).sig = v.sig
  BY SeedFresh
<1>2. a \in Outcome /\ a = Ok(t.sig)
  BY StateParts DEF Result, Outcome, Ok
<1>3. n \in Nat /\ Comp(D) = 1 .. n
  BY DesignFacts DEF Comp
<1>4. ASSUME NEW c \in Comp(D)
      PROVE  Pass(D)[c] \in [Outcome -> Outcome] /\ Pass(D)[c][a] = a
  <2>1. \A S \in Valuation : Exec(Block(D, c), S) \in Outcome
    BY DesignFacts DEF Block, ComponentOK, BlockTotal
  <2>2. \A r \in Outcome : r.sig \in Valuation
    BY DEF Outcome
  <2>3. \A r \in Outcome : (IF r.exit = "ok" THEN Exec(Block(D, c), r.sig) ELSE r) \in Outcome
    BY <2>1, <2>2
  <2>4. Then(Block(D, c)) \in [Outcome -> Outcome]
    BY <2>3 DEF Then
  <2>5. Exec(Block(D, c), t.sig) = a
    BY <1>2 DEF Fresh, Agrees
  <2>6. a.sig = t.sig
    BY DEF Result
  <2>7. Then(Block(D, c))[a] = a
    BY <1>2, <2>5, <2>6 DEF Then
  <2> QED
    BY <2>4, <2>7 DEF Pass
<1>5. Pass(D) \in [1 .. n -> [Outcome -> Outcome]]
  BY <1>3, <1>4 DEF Pass
<1> HIDE DEF a, n, v
<1>6. Len(Pass(D)) = n
  BY <1>3, <1>5, LengthOf
<1>7. Through(Pass(D), a) \in {a}
  <2>1. \A k \in 1 .. n : Pass(D)[k] \in [Outcome -> Outcome] /\ \A b \in {a} : Pass(D)[k][b] \in {a}
    BY <1>3, <1>4
  <2>2. {a} \in SUBSET Outcome /\ a \in {a}
    BY <1>2
  <2> QED
    BY <1>3, <1>6, <2>1, <2>2, ThroughKeeps
<1>8. v.sig = t.sig /\ v.exit = "ok"
  BY <1>1, <1>7 DEF Result, a
<1>9. Seed(D, t).exit = "ok"
  <2>1. SettleFrom(D, t, Signal).exit = "ok"
    BY <1>8 DEF v
  <2> QED
    BY <2>1, SeedFacts
<1> QED
  BY <1>1, <1>8, <1>9

\* What the sequential blocks leave depends on the valuation, on what is due, and
\* on how the run stands.
LEMMA SameRan ==
  ASSUME NEW D \in Designs, NEW t \in State(D), NEW z \in State(D), Result(t) = Result(z),
         t.due = z.due
  PROVE  Result(RunDomains(D, t)) = Result(RunDomains(D, z))
<1> DEFINE due == t.due
           steps == [i \in Doms(D) |-> RunsDomain(D, due, i)]
           n == Len(D.domains)
           Same == { p \in Tracked \X Tracked : Result(p[1]) = Result(p[2]) }
           R == [k \in 0 .. n |-> Same]
<1>1. n \in Nat /\ Doms(D) = 1 .. n
  BY DesignFacts DEF Doms
<1>2. \A i \in Doms(D), u \in Tracked : RunsDomain(D, due, i)[u] \in Tracked
  BY RunsDomainFacts DEF RunsDomainWell
<1>3. \A i \in Doms(D) : RunsDomain(D, due, i) \in [Tracked -> Tracked]
  BY <1>2 DEF RunsDomain
<1>4. steps \in [1 .. n -> [Tracked -> Tracked]]
  BY <1>1, <1>3
<1>5. ASSUME NEW i \in Doms(D), NEW u \in Tracked, NEW w \in Tracked, Result(u) = Result(w)
      PROVE  Result(RunsDomain(D, due, i)[u]) = Result(RunsDomain(D, due, i)[w])
  <2> DEFINE d == D.domains[i]
             resets == d.style = "sync" /\ Active(d, u.sig)
             p == RunsDomain(D, due, i)[u]
             q == RunsDomain(D, due, i)[w]
  <2>1. u.sig = w.sig /\ u.exit = w.exit
    BY <1>5 DEF Result
  <2>2. /\ p = IF i \notin due \/ u.exit # "ok" THEN u
               ELSE IF resets THEN ResetDomain(D, i, u) ELSE Runs(d.block)[u]
        /\ q = IF i \notin due \/ u.exit # "ok" THEN w
               ELSE IF resets THEN ResetDomain(D, i, w) ELSE Runs(d.block)[w]
    BY <2>1 DEF RunsDomain
  <2>3. RunsWell(d.block, u) /\ RunsWell(d.block, w)
    BY DesignFacts, RunsFacts
  <2> HIDE DEF resets, p, q, due
  <2>4. CASE i \notin due \/ u.exit # "ok"
    <3>1. p = u /\ q = w
      BY <2>2, <2>4
    <3> QED
      BY <1>5, <3>1 DEF p, q
  <2>5. CASE i \in due /\ u.exit = "ok" /\ resets
    <3>1. p = ResetDomain(D, i, u) /\ q = ResetDomain(D, i, w)
      BY <2>2, <2>5
    <3>2. /\ p.sig = ApplyReset(d, D.init, u.sig) /\ p.exit = u.exit
          /\ q.sig = ApplyReset(d, D.init, w.sig) /\ q.exit = w.exit
      BY <3>1 DEF ResetDomain, Tracked
    <3>3. Result(p) = Result(q)
      BY <2>1, <3>2 DEF Result
    <3> QED
      BY <3>3 DEF p, q
  <2>6. CASE i \in due /\ u.exit = "ok" /\ ~resets
    <3>1. p = Runs(d.block)[u] /\ q = Runs(d.block)[w]
      BY <2>2, <2>6
    <3>2. p.sig = q.sig /\ p.exit = q.exit
      BY <2>1, <2>3, <2>6, <3>1 DEF RunsWell
    <3>3. Result(p) = Result(q)
      BY <3>2 DEF Result
    <3> QED
      BY <3>3 DEF p, q
  <2> QED
    BY <2>4, <2>5, <2>6
<1>6. Part(t) \in Tracked /\ Part(z) \in Tracked
  BY StateParts DEF Part, Tracked, Valuation
<1>7. <<Part(t), Part(z)>> \in R[0]
  <2>1. Result(Part(t)) = Result(t) /\ Result(Part(z)) = Result(z)
    BY DEF Result, Part
  <2> QED
    BY <1>1, <1>6, <2>1
<1>8. \A k \in 1 .. n, u \in Tracked, w \in Tracked :
        <<u, w>> \in R[k - 1] => <<steps[k][u], steps[k][w]>> \in R[k]
  <2> SUFFICES ASSUME NEW k \in 1 .. n, NEW u \in Tracked, NEW w \in Tracked,
                      <<u, w>> \in R[k - 1]
               PROVE  <<steps[k][u], steps[k][w]>> \in R[k]
    OBVIOUS
  <2>1. k \in Doms(D) /\ k \in 0 .. n /\ k - 1 \in 0 .. n
    BY <1>1
  <2>2. R[k] = Same /\ R[k - 1] = Same
    BY <2>1
  <2>3. steps[k] = RunsDomain(D, due, k)
    BY <2>1
  <2>4. Result(u) = Result(w)
    BY <2>2
  <2>5. Result(steps[k][u]) = Result(steps[k][w])
    BY <1>5, <2>1, <2>3, <2>4
  <2>6. steps[k][u] \in Tracked /\ steps[k][w] \in Tracked
    BY <1>4
  <2> HIDE DEF R, steps
  <2> QED
    BY <2>2, <2>5, <2>6
<1>9. RunDomains(D, t) = After(steps, t) /\ RunDomains(D, z) = After(steps, z)
  BY DEF RunDomains
<1>10. \A k \in 1 .. n : steps[k] \in [Tracked -> Tracked] /\ \A b \in Tracked : steps[k][b] \in Tracked
  BY <1>4
<1>11. R[n] = Same
  BY <1>1
<1> HIDE DEF steps, R, n
<1>12. Len(steps) = n
  BY <1>1, <1>4, LengthOf
<1>13. Tracked \in SUBSET Tracked
  OBVIOUS
<1>14. /\ Part(After(steps, t)) = Through(steps, Part(t))
       /\ Part(After(steps, z)) = Through(steps, Part(z))
  BY <1>1, <1>6, <1>10, <1>12, <1>13, AfterKeeps
<1>15. <<Through(steps, Part(t)), Through(steps, Part(z))>> \in R[n]
  BY <1>1, <1>6, <1>7, <1>8, <1>10, <1>12, ThroughPairs
<1>16. Result(Part(RunDomains(D, t))) = Result(Part(RunDomains(D, z)))
  BY <1>9, <1>11, <1>14, <1>15
<1>17. \A u : Result(Part(u)) = Result(u)
  BY DEF Result, Part
<1> QED
  BY <1>16, <1>17

\* A tick that settles leaves what the valuation before it, but for the clocks, has
\* it leave.
LEMMA SameTick ==
  ASSUME NEW D \in Designs, D.mems = << >>, Quiet(D), NEW x \in State(D), NEW y \in State(D),
         x.exit = "ok", y.exit = "ok", Fresh(D, x.sig), Fresh(D, y.sig),
         Held(D, x).sig = Held(D, y).sig, Held(D, x).due = Held(D, y).due
  PROVE  Result(Settled(D, x)) = Result(Settled(D, y))
<1>1. /\ Held(D, x) \in State(D) /\ Held(D, y) \in State(D)
      /\ Held(D, x).exit = "ok" /\ Held(D, y).exit = "ok"
  BY StageFacts, StageMoves
<1>2. Result(Held(D, x)) = Result(Held(D, y))
  BY <1>1 DEF Result
<1>3. CASE Held(D, x).due = {}
  <2>1. /\ Settled(D, x) = Ported(D, x) /\ Ported(D, x).sig = Held(D, x).sig
        /\ Ported(D, x).exit = Held(D, x).exit
        /\ Settled(D, y) = Ported(D, y) /\ Ported(D, y).sig = Held(D, y).sig
        /\ Ported(D, y).exit = Held(D, y).exit
    BY <1>3, SilentTick
  <2> QED
    BY <1>1, <2>1 DEF Result
<1>4. CASE Held(D, x).due # {}
  <2>1. Result(Ran(D, x)) = Result(Ran(D, y))
    BY <1>1, <1>2, SameRan DEF Ran
  <2>2. /\ Ported(D, x).sig = Ran(D, x).sig /\ Ported(D, x).exit = Ran(D, x).exit
        /\ Ported(D, y).sig = Ran(D, y).sig /\ Ported(D, y).exit = Ran(D, y).exit
    BY StageMoves
  <2>3. Result(Ported(D, x)) = Result(Ported(D, y))
    BY <2>1, <2>2 DEF Result
  <2>4. /\ Result(Settled(D, x)) = Through(Pass(D), Result(Ported(D, x)))
        /\ Result(Settled(D, y)) = Through(Pass(D), Result(Ported(D, y)))
    BY <1>4, TickFresh
  <2> QED
    BY <2>3, <2>4
<1> QED
  BY <1>3, <1>4

\* A run that has gone on for a while, and one that begins where its trace ended: the
\* first has traced P already, and they go on alike.
Twin(D, P, x, y) ==
  /\ x \in State(D) /\ y \in State(D) /\ x.exit = y.exit
  /\ x.traces = P \o y.traces
  /\ x.exit = "ok" =>
       IF HasSeq(D) THEN Fresh(D, x.sig) /\ Fresh(D, y.sig) /\ SameRest(D, x.sig, y.sig)
       ELSE x.sig = y.sig

LEMMA TwinAdvance ==
  ASSUME NEW D \in Designs, D.mems = << >>, Quiet(D), OneRate(D), Unheld(D),
         NEW P \in Seq(Valuation), NEW m \in Nat, NEW j \in Nat, m > 0,
         HasSeq(D) => m % 2 = j % 2,
         NEW x \in InStep(D, m), NEW y \in InStep(D, j), Twin(D, P, x, y)
  PROVE  Twin(D, P, Advance(D, x), Advance(D, y))
<1> DEFINE X == Advance(D, x)
           Y == Advance(D, y)
<1>1. /\ x \in State(D) /\ y \in State(D) /\ X \in State(D) /\ Y \in State(D)
      /\ x.exit = y.exit /\ x.traces = P \o y.traces
      /\ y.traces \in Seq(Valuation) /\ X.sig \in Valuation /\ Y.sig \in Valuation
      /\ x.sig \in Valuation /\ y.sig \in Valuation
  BY AdvanceFacts, StateParts DEF Twin
<1>2. Append(x.traces, Y.sig) = P \o Append(y.traces, Y.sig)
  <2> DEFINE q == y.traces
             e == Y.sig
  <2>1. q \in Seq(Valuation) /\ e \in Valuation /\ x.traces = P \o q
    BY <1>1
  <2> HIDE DEF q, e
  <2>2. Append(P \o q, e) = P \o Append(q, e)
    BY <2>1
  <2>3. Append(x.traces, e) = P \o Append(q, e)
    BY <2>1, <2>2
  <2> QED
    BY <2>3 DEF q, e
<1>3. CASE x.exit # "ok"
  <2>1. X = x /\ Y = y
    BY <1>1, <1>3, AdvanceFacts
  <2> HIDE DEF X, Y
  <2>2. Twin(D, P, X, Y)
    BY <2>1
  <2> QED
    BY <2>2 DEF X, Y
<1>4. CASE x.exit = "ok" /\ ~HasSeq(D)
  <2>1. X = CombTick(D, x) /\ Y = CombTick(D, y)
    BY <1>1, <1>4, AdvanceFacts
  <2>2. Result(x) = Result(y)
    BY <1>1, <1>4 DEF Twin, Result
  <2>3. Result(CombTick(D, x)) = Result(CombTick(D, y))
    BY <1>1, <2>2, CombTickIsPass
  <2>4. /\ CombTick(D, x).exit = "error" => CombTick(D, x).traces = x.traces
        /\ CombTick(D, x).exit # "error" =>
             CombTick(D, x).traces = Append(x.traces, CombTick(D, x).sig)
        /\ CombTick(D, y).exit = "error" => CombTick(D, y).traces = y.traces
        /\ CombTick(D, y).exit # "error" =>
             CombTick(D, y).traces = Append(y.traces, CombTick(D, y).sig)
    BY <1>1, CombTickIsPass
  <2> HIDE DEF X, Y
  <2>5. X.sig = Y.sig /\ X.exit = Y.exit
    BY <2>1, <2>3 DEF Result
  <2>6. X.traces = P \o Y.traces
    BY <1>1, <1>2, <2>1, <2>4, <2>5
  <2>7. Twin(D, P, X, Y)
    BY <1>1, <1>4, <2>5, <2>6 DEF Twin
  <2> QED
    BY <2>7 DEF X, Y
<1>5. CASE x.exit = "ok" /\ HasSeq(D)
  <2> DEFINE s == Seeded(D, y)
             l == LevelAfter(m)
  <2>1. Fresh(D, x.sig) /\ Fresh(D, y.sig) /\ SameRest(D, x.sig, y.sig) /\ y.exit = "ok"
    BY <1>1, <1>5 DEF Twin
  <2>2. Seeded(D, x) = x
    <3>1. x.tc = m
      BY <1>5 DEF InStep
    <3> QED
      BY <3>1 DEF Seeded
  <2>3. s.sig = y.sig /\ s.exit = "ok"
    BY <1>1, <2>1, SeedIdle DEF Seeded
  <2>4. LevelAfter(j) = l
    BY <1>5 DEF LevelAfter
  <2>5. /\ X.exit = Settled(D, x).exit /\ X.sig = Settled(D, x).sig
        /\ Held(D, x).sig = AtLevel(D, x.sig, l) /\ Held(D, x).due = Firing(D, l)
        /\ Firing(D, l) = {} \/ X.exit = "error" => X.traces = x.traces
        /\ ~(Firing(D, l) = {} \/ X.exit = "error") => X.traces = Append(x.traces, X.sig)
    <3>1. Seeded(D, x).exit = "ok"
      BY <1>5, <2>2
    <3> QED
      BY <1>5, <2>2, <3>1, AdvanceTogether
  <2>6. /\ Y.exit = Settled(D, s).exit /\ Y.sig = Settled(D, s).sig /\ s \in State(D)
        /\ Held(D, s).sig = AtLevel(D, s.sig, l) /\ Held(D, s).due = Firing(D, l)
        /\ Firing(D, l) = {} \/ Y.exit = "error" => Y.traces = y.traces
        /\ ~(Firing(D, l) = {} \/ Y.exit = "error") => Y.traces = Append(y.traces, Y.sig)
    <3>1. Seeded(D, y).exit = "ok" /\ y.exit = "ok"
      BY <2>1, <2>3
    <3> HIDE DEF l
    <3> QED
      BY <1>5, <2>4, <3>1, AdvanceTogether
  <2> HIDE DEF s, l, X, Y
  <2>7. AtLevel(D, x.sig, l) = AtLevel(D, s.sig, l) /\ Fresh(D, s.sig)
    <3>1. AtLevel(D, x.sig, l) = AtLevel(D, y.sig, l)
      <4>1. \A v \in Signal : AtLevel(D, x.sig, l)[v] = AtLevel(D, y.sig, l)[v]
        BY <2>1 DEF AtLevel, SameRest
      <4> QED
        BY <4>1 DEF AtLevel
    <3> QED
      BY <2>1, <2>3, <3>1
  <2>8. Result(Settled(D, x)) = Result(Settled(D, s))
    BY <1>1, <1>5, <2>1, <2>3, <2>5, <2>6, <2>7, SameTick
  <2>9. X.sig = Y.sig /\ X.exit = Y.exit
    BY <2>5, <2>6, <2>8 DEF Result
  <2>10. X.traces = P \o Y.traces
    BY <1>1, <1>2, <2>5, <2>6, <2>9
  <2>11. X.exit = "ok" => Fresh(D, X.sig) /\ Fresh(D, Y.sig) /\ SameRest(D, X.sig, Y.sig)
    <3>1. Settled(D, x).exit = "ok" => Fresh(D, Settled(D, x).sig)
      BY <1>1, <1>5, <2>1, TickFresh
    <3> QED
      BY <2>5, <2>9, <3>1 DEF SameRest
  <2>12. Twin(D, P, X, Y)
    BY <1>1, <1>5, <2>9, <2>10, <2>11 DEF Twin
  <2> QED
    BY <2>12 DEF X, Y
<1> QED
  BY <1>3, <1>4, <1>5

\* A run from the last point of another goes on as that one does.
LEMMA RunsCompose ==
  ASSUME NEW D \in Designs, D.mems = << >>, Quiet(D), OneRate(D), Unheld(D),
         NEW S \in Valuation, NEW m \in Nat, m > 0, HasSeq(D) => m % 2 = 0,
         At(D, S, m).exit = "ok", NEW n \in Nat
  PROVE  LET P == At(D, S, m).traces
         IN  /\ P # << >> /\ P \in Seq(Valuation) /\ Last(P) \in Valuation
             /\ Twin(D, P, At(D, S, m + n), At(D, Last(P), n))
<1> DEFINE t == At(D, S, m)
           P == t.traces
           L == Last(P)
           B == [k \in Nat |-> { y \in State(D) : Twin(D, P, At(D, S, m + k), y) }]
<1>1. t \in Continuable(D, m) /\ t \in InStep(D, m) /\ t \in State(D) /\ P \in Seq(Valuation)
  BY AtContinuable, AtFacts, StateParts
<1>2. P # << >>
  <2>1. CASE HasSeq(D)
    <3>1. P = << >> => m = 0 \/ (m = 1 /\ Firing(D, 1) = {})
      BY <1>1, <2>1 DEF Continuable
    <3>2. m # 1
      BY <2>1
    <3> QED
      BY <3>1, <3>2
  <2>2. CASE ~HasSeq(D)
    BY <1>1, <2>2 DEF Continuable
  <2> QED
    BY <2>1, <2>2
<1>3. L \in Valuation
  <2>1. Len(P) \in 1 .. Len(P) /\ \A i \in 1 .. Len(P) : P[i] \in Valuation
    BY <1>1, <1>2
  <2> QED
    BY <2>1 DEF Last
<1>4. Twin(D, P, t, Start(D, L))
  <2>1. Start(D, L) \in State(D)
    BY <1>3, StartFacts
  <2>2. Start(D, L).sig = L /\ Start(D, L).exit = "ok" /\ Start(D, L).traces = << >>
    BY DEF Start
  <2> HIDE DEF t
  <2>3. P = P \o << >>
    BY <1>1
  <2>4. t.exit = "ok"
    BY DEF t
  <2>5. CASE HasSeq(D)
    <3>1. Fresh(D, t.sig) /\ Fresh(D, L) /\ SameRest(D, t.sig, L)
      BY <1>1, <1>2, <2>4, <2>5 DEF Continuable
    <3> QED
      BY <1>1, <2>1, <2>2, <2>3, <2>4, <2>5, <3>1 DEF Twin
  <2>6. CASE ~HasSeq(D)
    <3>1. L = t.sig
      BY <1>1, <2>4, <2>6 DEF Continuable
    <3> QED
      BY <1>1, <2>1, <2>2, <2>3, <2>4, <2>6, <3>1 DEF Twin
  <2> QED
    BY <2>5, <2>6
<1> HIDE DEF L, P
<1>5. Start(D, L) \in B[0]
  <2>1. m + 0 = m
    OBVIOUS
  <2>2. Start(D, L) \in State(D)
    BY <1>3, StartFacts
  <2> QED
    BY <1>4, <2>1, <2>2
<1>6. ASSUME NEW k \in Nat, At(D, L, k) \in B[k] PROVE Advance(D, At(D, L, k)) \in B[k + 1]
  <2>1. Twin(D, P, At(D, S, m + k), At(D, L, k))
    BY <1>6
  <2>2. m + k \in Nat /\ m + k > 0 /\ (HasSeq(D) => (m + k) % 2 = k % 2)
    OBVIOUS
  <2>3. At(D, S, m + k) \in InStep(D, m + k) /\ At(D, L, k) \in InStep(D, k)
    BY <1>3, <2>2, AtContinuable
  <2>4. Twin(D, P, Advance(D, At(D, S, m + k)), Advance(D, At(D, L, k)))
    BY <1>1, <2>1, <2>2, <2>3, TwinAdvance DEF P
  <2>5. Advance(D, At(D, S, m + k)) = At(D, S, m + (k + 1))
    <3>1. (m + k) + 1 = m + (k + 1)
      OBVIOUS
    <3>2. At(D, S, (m + k) + 1) = Advance(D, At(D, S, m + k))
      BY <2>2, AtFacts
    <3> QED
      BY <3>1, <3>2
  <2>6. Advance(D, At(D, L, k)) \in State(D)
    BY <2>4 DEF Twin
  <2> QED
    BY <2>4, <2>5, <2>6
<1> HIDE DEF B
<1>7. At(D, L, n) \in B[n]
  BY <1>3, <1>5, <1>6, AtLeads
<1>8. Twin(D, P, At(D, S, m + n), At(D, L, n))
  BY <1>7 DEF B
<1> QED
  BY <1>1, <1>2, <1>3, <1>8 DEF L, P, t

-----------------------------------------------------------------------------
\* Calls of tick compose.

\* Without initial blocks and memories a call is a run from the values it is given.
LEMMA StatelessRun ==
  ASSUME design \in Designs, Stateless, NEW S \in Kept, NEW n \in Nat
  PROVE  Simulate(S, n) = At(design, Fitted(S), TicksOf(n))
<1> DEFINE initial == Exec(design.initial, Fitted(S))
<1>1. Fitted(S) \in Valuation /\ TicksOf(n) \in Nat
  BY SimulateFacts
<1>2. initial = Ok(Fitted(S))
  <2>1. EngineOK(design)
    BY EngineAssumption
  <2> QED
    BY <1>1, <2>1 DEF EngineOK, Stateless
<1>3. Simulate(S, n) = Run(design, initial, TicksOf(n))
  BY DEF Simulate
<1> HIDE DEF initial
<1>4. initial.exit = "ok" /\ initial.sig = Fitted(S)
  BY <1>2 DEF Ok
<1>5. Run(design, initial, TicksOf(n)) = At(design, Fitted(S), TicksOf(n))
  BY <1>1, <1>4, RunIsLoop DEF At
<1> QED
  BY <1>3, <1>5

\* What the two properties ask of a design.
Composable == Quiet(design) /\ Unheld(design) /\ SingleRate /\ Stateless

LEMMA CallsCompose ==
  ASSUME design \in Designs, Composable, NEW S \in Kept, NEW k \in Nat, k > 0,
         Simulate(S, k).exit = "ok", NEW n \in Nat
  PROVE  LET P == Simulate(S, k).traces
         IN  /\ P # << >> /\ P \in Seq(Valuation) /\ Last(P) \in Valuation
             /\ Simulate(S, k + n).exit = Simulate(Last(P), n).exit
             /\ Simulate(S, k + n).traces = P \o Simulate(Last(P), n).traces
<1> DEFINE T == Fitted(S)
           m == TicksOf(k)
           P == Simulate(S, k).traces
           L == Last(P)
<1>1. /\ T \in Valuation /\ m \in Nat /\ TicksOf(n) \in Nat /\ k + n \in Nat
      /\ Quiet(design) /\ Unheld(design) /\ Stateless /\ design.mems = << >>
  BY SimulateFacts DEF Composable, Stateless
<1>2. OneRate(design)
  BY DEF Composable, SingleRate, OneRate, Doms
<1>3. /\ HasSeq(design) => m = 2 * k /\ TicksOf(n) = 2 * n /\ TicksOf(k + n) = 2 * (k + n)
      /\ ~HasSeq(design) => m = k /\ TicksOf(n) = n /\ TicksOf(k + n) = k + n
  <2>1. 1 \in Doms(design)
    BY DesignFacts DEF Doms
  <2>2. design.domains[1].hpt = 1
    BY <1>2, <2>1 DEF OneRate
  <2> QED
    BY <2>2 DEF TicksOf
<1>4. m > 0 /\ (HasSeq(design) => m % 2 = 0) /\ TicksOf(k + n) = m + TicksOf(n)
  <2>1. (2 * k) % 2 = 0 /\ 2 * k > 0 /\ 2 * (k + n) = 2 * k + 2 * n
    OBVIOUS
  <2> HIDE DEF m
  <2> QED
    BY <1>3, <2>1
<1>5. Simulate(S, k) = At(design, T, m) /\ Simulate(S, k + n) = At(design, T, m + TicksOf(n))
  BY <1>1, <1>4, StatelessRun
<1> HIDE DEF T, m
<1>6. /\ P # << >> /\ P \in Seq(Valuation) /\ L \in Valuation
      /\ Twin(design, P, At(design, T, m + TicksOf(n)), At(design, L, TicksOf(n)))
  <2>1. At(design, T, m).exit = "ok"
    BY <1>5
  <2>2. LET Q == At(design, T, m).traces
        IN  /\ Q # << >> /\ Q \in Seq(Valuation) /\ Last(Q) \in Valuation
            /\ Twin(design, Q, At(design, T, m + TicksOf(n)), At(design, Last(Q), TicksOf(n)))
    BY <1>1, <1>2, <1>4, <2>1, RunsCompose
  <2> QED
    BY <1>5, <2>2
<1> HIDE DEF P, L
<1>7. Simulate(L, n) = At(design, L, TicksOf(n))
  <2>1. L \in Kept /\ Fitted(L) = L
    BY <1>6, TestAssumption DEF Kept, Fitted, Valuation
  <2> QED
    BY <1>1, <2>1, StatelessRun
<1> QED
  BY <1>5, <1>6, <1>7 DEF Twin, L, P

\* Entries added to a history, after a mark.
LEMMA SubSeqAdded ==
  ASSUME NEW h \in Seq(Kept), NEW q \in Seq(Kept), NEW m \in 0 .. Len(h)
  PROVE  SubSeq(h \o q, m + 1, Len(h \o q)) = SubSeq(h, m + 1, Len(h)) \o q
<1> DEFINE H == Len(h)
           Q == Len(q)
           a == SubSeq(h \o q, m + 1, Len(h \o q))
           u == SubSeq(h, m + 1, Len(h))
<1>1. H \in Nat /\ Q \in Nat /\ m \in Nat /\ m <= H
  OBVIOUS
<1>2. h \o q \in Seq(Kept) /\ Len(h \o q) = H + Q
  BY ConcatProperties
<1>3. \A i \in 1 .. H + Q : (h \o q)[i] = IF i <= H THEN h[i] ELSE q[i - H]
  BY ConcatProperties
<1>4. /\ u \in Seq(Kept) /\ Len(u) = H - m
      /\ \A i \in 1 .. H - m : u[i] = h[m + i]
  <2>1. \A i \in m + 1 .. H : h[i] \in Kept
    BY <1>1
  <2>2. m + 1 \in Int /\ H \in Int
    BY <1>1
  <2>3. /\ u \in Seq(Kept) /\ Len(u) = IF m + 1 <= H THEN H - (m + 1) + 1 ELSE 0
        /\ \A i \in 1 .. H - (m + 1) + 1 : u[i] = h[(m + 1) + i - 1]
    BY <2>1, <2>2, SubSeqProperties
  <2> HIDE DEF u, H
  <2> QED
    BY <1>1, <2>3
<1>5. /\ a \in Seq(Kept) /\ Len(a) = H + Q - m
      /\ \A i \in 1 .. H + Q - m : a[i] = (h \o q)[m + i]
  <2> DEFINE hq == h \o q
             N == Len(hq)
  <2>0. hq \in Seq(Kept) /\ N = H + Q
    BY <1>2
  <2> HIDE DEF hq, H, Q
  <2>1. \A i \in m + 1 .. N : hq[i] \in Kept
    BY <1>1, <2>0
  <2>2. m + 1 \in Int /\ N \in Int
    BY <1>1, <2>0
  <2>3. /\ SubSeq(hq, m + 1, N) \in Seq(Kept)
        /\ Len(SubSeq(hq, m + 1, N)) = IF m + 1 <= N THEN N - (m + 1) + 1 ELSE 0
        /\ \A i \in 1 .. N - (m + 1) + 1 : SubSeq(hq, m + 1, N)[i] = hq[(m + 1) + i - 1]
    BY <2>1, <2>2, SubSeqProperties
  <2>4. a = SubSeq(hq, m + 1, N)
    BY DEF hq
  <2> HIDE DEF a, N
  <2>5. /\ a \in Seq(Kept) /\ Len(a) = H + Q - m
        /\ \A i \in 1 .. H + Q - m : a[i] = hq[m + i]
    BY <1>1, <2>0, <2>3, <2>4
  <2> QED
    BY <2>5 DEF hq
<1> HIDE DEF a, u, H, Q
<1>6. u \o q \in Seq(Kept) /\ Len(u \o q) = H + Q - m
  <2>1. u \o q \in Seq(Kept) /\ Len(u \o q) = Len(u) + Len(q)
    BY <1>4, ConcatProperties
  <2> QED
    BY <1>1, <1>4, <2>1 DEF Q
<1>7. \A i \in 1 .. H + Q - m : (u \o q)[i] = IF i <= H - m THEN u[i] ELSE q[i - (H - m)]
  <2>1. \A i \in 1 .. Len(u) + Len(q) :
          (u \o q)[i] = IF i <= Len(u) THEN u[i] ELSE q[i - Len(u)]
    BY <1>4, ConcatProperties
  <2>2. Len(u) + Len(q) = H + Q - m /\ Len(u) = H - m
    BY <1>1, <1>4 DEF Q
  <2> QED
    BY <2>1, <2>2
<1>8. ASSUME NEW i \in 1 .. H + Q - m PROVE a[i] = (u \o q)[i]
  <2>1. a[i] = IF m + i <= H THEN h[m + i] ELSE q[(m + i) - H]
    <3>1. m + i \in 1 .. H + Q
      BY <1>1
    <3> QED
      BY <1>3, <1>5, <3>1
  <2>2. CASE i <= H - m
    <3>1. i \in 1 .. H - m /\ m + i <= H
      BY <1>1, <2>2
    <3> QED
      BY <1>4, <1>7, <2>1, <2>2, <3>1
  <2>3. CASE i > H - m
    <3>1. ~(m + i <= H) /\ ~(i <= H - m) /\ (m + i) - H = i - (H - m)
      BY <1>1, <2>3
    <3> QED
      BY <1>7, <2>1, <3>1
  <2>4. i <= H - m \/ i > H - m
    <3>1. i \in Int /\ H - m \in Int
      BY <1>1
    <3> QED
      BY <3>1
  <2> QED
    BY <2>2, <2>3, <2>4
<1>9. a = u \o q
  <2> DEFINE b == u \o q
  <2>1. b \in Seq(Kept) /\ Len(a) = Len(b) /\ \A i \in 1 .. Len(a) : a[i] = b[i]
    BY <1>5, <1>6, <1>8
  <2> HIDE DEF b
  <2>2. a = b
    BY <1>5, <2>1, SeqEqual
  <2> QED
    BY <2>2 DEF b
<1> QED
  BY <1>9 DEF a, u

\* The values and the history are those of one run of the cycles ticked since the
\* test last touched a signal.
OneRun ==
  LET t == Simulate(base, since)
  IN  /\ t.exit = "ok" /\ t.traces # << >> /\ sig = Last(t.traces)
      /\ SubSeq(history, mark + 1, Len(history)) = t.traces

Composed == Composable /\ whole /\ since > 0 => OneRun

LEMMA LastAdded ==
  ASSUME NEW P \in Seq(Valuation), NEW q \in Seq(Valuation), q # << >>
  PROVE  P \o q # << >> /\ Last(P \o q) = Last(q)
<1> DEFINE r == P \o q
<1>1. r \in Seq(Valuation) /\ Len(r) = Len(P) + Len(q)
  BY ConcatProperties
<1>2. \A i \in 1 .. Len(P) + Len(q) : r[i] = IF i <= Len(P) THEN P[i] ELSE q[i - Len(P)]
  BY ConcatProperties
<1>3. Len(P) \in Nat /\ Len(q) \in Nat /\ Len(q) > 0
  OBVIOUS
<1> HIDE DEF r
<1>4. /\ Len(r) \in 1 .. Len(P) + Len(q) /\ ~(Len(r) <= Len(P))
      /\ Len(r) - Len(P) = Len(q) /\ Len(r) # 0
  BY <1>1, <1>3
<1>5. r[Len(r)] = q[Len(q)]
  BY <1>2, <1>4
<1>6. r # << >>
  BY <1>4
<1> QED
  BY <1>5, <1>6 DEF r, Last

\* A tick of a test that forces nothing continues the run.
LEMMA TickContinues ==
  ASSUME TypeInv, Composed, NEW n \in 1 .. MaxTicks, Tick(n), forced = << >>,
         Composable, whole'
  PROVE  OneRun'
<1> DEFINE t == Simulate(sig, n)
           r == Simulate(base, since + n)
           H == Len(history)
<1>1. /\ design \in Designs /\ sig \in Kept /\ base \in Kept /\ since \in Nat /\ n \in Nat /\ n > 0
      /\ history \in Seq(Kept) /\ mark \in 0 .. Len(history)
      /\ since = 0 => base = sig /\ mark = Len(history)
  BY TestAssumption DEF TypeInv, TypeOK, Kept
<1>2. /\ t.exit = "ok" /\ whole
      /\ sig' = [s \in Signal |-> IF s \in DOMAIN forced THEN forced[s] ELSE LastTraced(sig, t)[s]]
      /\ history' = history \o Recorded(sig, n, t)
      /\ since' = since + n /\ base' = base /\ mark' = mark /\ design' = design
  BY DEF Tick, Takes
<1>3. DOMAIN forced = {}
  OBVIOUS
<1>4. Simulate(base, since)' = r
  BY <1>2 DEF Simulate, Fitted, TicksOf
<1> HIDE DEF t
<1>5. t.traces \in Seq(Valuation) /\ t.traces # << >> /\ Last(t.traces) \in Valuation
  <2>1. LET P == Simulate(sig, n).traces
        IN  P # << >> /\ P \in Seq(Valuation) /\ Last(P) \in Valuation
    <3>1. Simulate(sig, n).exit = "ok" /\ 0 \in Nat
      BY <1>2 DEF t
    <3> QED
      BY <1>1, <3>1, CallsCompose
  <2> QED
    BY <2>1 DEF t
<1>6. sig' = Last(t.traces)
  <2>1. LastTraced(sig, t) = Last(t.traces)
    BY <1>5 DEF LastTraced
  <2>2. sig' = [s \in Signal |-> Last(t.traces)[s]]
    BY <1>2, <1>3, <2>1
  <2> QED
    BY <1>5, <2>2 DEF Valuation
<1>7. history' = history \o t.traces /\ t.traces \in Seq(Kept)
  <2>1. Recorded(sig, n, t) = t.traces
    BY <1>5 DEF Recorded
  <2>2. Valuation \subseteq Kept
    BY DEF Valuation, Kept
  <2> QED
    BY <1>2, <1>5, <2>1, <2>2
<1>8. SubSeq(history', mark' + 1, Len(history')) = SubSeq(history, mark + 1, H) \o t.traces
  <2> DEFINE q == t.traces
  <2>1. q \in Seq(Kept) /\ history' = history \o q
    BY <1>7
  <2> HIDE DEF q
  <2>2. SubSeq(history \o q, mark + 1, Len(history \o q)) = SubSeq(history, mark + 1, Len(history)) \o q
    BY <1>1, <2>1, SubSeqAdded
  <2>3. SubSeq(history', mark' + 1, Len(history')) = SubSeq(history, mark + 1, Len(history)) \o q
    BY <1>2, <2>1, <2>2
  <2> QED
    BY <2>3 DEF q
<1> HIDE DEF r
<1>9. CASE since = 0
  <2>1. r = t
    BY <1>1, <1>9 DEF r, t
  <2>2. SubSeq(history, mark + 1, H) = << >>
    <3>1. mark + 1 \in Int /\ H \in Int /\ H < mark + 1
      BY <1>1, <1>9
    <3> HIDE DEF H
    <3> QED
      BY <3>1, SubSeqEmpty
  <2>3. << >> \o t.traces = t.traces
    BY <1>5, ConcatEmptySeq
  <2> QED
    BY <1>2, <1>4, <1>5, <1>6, <1>8, <2>1, <2>2, <2>3 DEF OneRun
<1>10. CASE since > 0
  <2> DEFINE P == Simulate(base, since).traces
  <2>1. /\ Simulate(base, since).exit = "ok" /\ sig = Last(P)
        /\ SubSeq(history, mark + 1, H) = P
    BY <1>2, <1>10 DEF Composed, OneRun
  <2>2. /\ P # << >> /\ P \in Seq(Valuation)
        /\ r.exit = Simulate(Last(P), n).exit /\ r.traces = P \o Simulate(Last(P), n).traces
    BY <1>1, <1>10, <2>1, CallsCompose DEF r
  <2> HIDE DEF P
  <2>3. r.exit = t.exit /\ r.traces = P \o t.traces
    BY <2>1, <2>2 DEF t
  <2>4. P \o t.traces # << >> /\ Last(P \o t.traces) = Last(t.traces)
    <3> DEFINE q == t.traces
    <3>1. q \in Seq(Valuation) /\ q # << >>
      BY <1>5
    <3> HIDE DEF q
    <3>2. P \o q # << >> /\ Last(P \o q) = Last(q)
      BY <2>2, <3>1, LastAdded
    <3> QED
      BY <3>2 DEF q
  <2> QED
    BY <1>2, <1>4, <1>6, <1>8, <2>1, <2>3, <2>4 DEF OneRun
<1> QED
  BY <1>1, <1>9, <1>10

LEMMA ComposedNext == TypeInv /\ Composed /\ [Next]_vars => Composed'
<1> SUFFICES ASSUME TypeInv, Composed, [Next]_vars PROVE Composed'
  OBVIOUS
<1>1. ASSUME since' = 0 PROVE Composed'
  BY <1>1 DEF Composed
<1>2. ASSUME UNCHANGED vars PROVE Composed'
  BY <1>2 DEF Composed, Composable, OneRun, Simulate, Fitted, TicksOf, SingleRate, Stateless, vars, touched
<1>3. ASSUME NEW n \in 1 .. MaxTicks, Tick(n) PROVE Composed'
  <2>1. CASE forced = << >>
    <3> SUFFICES ASSUME Composable', whole' PROVE OneRun'
      BY DEF Composed
    <3>1. design' = design
      BY <1>3 DEF Tick, Takes
    <3>2. Composable
      BY <3>1 DEF Composable, SingleRate, Stateless
    <3> QED
      BY <1>3, <2>1, <3>2, TickContinues
  <2>2. CASE forced # << >>
    BY <1>1, <1>3, <2>2 DEF Tick, Takes, Touch
  <2> QED
    BY <2>1, <2>2
<1> QED
  BY <1>1, <1>2, <1>3 DEF Next, SetSignal, ForceSignal, ReleaseSignal, TickRaises, Touch

LEMMA ComposedInvariant == Spec => []Composed
<1>1. Init => Composed
  BY DEF Init, Composed
<1> QED
  BY <1>1, ComposedNext, TypeInvariant, PTL DEF Spec

\* Ticks of quiet designs, whose clocks have one rate and no asynchronous reset and
\* which keep no memory, compose: however the cycles are split into calls of tick,
\* the values are those of one run of all of them from what the test last set.
THEOREM CallsOfTickCompose == Spec => [](Quiet(design) /\ Unheld(design) => TicksCompose)
<1>1. Composed => (Quiet(design) /\ Unheld(design) => TicksCompose)
  BY DEF Composed, Composable, OneRun, TicksCompose, LastTraced
<1> QED
  BY <1>1, ComposedInvariant, PTL

\* And if one edge fires all domains, the history has an entry per cycle, those of
\* that one run.
THEOREM HistoryOfOneRun == Spec => [](Quiet(design) => HistoryPerCycle)
<1> DEFINE Counts == Uniform => Len(history) = cycle + 1
<1>1. TypeInv /\ Composed /\ Counts => (Quiet(design) => HistoryPerCycle)
  <2> DEFINE D == design.domains
             uniform == /\ SingleRate /\ whole
                        /\ \A i, j \in 1 .. Len(D) : D[i].edge = D[j].edge /\ D[i].edge # "both"
                        /\ \A i \in 1 .. Len(D) : D[i].style # "async"
  <2> SUFFICES ASSUME TypeInv, Composed, Counts, Quiet(design), uniform
               PROVE  /\ Len(history) = cycle + 1
                      /\ since > 0 /\ Stateless =>
                           SubSeq(history, mark + 1, Len(history)) = Simulate(base, since).traces
    BY DEF HistoryPerCycle
  <2>1. SingleRate /\ whole /\ OneEdge(design) /\ Unheld(design)
    BY DEF OneEdge, Unheld, Doms
  <2> QED
    BY <2>1 DEF Uniform, Composed, Composable, OneRun
<1>2. Spec => []Counts
  BY OneEntryPerCycle
<1> QED
  BY <1>1, <1>2, TypeInvariant, ComposedInvariant, PTL
=============================================================================
