-------------------------- MODULE EnginePairProofs --------------------------
(***************************************************************************)
(* Proofs about the run loop and the CSP engine side by side, for every    *)
(* set of designs, every expression language (Exec) and every length of a  *)
(* run, and about the memory ports of the engine.                          *)
(***************************************************************************)
EXTENDS EnginePair, RunLoopProofs

-----------------------------------------------------------------------------
\* The engine's operators are the loop's.

\* The engine sees the design as the loop does.
LEMMA SameNames ==
  /\ E!Domains = Domains /\ E!Comps = Comps /\ E!InitVal = InitVal /\ E!Ticks = Ticks
  /\ E!Dom = Dom /\ E!Mems = design.mems
  /\ \A edge, level : E!EdgeFires(edge, level) = EdgeFires(edge, level)
  /\ \A d, S : E!ResetActive(d, S) = ResetActive(d, S)
  /\ \A d, init, S : E!ApplyReset(d, init, S) = ApplyReset(d, init, S)
  /\ \A S, T : E!Differing(S, T) = Differing(S, T)
BY DEF E!Domains, E!Comps, E!InitVal, E!Ticks, E!Dom, E!Mems, E!EdgeFires, E!ResetActive,
       E!ApplyReset, E!Differing, Domains, Comps, InitVal, Ticks, Dom, EdgeFires, ResetActive,
       ApplyReset, Differing

\* And its memory ports are those of Memory.
LEMMA SamePorts ==
  /\ \A mems : E!MemoriesOK(mems) <=> MemoriesOK(mems)
  /\ \A mems : E!InitWords(mems) = InitWords(mems)
  /\ \A mems, w, S, names : E!MemWrites(mems, w, S, names) = MemWrites(mems, w, S, names)
  /\ \A mems, w, S, names : E!MemReads(mems, w, S, names) = MemReads(mems, w, S, names)
BY DEF E!MemoriesOK, MemoriesOK, E!MemoryOK, MemoryOK, E!InitWords, InitWords, E!MemWrites, MemWrites, E!MemReads, MemReads, E!Writes, Writes,
       E!InRange, InRange, E!WordsOf, WordsOf, E!Through, Through, E!ReadsNow, ReadsNow,
       E!ReadWord, ReadWord, E!Valuation, Valuation, E!Min, Min

\* Which of the engine's actions can be the next one.
LEMMA EnginePlaces ==
  ASSUME E!Next
  PROVE  /\ ePc = "init" => E!RunInitial
         /\ ePc = "seed" => E!Seed \/ E!SeedMemory
         /\ ePc = "tick" => E!StartTick \/ E!EndRun
         /\ ePc = "toggle" => E!ToggleClock \/ E!NextPart
         /\ ePc = "async" => E!AsyncReset \/ E!NextPart
         /\ ePc = "seq" => E!RunDomain \/ E!SkipDomain \/ E!MemoryPorts
         /\ ePc = "settle" => E!SettleComponent \/ E!NextPart
         /\ ePc = "record" => E!Record
         /\ ePc \in {"done", "raised"} => E!Ended
BY DEF E!Next, E!RunInitial, E!Seed, E!SeedMemory, E!StartTick, E!ToggleClock, E!AsyncReset,
       E!RunDomain, E!SkipDomain, E!MemoryPorts, E!SettleComponent, E!NextPart, E!Record,
       E!EndRun, E!Ended

\* Without memories there is nothing to read.
LEMMA NoReads ==
  ASSUME ~HasMemories, NEW w, NEW S \in Valuation, NEW names
  PROVE  E!MemReads(E!Mems, w, S, names) = S
BY SamePorts, NothingRead DEF HasMemories, E!Mems

-----------------------------------------------------------------------------
\* What keeps the walks together.

\* A block that can have raised $finish.
AllBut(S, T) ==
  \E b \in { Domains[i].written : i \in due } \cup { Comps[c].writes : c \in Comp } :
     \A s \in Signal \ b : S[s] = T[s]

\* The walks are at the same place.
Abreast ==
  /\ pc = ePc /\ k = eK /\ tc = eTc /\ clock = eClock /\ due = eDue /\ finished = eFinished
  /\ count = eCount
  /\ pc \in {"settle", "record"} => (fired <=> due # {})

\* The signals differ only in what a block wrote that raised.
SameSignals ==
  /\ ~finished /\ pc # "raised" => sig = eSig
  /\ finished /\ pc \in {"record", "done"} => AllBut(sig, eSig)
  /\ IF finished /\ pc = "done" THEN AllBut(out, eOut) ELSE out = eOut

\* Until components settle, what the engine has seen change the loop has noted;
\* the loop notes more only of clocks, and nothing more if clocks showed their
\* levels.
Noted ==
  pc \in {"toggle", "async", "seq"} =>
    /\ changed \subseteq moved /\ moved \subseteq SeqWritten \cup Clocks
    /\ moved \ changed \subseteq Clocks
    /\ \A s \in Signal \ changed : sig[s] = snap[s]
    /\ ClocksShown => moved = changed

\* So every component the engine settles the loop settles too; what a component
\* that the engine passes touches was moved by other components at most.
Chosen ==
  /\ pc = "seed" => todo = { c \in Comp : Comps[c].signals # {} }
  /\ pc = "settle" =>
       /\ todo \subseteq Reached
       /\ ClocksShown => todo = Reached
       /\ due # {} => \A c \in Comp \ todo : \A s \in Comps[c].signals :
            sig[s] # snap[s] => \E b \in Comp : b < k /\ s \in Comps[b].writes

Agreement == ~HasMemories => Abreast /\ SameSignals /\ Noted /\ Chosen

\* What is known of the loop alone.
LoopInv == TypeOK /\ Timing /\ Entries /\ Finishing

\* Both start in the same state.
LEMMA AgreementInit == PairInit => Agreement
BY DEF PairInit, Init, E!Init, Agreement, Abreast, SameSignals, Noted, Chosen, E!Dom, E!Domains, Dom, Domains

\* What a step keeps that leaves the design and the tick's beginning.
LEMMA ShownKept ==
  ASSUME UNCHANGED <<design, snap, tc>>
  PROVE  ClocksShown' = ClocksShown
BY DEF ClocksShown, Dom, Domains

LEMMA TogetherInitial ==
  ASSUME LoopInv, Agreement, ~HasMemories, RunInitial, E!RunInitial
  PROVE  Agreement'
<1>1. /\ pc = "init" /\ UNCHANGED <<design, tc, clock, due, finished>> /\ ~finished
      /\ sig' = Exec(design.initial, sig).sig
      /\ \/ /\ Exec(design.initial, sig).exit = "ok" /\ pc' = "seed" /\ k' = 1 /\ UNCHANGED <<out, count>>
         \/ /\ Exec(design.initial, sig).exit = "finish" /\ pc' = "done" /\ k' = 1
            /\ out' = Exec(design.initial, sig).sig /\ count' = 1
         \/ /\ Exec(design.initial, sig).exit = "error" /\ pc' = "raised" /\ k' = 1 /\ UNCHANGED <<out, count>>
  BY DEF RunInitial, Goto, LoopInv, Finishing
<1>2. /\ UNCHANGED <<eTc, eClock, eDue, eFinished>>
      /\ eSig' = Exec(design.initial, eSig).sig
      /\ \/ /\ Exec(design.initial, eSig).exit = "ok" /\ ePc' = "seed" /\ eK' = 1 /\ UNCHANGED <<eOut, eCount>>
            /\ todo' = E!Affected(Signal)
         \/ /\ Exec(design.initial, eSig).exit = "finish" /\ ePc' = "done" /\ eK' = 1
            /\ eOut' = Exec(design.initial, eSig).sig /\ eCount' = 1
         \/ /\ Exec(design.initial, eSig).exit = "error" /\ ePc' = "raised" /\ eK' = 1 /\ UNCHANGED <<eOut, eCount>>
  BY DEF E!RunInitial, E!Goto
<1>3. Abreast /\ sig = eSig /\ out = eOut
  BY <1>1 DEF Agreement, SameSignals
<1>4. E!Affected(Signal) = { c \in Comp : Comps[c].signals # {} }
  <2>1. \A c \in Comp : Comps[c].signals \subseteq Signal
    BY DesignFacts DEF LoopInv, TypeOK, Comp, ComponentOK
  <2> QED
    BY <2>1, SameNames DEF E!Affected, Comp
<1>5. Comp' = Comp /\ Comps' = Comps
  BY <1>1 DEF Comp, Comps
<1> QED
  BY <1>1, <1>2, <1>3, <1>4, <1>5 DEF Agreement, Abreast, SameSignals, Noted, Chosen

\* Every component that touches a signal is seeded by both.
LEMMA TogetherSeed ==
  ASSUME LoopInv, Agreement, ~HasMemories, Seed, E!Seed
  PROVE  Agreement'
<1> DEFINE r == Exec(Comps[k].block, sig)
<1>1. /\ Abreast /\ sig = eSig /\ out = eOut /\ todo = { c \in Comp : Comps[c].signals # {} }
      /\ pc = "seed" /\ ~finished
  BY DEF Seed, Agreement, SameSignals, Chosen, LoopInv, Finishing
<1>2. /\ UNCHANGED <<design, tc, clock, due, finished, out, count>>
      /\ IF Comps[k].signals = {} THEN k' = k + 1 /\ UNCHANGED <<pc, sig>>
         ELSE /\ sig' = r.sig
              /\ IF r.exit = "ok" THEN k' = k + 1 /\ UNCHANGED pc ELSE pc' = "raised" /\ k' = 1
  BY DEF Seed, Goto
<1>3. /\ UNCHANGED <<eTc, eClock, eDue, eFinished, eOut, eCount, todo>>
      /\ IF k \in todo
         THEN \/ r.exit = "ok" /\ eSig' = r.sig /\ eK' = eK + 1 /\ UNCHANGED ePc
              \/ r.exit # "ok" /\ ePc' = "raised" /\ eK' = 1 /\ UNCHANGED eSig
         ELSE eK' = eK + 1 /\ UNCHANGED <<ePc, eSig>>
  BY <1>1, SameNames DEF E!Seed, E!Goto, Abreast
<1>4. k \in Comp
  BY DEF Seed, LoopInv, TypeOK, Comp
<1>5. Comp' = Comp /\ Comps' = Comps
  BY <1>2 DEF Comp, Comps
<1> HIDE DEF r
<1> QED
  BY <1>1, <1>2, <1>3, <1>4, <1>5 DEF Agreement, Abreast, SameSignals, Noted, Chosen

\* The read ports that end the engine's seeding are none.
LEMMA TogetherSeeded ==
  ASSUME LoopInv, Agreement, ~HasMemories, NextPart, pc = "seed", E!SeedMemory, eSig \in Valuation
  PROVE  Agreement'
<1>1. /\ pc' = "tick" /\ k' = 1
      /\ UNCHANGED <<design, tc, sig, clock, due, fired, finished, out, count>>
  BY DEF NextPart, Goto
<1>2. /\ ePc' = "tick" /\ eK' = 1 /\ eSig' = eSig
      /\ UNCHANGED <<eTc, eClock, eDue, eFinished, eOut, eCount>>
  BY NoReads DEF E!SeedMemory, E!Goto
<1>3. Comp' = Comp /\ Comps' = Comps
  BY <1>1 DEF Comp, Comps
<1> QED
  BY <1>1, <1>2, <1>3 DEF Agreement, Abreast, SameSignals, Noted, Chosen, LoopInv, Finishing

\* A tick begins with nothing noted and nothing changed.
LEMMA TogetherStart ==
  ASSUME LoopInv, Agreement, ~HasMemories, StartTick, E!StartTick
  PROVE  Agreement'
<1>1. /\ pc = "tick" /\ ~finished /\ Abreast /\ sig = eSig /\ out = eOut
      /\ pc' = "toggle" /\ k' = 1 /\ tc' = tc + 1 /\ snap' = sig
      /\ moved' = {} /\ due' = {}
      /\ UNCHANGED <<design, sig, clock, finished, out, count>>
  BY DEF StartTick, Goto, Agreement, SameSignals, LoopInv, Finishing
<1>2. /\ ePc' = "toggle" /\ eK' = 1 /\ eTc' = eTc + 1 /\ changed' = {} /\ eDue' = {}
      /\ UNCHANGED <<eSig, eClock, eFinished, eOut, eCount>>
  BY DEF E!StartTick, E!Goto
<1> QED
  BY <1>1, <1>2 DEF Agreement, Abreast, SameSignals, Noted, Chosen

\* The steps that end a run, and those of a run that has ended.
LEMMA TogetherEnd ==
  ASSUME LoopInv, Agreement, ~HasMemories,
         \/ EndRun /\ E!EndRun
         \/ Ended /\ E!Ended
         \/ UNCHANGED pairVars
  PROVE  Agreement'
<1>1. CASE EndRun /\ E!EndRun
  <2>1. /\ pc = "tick" /\ pc' = "done" /\ k' = 1 /\ ~finished
        /\ UNCHANGED <<design, tc, sig, clock, due, finished, out, count>>
    BY <1>1 DEF EndRun, Goto, LoopInv, Finishing
  <2>2. /\ ePc' = "done" /\ eK' = 1
        /\ UNCHANGED <<eTc, eSig, eClock, eDue, eFinished, eOut, eCount>>
    BY <1>1 DEF E!EndRun, E!Goto
  <2> QED
    BY <2>1, <2>2 DEF Agreement, Abreast, SameSignals, Noted, Chosen
<1>2. CASE UNCHANGED pairVars
  BY <1>2 DEF pairVars, vars, engineVars, Agreement, Abreast, SameSignals, Noted, Chosen, AllBut, Reached,
         ClocksShown, HasMemories, Comp, Comps, Domains, Dom, SeqWritten, Clocks, Moving
<1>3. CASE Ended /\ E!Ended
  <2>1. UNCHANGED pairVars
    BY <1>3 DEF Ended, E!Ended, E!vars, pairVars, vars, engineVars
  <2> QED
    BY <1>2, <2>1
<1> QED
  BY <1>1, <1>2, <1>3

-----------------------------------------------------------------------------
\* The steps of a tick, together.

\* A write of some signals: what it changes is noted, and what it is noted for
\* it changes.
LEMMA NotedWrite ==
  ASSUME Noted, pc \in {"async", "seq"}, pc' \in {"async", "seq"},
         UNCHANGED <<design, snap, tc>>, NEW set \in SUBSET SeqWritten,
         \A s \in Signal \ set : sig'[s] = sig[s],
         moved' = moved \cup (set \cap Differing(sig', snap)),
         changed' = changed \cup Differing(sig, sig')
  PROVE  Noted'
<1>1. /\ changed \subseteq moved /\ moved \subseteq SeqWritten \cup Clocks
      /\ moved \ changed \subseteq Clocks
      /\ \A s \in Signal \ changed : sig[s] = snap[s]
      /\ ClocksShown => moved = changed
  BY DEF Noted
<1>2. (SeqWritten \cup Clocks)' = SeqWritten \cup Clocks /\ Clocks' = Clocks
  BY DEF SeqWritten, Clocks, Domains, Dom
<1>3. changed' \subseteq moved'
  BY <1>1 DEF Differing
<1>4. moved' \ changed' \subseteq moved \ changed
  BY <1>1 DEF Differing
<1>5. \A s \in Signal \ changed' : sig'[s] = snap[s]
  BY <1>1 DEF Differing
<1>6. moved' \subseteq SeqWritten \cup Clocks
  BY <1>1
<1> QED
  BY <1>1, <1>2, <1>3, <1>4, <1>5, <1>6, ShownKept DEF Noted

\* A clock that a domain toggles changes its signal, if the signal showed its
\* level.
LEMMA TogetherToggle ==
  ASSUME LoopInv, Agreement, ~HasMemories, ToggleClock, E!ToggleClock
  PROVE  Agreement'
<1> DEFINE d == Domains[k]
           level == 1 - clock[k]
<1>1. /\ pc = "toggle" /\ k \in Dom /\ ~finished /\ Abreast /\ sig = eSig /\ out = eOut /\ Noted
  BY DEF ToggleClock, Agreement, SameSignals, LoopInv, Finishing
<1>2. /\ UNCHANGED <<design, pc, tc, snap, fired, finished, out, count>> /\ k' = k + 1
      /\ IF tc % d.hpt = 0
         THEN /\ clock' = [clock EXCEPT ![k] = level]
              /\ sig' = [sig EXCEPT ![d.clk] = level]
              /\ moved' = moved \cup {d.clk}
              /\ due' = IF EdgeFires(d.edge, level) THEN due \cup {k} ELSE due
         ELSE UNCHANGED <<clock, sig, moved, due>>
  BY DEF ToggleClock, HalfPeriodEnds, NextLevel
<1>3. /\ UNCHANGED <<ePc, eTc, eFinished, eOut, eCount>> /\ eK' = eK + 1
      /\ IF tc % d.hpt = 0
         THEN /\ eClock' = [clock EXCEPT ![k] = level]
              /\ eSig' = [sig EXCEPT ![d.clk] = level]
              /\ changed' = changed \cup Differing(sig, eSig')
              /\ eDue' = IF EdgeFires(d.edge, level) THEN due \cup {k} ELSE due
         ELSE UNCHANGED <<eClock, eSig, changed, eDue>>
  BY <1>1, SameNames DEF E!ToggleClock, Abreast
<1>4. d.clk \in Signal /\ sig \in Valuation /\ level \in Int /\ d.clk \in Clocks
  BY <1>1, DomainFacts DEF LoopInv, TypeOK, Clocks
<1>5. /\ (SeqWritten \cup Clocks)' = SeqWritten \cup Clocks /\ Clocks' = Clocks
      /\ ClocksShown' = ClocksShown
  BY <1>2, ShownKept DEF SeqWritten, Clocks, Domains, Dom
<1>6. Noted'
  <2>1. CASE tc % d.hpt = 0
    <3> DEFINE clk == d.clk
    <3>1. /\ \A s \in Signal : s # clk => sig'[s] = sig[s]
          /\ sig'[clk] = level
      BY <1>2, <1>4, <2>1 DEF Valuation
    <3>2. ClocksShown => sig[clk] # level \/ clk \in changed
      <4> SUFFICES ASSUME ClocksShown, clk \notin changed PROVE sig[clk] # level
        OBVIOUS
      <4>1. sig[clk] = snap[clk]
        BY <1>1, <1>4 DEF Noted
      <4>2. snap[clk] = LevelAfter(tc - 1, d.hpt)
        BY <1>1 DEF ClocksShown
      <4>3. clock[k] = LevelAfter(tc - 1, d.hpt)
        BY <1>1 DEF LoopInv, Timing, ClockWaveform, TypeOK
      <4>4. clock[k] \in {0, 1}
        BY <1>1 DEF LoopInv, TypeOK
      <4> QED
        BY <4>1, <4>2, <4>3, <4>4
    <3>3. changed' = changed \cup Differing(sig, sig') /\ moved' = moved \cup {clk}
      BY <1>2, <1>3, <2>1
    <3> HIDE DEF clk, level
    <3>4. /\ Differing(sig, sig') \subseteq {clk}
          /\ sig[clk] # level => clk \in Differing(sig, sig')
      BY <1>4, <3>1 DEF Differing, clk
    <3>5. \A s \in Signal \ changed' : sig'[s] = snap[s]
      BY <1>1, <3>3 DEF Noted, Differing
    <3> QED
      BY <1>1, <1>2, <1>4, <1>5, <3>2, <3>3, <3>4, <3>5 DEF Noted, clk
  <2>2. CASE tc % d.hpt # 0
    BY <1>1, <1>2, <1>3, <1>5, <2>2 DEF Noted
  <2> QED
    BY <2>1, <2>2
<1>7. pc' = "toggle" /\ ePc' = "toggle" /\ k' = eK'
  BY <1>1, <1>2, <1>3 DEF Abreast
<1>8. sig' = eSig' /\ clock' = eClock' /\ due' = eDue'
  <2> DEFINE fires == EdgeFires(d.edge, level)
  <2> HIDE DEF fires
  <2>1. CASE tc % d.hpt = 0
    BY <1>2, <1>3, <2>1 DEF fires
  <2>2. CASE tc % d.hpt # 0
    BY <1>1, <1>2, <1>3, <2>2 DEF Abreast
  <2> QED
    BY <2>1, <2>2
<1>9. Abreast'
  BY <1>1, <1>2, <1>3, <1>7, <1>8 DEF Abreast
<1> QED
  BY <1>1, <1>2, <1>3, <1>6, <1>8, <1>9 DEF Agreement, SameSignals, Chosen

\* Both reset the same domains and hold them.
LEMMA TogetherReset ==
  ASSUME LoopInv, Agreement, ~HasMemories, AsyncReset, E!AsyncReset
  PROVE  Agreement'
<1> DEFINE d == Domains[k]
           active == d.style = "async" /\ ResetActive(d, sig)
<1>1. /\ pc = "async" /\ k \in Dom /\ ~finished /\ Abreast /\ sig = eSig /\ out = eOut /\ Noted
  BY DEF AsyncReset, Agreement, SameSignals, LoopInv, Finishing
<1>2. /\ UNCHANGED <<design, pc, tc, clock, snap, fired, finished, out, count>> /\ k' = k + 1
      /\ IF active
         THEN /\ sig' = ApplyReset(d, InitVal, sig)
              /\ moved' = moved \cup (d.written \cap Differing(sig', snap))
              /\ due' = due \ {k}
         ELSE UNCHANGED <<sig, moved, due>>
  BY DEF AsyncReset, NoteChanges, CancelFiring
<1>3. /\ UNCHANGED <<ePc, eTc, eClock, eFinished, eOut, eCount>> /\ eK' = eK + 1
      /\ IF active
         THEN /\ eSig' = ApplyReset(d, InitVal, sig)
              /\ changed' = changed \cup Differing(sig, eSig')
              /\ eDue' = due \ {k}
         ELSE UNCHANGED <<eSig, changed, eDue>>
  BY <1>1, SameNames DEF E!AsyncReset, Abreast
<1>4. d.written \in SUBSET SeqWritten /\ \A s \in Signal \ d.written : ApplyReset(d, InitVal, sig)[s] = sig[s]
  BY <1>1, DomainRuns DEF LoopInv, SeqWritten
<1> HIDE DEF d, active
<1>5. /\ pc' = "async" /\ ePc' = "async" /\ k' = eK'
      /\ sig' = eSig' /\ clock' = eClock' /\ due' = eDue'
  BY <1>1, <1>2, <1>3 DEF Abreast
<1>6. Noted'
  <2>1. CASE active
    BY <1>1, <1>2, <1>3, <1>4, <1>5, <2>1, NotedWrite
  <2>2. CASE ~active
    <3>1. (SeqWritten \cup Clocks)' = SeqWritten \cup Clocks /\ Clocks' = Clocks /\ ClocksShown' = ClocksShown
      BY <1>2, ShownKept DEF SeqWritten, Clocks, Domains, Dom
    <3> QED
      BY <1>1, <1>2, <1>3, <2>2, <3>1 DEF Noted
  <2> QED
    BY <2>1, <2>2
<1>7. Abreast'
  BY <1>1, <1>2, <1>3, <1>5 DEF Abreast
<1> QED
  BY <1>1, <1>2, <1>3, <1>5, <1>6, <1>7 DEF Agreement, SameSignals, Chosen

\* A block that finished the run left its writes in the loop only.
LEMMA LostWrites ==
  ASSUME NEW S, NEW T, sig' = T, eSig' = S, UNCHANGED <<design, due>>,
         NEW set, \/ \E i \in due : set = Domains[i].written
                  \/ \E c \in Comp : set = Comps[c].writes,
         \A s \in Signal \ set : T[s] = S[s]
  PROVE  AllBut(sig, eSig)'
<1>1. Domains' = Domains /\ Comps' = Comps /\ Comp' = Comp
  BY DEF Domains, Comps, Comp
<1>2. set \in { Domains[i].written : i \in due } \cup { Comps[c].writes : c \in Comp }
  OBVIOUS
<1> QED
  BY <1>1, <1>2 DEF AllBut

\* A domain that fired runs the same block in both.
LEMMA TogetherRun ==
  ASSUME LoopInv, Agreement, ~HasMemories, RunDomain, E!RunDomain
  PROVE  Agreement'
<1> DEFINE d == Domains[k]
           r == IF d.style = "sync" /\ ResetActive(d, sig)
                THEN [sig |-> ApplyReset(d, InitVal, sig), exit |-> "ok"]
                ELSE Exec(d.block, sig)
<1>1. /\ pc = "seq" /\ k \in due /\ k \in Dom /\ ~finished /\ Abreast /\ sig = eSig /\ out = eOut /\ Noted
  BY DEF RunDomain, Agreement, SameSignals, LoopInv, Finishing, TypeOK
<1>2. /\ UNCHANGED <<design, tc, clock, snap, due, out, count>> /\ fired' = TRUE /\ sig' = r.sig
      /\ \/ /\ r.exit = "ok" /\ k' = k + 1 /\ UNCHANGED <<pc, finished>>
            /\ moved' = moved \cup (d.written \cap Differing(sig', snap))
         \/ r.exit = "finish" /\ pc' = "record" /\ k' = 1 /\ finished' = TRUE
         \/ r.exit = "error" /\ pc' = "raised" /\ k' = 1 /\ UNCHANGED finished
  BY DEF RunDomain, NoteChanges, Goto
<1>3. /\ UNCHANGED <<eTc, eClock, eDue, eOut, eCount>>
      /\ \/ /\ r.exit = "ok" /\ eK' = eK + 1 /\ eSig' = r.sig
            /\ changed' = changed \cup Differing(sig, eSig') /\ UNCHANGED <<ePc, eFinished>>
         \/ r.exit = "finish" /\ ePc' = "record" /\ eK' = 1 /\ eFinished' = TRUE /\ UNCHANGED eSig
         \/ r.exit = "error" /\ ePc' = "raised" /\ eK' = 1 /\ UNCHANGED <<eFinished, eSig>>
  BY <1>1, SameNames DEF E!RunDomain, E!Goto, Abreast
<1>4. d.written \in SUBSET SeqWritten /\ \A s \in Signal \ d.written : r.sig[s] = sig[s]
  BY <1>1, DomainRuns DEF LoopInv, SeqWritten
<1> HIDE DEF r
<1>5. CASE r.exit = "ok"
  <2>1. /\ pc' = "seq" /\ ePc' = "seq" /\ k' = eK' /\ sig' = eSig' /\ ~finished' /\ ~eFinished'
        /\ moved' = moved \cup (d.written \cap Differing(sig', snap))
        /\ changed' = changed \cup Differing(sig, sig')
    BY <1>1, <1>2, <1>3, <1>5 DEF Abreast
  <2> HIDE DEF d
  <2>2. Noted'
    BY <1>1, <1>2, <1>4, <2>1, NotedWrite
  <2>3. Abreast'
    BY <1>1, <1>2, <1>3, <2>1 DEF Abreast
  <2> QED
    BY <1>1, <1>2, <1>3, <2>1, <2>2, <2>3 DEF Agreement, SameSignals, Chosen
<1>6. CASE r.exit = "finish"
  <2>1. /\ pc' = "record" /\ ePc' = "record" /\ k' = eK' /\ finished' /\ eFinished' /\ finished' = eFinished'
        /\ sig' = r.sig /\ eSig' = sig
    BY <1>1, <1>2, <1>3, <1>6 DEF Abreast
  <2>2. AllBut(sig, eSig)'
    BY <1>1, <1>2, <1>4, <2>1, LostWrites
  <2>3. Abreast'
    BY <1>1, <1>2, <1>3, <2>1 DEF Abreast
  <2> QED
    BY <1>1, <1>2, <1>3, <2>1, <2>2, <2>3 DEF Agreement, SameSignals, Noted, Chosen
<1>7. CASE r.exit = "error"
  <2>1. /\ pc' = "raised" /\ ePc' = "raised" /\ k' = eK' /\ ~finished' /\ ~eFinished'
    BY <1>1, <1>2, <1>3, <1>7 DEF Abreast
  <2>2. Abreast'
    BY <1>1, <1>2, <1>3, <2>1 DEF Abreast
  <2> QED
    BY <1>1, <1>2, <1>3, <2>1, <2>2 DEF Agreement, SameSignals, Noted, Chosen
<1> QED
  BY <1>2, <1>5, <1>6, <1>7

\* Or is passed by both.
LEMMA TogetherSkip ==
  ASSUME LoopInv, Agreement, ~HasMemories, SkipDomain, E!SkipDomain
  PROVE  Agreement'
<1>1. /\ pc = "seq" /\ ~finished /\ k' = k + 1
      /\ UNCHANGED <<design, pc, tc, sig, clock, snap, moved, due, fired, finished, out, count>>
  BY DEF SkipDomain, LoopInv, Finishing
<1>2. eK' = eK + 1 /\ UNCHANGED <<ePc, eTc, eSig, eClock, changed, eDue, eFinished, eOut, eCount>>
  BY DEF E!SkipDomain
<1>3. (SeqWritten \cup Clocks)' = SeqWritten \cup Clocks /\ Clocks' = Clocks /\ ClocksShown' = ClocksShown
  BY <1>1, ShownKept DEF SeqWritten, Clocks, Domains, Dom
<1>4. Abreast /\ sig = eSig /\ out = eOut /\ Noted
  BY <1>1 DEF Agreement, SameSignals
<1> QED
  BY <1>1, <1>2, <1>3, <1>4 DEF Agreement, Abreast, SameSignals, Noted, Chosen

\* The parts before the settling hand over what has been noted.
LEMMA TogetherPart ==
  ASSUME LoopInv, Agreement, ~HasMemories, pc \in {"toggle", "async"}, NextPart, E!NextPart
  PROVE  Agreement'
<1>1. /\ k' = 1 /\ ~finished /\ pc' = IF pc = "toggle" THEN "async" ELSE "seq"
      /\ UNCHANGED <<design, tc, sig, clock, snap, moved, due, fired, finished, out, count>>
  BY DEF NextPart, Goto, LoopInv, Finishing
<1>2. Abreast /\ sig = eSig /\ out = eOut /\ Noted
  BY <1>1 DEF Agreement, SameSignals
<1>3. /\ eK' = 1 /\ ePc' = IF ePc = "toggle" THEN "async" ELSE "seq"
      /\ UNCHANGED <<eTc, eSig, eClock, changed, eDue, eFinished, eOut, eCount>>
  BY <1>2 DEF E!NextPart, E!Goto, Abreast
<1>4. (SeqWritten \cup Clocks)' = SeqWritten \cup Clocks /\ Clocks' = Clocks /\ ClocksShown' = ClocksShown
  BY <1>1, ShownKept DEF SeqWritten, Clocks, Domains, Dom
<1> QED
  BY <1>1, <1>2, <1>3, <1>4 DEF Agreement, Abreast, SameSignals, Noted, Chosen

\* The engine chooses the components to settle, among those the loop will.
LEMMA TogetherChoose ==
  ASSUME LoopInv, Agreement, ~HasMemories, NextPart, pc = "seq", E!MemoryPorts, eSig \in Valuation
  PROVE  Agreement'
<1>1. /\ pc' = "settle" /\ k' = 1 /\ k > Len(Domains) /\ ~finished
      /\ UNCHANGED <<design, tc, sig, clock, snap, moved, due, fired, finished, out, count>>
  BY DEF NextPart, Goto, LoopInv, Finishing
<1>2. Abreast /\ sig = eSig /\ out = eOut /\ Noted
  BY <1>1 DEF Agreement, SameSignals
<1>3. /\ ePc' = "settle" /\ eK' = 1 /\ eSig' = eSig
      /\ UNCHANGED <<eTc, eClock, eDue, eFinished, eOut, eCount>>
  BY NoReads DEF E!MemoryPorts, E!Goto
<1>4. changed' = changed
  BY <1>3, SameNames DEF E!MemoryPorts, Differing
<1>5. todo' = IF due # {} THEN { c \in Comp : Comps[c].signals \cap changed # {} } ELSE {}
  BY <1>2, <1>4, SameNames DEF E!MemoryPorts, E!Affected, Comp, Abreast
<1>6. fired <=> due # {}
  <2>1. \A i \in due : i < k
    BY <1>1, DesignFacts DEF LoopInv, TypeOK, Dom
  <2> QED
    BY <1>1, <2>1 DEF NextPart, LoopInv, Entries
<1>7. /\ changed \subseteq moved /\ moved \subseteq SeqWritten \cup Clocks
      /\ \A s \in Signal \ changed : sig[s] = snap[s]
      /\ ClocksShown => moved = changed
  BY <1>2 DEF Noted
<1>8. \A c \in Comp : Moving(Comps[c]) \cap moved = Comps[c].signals \cap moved
  BY <1>7 DEF Moving
<1>9. Reached = IF due # {} THEN { c \in Comp : Comps[c].signals \cap moved # {} } ELSE {}
  BY <1>6, <1>8 DEF Reached, Comp
<1>10. /\ Comp' = Comp /\ Comps' = Comps /\ Reached' = Reached /\ ClocksShown' = ClocksShown
  BY <1>1, ShownKept DEF Comp, Comps, Reached, Moving, SeqWritten, Clocks, Domains, Dom
<1>11. todo' \subseteq Reached /\ (ClocksShown => todo' = Reached)
  BY <1>5, <1>7, <1>9
<1>12. due # {} => \A c \in Comp \ todo' : \A s \in Comps[c].signals : sig[s] = snap[s]
  <2>1. \A c \in Comp : Comps[c].signals \subseteq Signal
    BY DesignFacts DEF LoopInv, TypeOK, Comp, ComponentOK
  <2> QED
    BY <1>5, <1>7, <2>1
<1>13. Chosen'
  BY <1>1, <1>10, <1>11, <1>12 DEF Chosen
<1> QED
  BY <1>1, <1>2, <1>3, <1>6, <1>13 DEF Agreement, Abreast, SameSignals, Noted

\* A component that the loop alone settles changes nothing.
LEMMA TogetherSettle ==
  ASSUME LoopInv, Agreement, SurplusAgrees, ~HasMemories, SettleComponent, E!SettleComponent
  PROVE  Agreement'
<1> DEFINE r == Exec(Comps[k].block, sig)
<1>1. /\ pc = "settle" /\ k \in Comp /\ ~finished /\ Abreast /\ sig = eSig /\ out = eOut /\ Chosen
  BY DEF SettleComponent, Agreement, SameSignals, LoopInv, Finishing, TypeOK, Comp
<1>2. /\ UNCHANGED <<design, tc, clock, snap, moved, due, fired, out, count>>
      /\ IF k \in Reached
         THEN /\ sig' = r.sig
              /\ \/ r.exit = "ok" /\ k' = k + 1 /\ UNCHANGED <<pc, finished>>
                 \/ r.exit = "finish" /\ pc' = "record" /\ k' = 1 /\ finished' = TRUE
                 \/ r.exit = "error" /\ pc' = "raised" /\ k' = 1 /\ UNCHANGED finished
         ELSE k' = k + 1 /\ UNCHANGED <<pc, sig, finished>>
  BY <1>1 DEF SettleComponent, Goto, Reached, Comp
<1>3. /\ UNCHANGED <<eTc, eClock, eDue, todo, eOut, eCount>>
      /\ IF k \in todo
         THEN \/ r.exit = "ok" /\ eK' = eK + 1 /\ eSig' = r.sig /\ UNCHANGED <<ePc, eFinished>>
              \/ r.exit = "finish" /\ ePc' = "record" /\ eK' = 1 /\ eFinished' = TRUE /\ UNCHANGED eSig
              \/ r.exit = "error" /\ ePc' = "raised" /\ eK' = 1 /\ UNCHANGED <<eFinished, eSig>>
         ELSE eK' = eK + 1 /\ UNCHANGED <<ePc, eSig, eFinished>>
  BY <1>1, SameNames DEF E!SettleComponent, E!Goto, Abreast
<1>4. r.exit \in {"ok", "finish", "error"} /\ \A s \in Signal \ Comps[k].writes : r.sig[s] = sig[s]
  BY <1>1, DesignFacts DEF LoopInv, TypeOK, Comp, ComponentOK, BlockTotal, WritesOnly, Outcome
<1>5. /\ Comp' = Comp /\ Comps' = Comps /\ Reached' = Reached /\ ClocksShown' = ClocksShown
  BY <1>2, ShownKept DEF Comp, Comps, Reached, Moving, SeqWritten, Clocks, Domains, Dom
<1>6. k \in Reached \ todo => r.exit = "ok" /\ r.sig = sig
  BY <1>1 DEF SurplusAgrees, Agrees, Ok
<1>7. todo \subseteq Reached
  BY <1>1 DEF Chosen
<1> HIDE DEF r
<1>8. ASSUME k' = k + 1, pc' = pc, \A s \in Signal \ Comps[k].writes : sig'[s] = sig[s]
      PROVE  Chosen'
  <2>1. /\ ClocksShown => todo = Reached
        /\ due # {} => \A c \in Comp \ todo : \A s \in Comps[c].signals :
             sig[s] # snap[s] => \E b \in Comp : b < k /\ s \in Comps[b].writes
    BY <1>1 DEF Chosen
  <2>2. \A c \in Comp : Comps[c].signals \subseteq Signal
    BY DesignFacts DEF LoopInv, TypeOK, Comp, ComponentOK
  <2>3. k \in Nat /\ \A b \in Comp : b < k => b < k + 1
    BY DEF LoopInv, TypeOK, Comp
  <2>4. ASSUME due # {}, NEW c \in Comp \ todo, NEW s \in Comps[c].signals, sig'[s] # snap[s]
        PROVE  \E b \in Comp : b < k + 1 /\ s \in Comps[b].writes
    <3>1. CASE s \in Comps[k].writes
      BY <1>1, <2>3, <3>1
    <3>2. CASE s \notin Comps[k].writes
      <4>1. sig[s] # snap[s]
        BY <1>8, <2>2, <2>4, <3>2
      <4> QED
        BY <2>1, <2>3, <2>4, <4>1
    <3> QED
      BY <3>1, <3>2
  <2> QED
    BY <1>1, <1>2, <1>3, <1>5, <1>7, <1>8, <2>1, <2>4 DEF Chosen
<1>9. CASE k \in todo /\ r.exit = "finish"
  <2>1. /\ pc' = "record" /\ ePc' = "record" /\ k' = eK' /\ finished' /\ eFinished' /\ finished' = eFinished'
        /\ sig' = r.sig /\ eSig' = sig
    BY <1>1, <1>2, <1>3, <1>7, <1>9 DEF Abreast
  <2>2. AllBut(sig, eSig)'
    BY <1>1, <1>2, <1>4, <2>1, LostWrites
  <2>3. Abreast'
    BY <1>1, <1>2, <1>3, <2>1 DEF Abreast
  <2> QED
    BY <1>1, <1>2, <1>3, <2>1, <2>2, <2>3 DEF Agreement, SameSignals, Noted, Chosen
<1>10. CASE k \in todo /\ r.exit = "error"
  <2>1. /\ pc' = "raised" /\ ePc' = "raised" /\ k' = eK' /\ ~finished' /\ ~eFinished'
    BY <1>1, <1>2, <1>3, <1>7, <1>10 DEF Abreast
  <2>2. Abreast'
    BY <1>1, <1>2, <1>3, <2>1 DEF Abreast
  <2> QED
    BY <1>1, <1>2, <1>3, <2>1, <2>2 DEF Agreement, SameSignals, Noted, Chosen
<1>11. CASE k \notin todo \/ r.exit = "ok"
  <2>1. /\ k' = k + 1 /\ eK' = eK + 1 /\ UNCHANGED <<pc, finished, ePc, eFinished>>
        /\ sig' = IF k \in todo THEN r.sig ELSE sig
        /\ eSig' = sig'
    BY <1>1, <1>2, <1>3, <1>6, <1>7, <1>11
  <2>2. Chosen'
    BY <1>4, <1>8, <2>1
  <2>3. Abreast'
    BY <1>1, <1>2, <1>3, <2>1 DEF Abreast
  <2> QED
    BY <1>1, <1>2, <1>3, <2>1, <2>2, <2>3 DEF Agreement, SameSignals, Noted
<1> QED
  BY <1>4, <1>9, <1>10, <1>11

\* The components have settled.
LEMMA TogetherSettled ==
  ASSUME LoopInv, Agreement, ~HasMemories, pc = "settle", NextPart, E!NextPart
  PROVE  Agreement'
<1>1. /\ pc' = "record" /\ k' = 1 /\ ~finished
      /\ UNCHANGED <<design, tc, sig, clock, snap, moved, due, fired, finished, out, count>>
  BY DEF NextPart, Goto, LoopInv, Finishing
<1>2. Abreast /\ sig = eSig /\ out = eOut
  BY <1>1 DEF Agreement, SameSignals
<1>3. /\ eK' = 1 /\ ePc' = "record"
      /\ UNCHANGED <<eTc, eSig, eClock, changed, eDue, eFinished, eOut, eCount>>
  BY <1>2 DEF E!NextPart, E!Goto, Abreast
<1> QED
  BY <1>1, <1>2, <1>3 DEF Agreement, Abreast, SameSignals, Noted, Chosen

\* Both trace the tick or neither.
LEMMA TogetherRecord ==
  ASSUME LoopInv, Agreement, ~HasMemories, Record, E!Record
  PROVE  Agreement'
<1>1. /\ pc = "record" /\ k' = 1 /\ pc' = IF finished THEN "done" ELSE "tick"
      /\ IF fired THEN out' = sig /\ count' = count + 1 ELSE UNCHANGED <<out, count>>
      /\ UNCHANGED <<design, tc, sig, clock, due, fired, finished>>
  BY DEF Record, Traced, AfterRecord, Goto
<1>2. /\ Abreast /\ out = eOut /\ (~finished => sig = eSig) /\ (finished => AllBut(sig, eSig))
      /\ fired <=> due # {}
      /\ finished => fired
  BY <1>1 DEF Agreement, SameSignals, Abreast, LoopInv, Finishing
<1>3. /\ eK' = 1 /\ ePc' = IF eFinished THEN "done" ELSE "tick"
      /\ IF due # {} THEN eOut' = eSig /\ eCount' = eCount + 1 ELSE UNCHANGED <<eOut, eCount>>
      /\ UNCHANGED <<eTc, eSig, eClock, eDue, eFinished>>
  BY <1>2 DEF E!Record, E!Traced, E!Goto, Abreast
<1>4. Domains' = Domains /\ Comps' = Comps /\ Comp' = Comp
  BY <1>1 DEF Domains, Comps, Comp
<1>5. Abreast'
  BY <1>1, <1>2, <1>3 DEF Abreast
<1>6. CASE finished
  <2>1. AllBut(sig, eSig)' /\ AllBut(out, eOut)'
    BY <1>1, <1>2, <1>3, <1>4, <1>6 DEF AllBut
  <2> QED
    BY <1>1, <1>5, <1>6, <2>1 DEF Agreement, SameSignals, Noted, Chosen
<1>7. CASE ~finished
  <2>1. out' = eOut' /\ sig' = eSig' /\ pc' = "tick"
    BY <1>1, <1>2, <1>3, <1>7
  <2> QED
    BY <1>1, <1>5, <1>7, <2>1 DEF Agreement, SameSignals, Noted, Chosen
<1> QED
  BY <1>6, <1>7

-----------------------------------------------------------------------------
\* The engine's types, for every design.

\* The words of each memory are as many as it has, and values.
WordsFit == words = [m \in 1 .. Len(design.mems) |-> words[m]] /\ WordsOK(design.mems, words)

EngineTypeOK ==
  /\ ePc \in {"init", "seed", "tick", "toggle", "async", "seq", "settle", "record",
             "done", "raised"}
  /\ eK \in Nat \ {0} /\ eTc \in 0 .. Ticks
  /\ eSig \in Valuation /\ eOut \in Valuation
  /\ eClock \in [Dom -> {0, 1}]
  /\ changed \subseteq Signal /\ eDue \subseteq Dom /\ todo \subseteq Comp
  /\ WordsFit
  /\ eFinished \in BOOLEAN /\ eCount \in Nat
  /\ eFinished => ePc \in {"record", "done"}

\* The design's memories.
LEMMA MemoryFacts ==
  ASSUME design \in Designs
  PROVE  MemoriesOK(design.mems)
BY MemoriesAssumption, SamePorts

\* The initial words, and what writes leave.
LEMMA WordsFacts ==
  ASSUME design \in Designs
  PROVE  /\ \A w : w = InitWords(design.mems) =>
              /\ w = [m \in 1 .. Len(design.mems) |-> w[m]] /\ WordsOK(design.mems, w)
         /\ \A w, S, names : WordsOK(design.mems, w) /\ S \in Valuation =>
              LET v == MemWrites(design.mems, w, S, names)
              IN  /\ v = [m \in 1 .. Len(design.mems) |-> v[m]] /\ WordsOK(design.mems, v)
                  /\ MemReads(design.mems, v, S, names) \in Valuation
<1>1. MemoriesOK(design.mems)
  BY MemoryFacts
<1>2. ASSUME NEW w, w = InitWords(design.mems)
      PROVE  w = [m \in 1 .. Len(design.mems) |-> w[m]] /\ WordsOK(design.mems, w)
  BY <1>1, <1>2 DEF InitWords, WordsOK, MemoriesOK, MemoryOK
<1>3. ASSUME NEW w, NEW S \in Valuation, NEW names, WordsOK(design.mems, w)
      PROVE  LET v == MemWrites(design.mems, w, S, names)
             IN  /\ v = [m \in 1 .. Len(design.mems) |-> v[m]] /\ WordsOK(design.mems, v)
                 /\ MemReads(design.mems, v, S, names) \in Valuation
  <2> DEFINE v == MemWrites(design.mems, w, S, names)
  <2>1. WordsOK(design.mems, v)
    BY <1>1, <1>3, MemWritesFacts
  <2>2. v = [m \in 1 .. Len(design.mems) |-> v[m]]
    BY DEF MemWrites
  <2> HIDE DEF v
  <2>3. MemReads(design.mems, v, S, names) \in Valuation
    BY <1>1, <2>1, MemReadsFacts
  <2> QED
    BY <2>1, <2>2, <2>3 DEF v
<1> QED
  BY <1>2, <1>3

\* The state the engine starts from.
LEMMA EngineTypeInit == PairInit => EngineTypeOK
<1> SUFFICES ASSUME PairInit PROVE EngineTypeOK
  OBVIOUS
<1>1. TypeOK /\ design \in Designs /\ sig = eSig
  BY TypeInit DEF PairInit, Init
<1>2. /\ ePc = "init" /\ eK = 1 /\ eTc = 0 /\ eClock = [i \in Dom |-> 0]
      /\ words = InitWords(design.mems) /\ eOut = eSig /\ eCount = 0
      /\ changed = {} /\ eDue = {} /\ todo = {} /\ eFinished = FALSE
  BY SameNames, SamePorts DEF PairInit, E!Init
<1>3. WordsFit
  BY <1>1, <1>2, WordsFacts DEF WordsFit
<1>4. 0 \in 0 .. Ticks
  BY <1>1, DesignFacts
<1>5. eSig \in Valuation /\ eClock \in [Dom -> {0, 1}]
  BY <1>1, <1>2 DEF TypeOK
<1>6. eFinished \in BOOLEAN /\ ~eFinished
  BY <1>2
<1> QED
  BY <1>2, <1>3, <1>4, <1>5, <1>6 DEF EngineTypeOK

\* Every step of the engine.
LEMMA EngineTypeStep ==
  ASSUME TypeOK, EngineTypeOK, E!Next \/ UNCHANGED pairVars
  PROVE  EngineTypeOK'
<1>1. design' = design
  BY DEF E!Next, E!RunInitial, E!Seed, E!SeedMemory, E!StartTick, E!ToggleClock, E!AsyncReset,
         E!RunDomain, E!SkipDomain, E!MemoryPorts, E!SettleComponent, E!NextPart, E!Record,
         E!EndRun, E!Ended, E!vars, pairVars, vars
<1>2. /\ Dom' = Dom /\ Comp' = Comp /\ Ticks' = Ticks
      /\ words' = words => WordsFit'
  BY <1>1 DEF Dom, Domains, Comp, Comps, Ticks, EngineTypeOK, WordsFit
<1>3. design \in Designs /\ InitVal \in Valuation /\ Ticks \in Nat
  BY DesignFacts DEF TypeOK
<1> USE DEF E!Goto
<1>4. CASE E!RunInitial
  <2> DEFINE r == Exec(design.initial, eSig)
  <2>1. r \in Outcome
    BY <1>3, BlockOutcome DEF EngineTypeOK
  <2>2. /\ ePc = "init" /\ UNCHANGED <<eTc, eClock, changed, eDue, words, eFinished>> /\ eK' = 1
        /\ eSig' = r.sig /\ ePc' \in {"seed", "done", "raised"}
        /\ \/ UNCHANGED eOut
           \/ eOut' = r.sig
        /\ UNCHANGED eCount \/ eCount' = 1
        /\ UNCHANGED todo \/ todo' = E!Affected(Signal)
    BY <1>4 DEF E!RunInitial
  <2>3. E!Affected(Signal) \subseteq Comp
    BY SameNames DEF E!Affected, Comp
  <2> HIDE DEF r
  <2> QED
    BY <1>2, <2>1, <2>2, <2>3 DEF EngineTypeOK, Outcome
<1>5. CASE E!Seed \/ E!SettleComponent
  <2> DEFINE r == Exec(Comps[eK].block, eSig)
  <2>1. /\ eK <= Len(Comps) /\ ePc \in {"seed", "settle"}
        /\ eSig' \in {eSig, r.sig} /\ ePc' \in {ePc, "raised", "record"} /\ eK' \in {eK + 1, 1}
        /\ UNCHANGED <<eTc, eClock, eDue, todo, words, eOut, eCount>>
        /\ changed' \in {changed, changed \cup Differing(eSig, eSig')}
        /\ \/ UNCHANGED eFinished
           \/ eFinished' = TRUE /\ ePc' = "record"
    BY <1>5, SameNames DEF E!Seed, E!SettleComponent
  <2>2. r \in Outcome
    BY <1>3, <2>1, BlockOutcome DEF EngineTypeOK
  <2>3. eSig' \in Valuation /\ changed' \subseteq Signal
    BY <2>1, <2>2 DEF EngineTypeOK, Outcome, Differing
  <2>4. ePc' \in {"seed", "settle", "raised", "record"} /\ eK' \in Nat \ {0}
    BY <2>1 DEF EngineTypeOK
  <2>5. eFinished' \in BOOLEAN
    BY <2>1 DEF EngineTypeOK
  <2>6. eFinished' => ePc' \in {"record", "done"}
    <3>1. ~eFinished
      BY <2>1 DEF EngineTypeOK
    <3> QED
      BY <2>1, <3>1
  <2> QED
    BY <1>2, <2>1, <2>3, <2>4, <2>5, <2>6 DEF EngineTypeOK
<1>6. CASE E!SeedMemory \/ E!MemoryPorts
  <2>1. /\ eK' = 1 /\ ePc' \in {"tick", "settle"} /\ ePc \in {"seed", "seq"}
        /\ UNCHANGED <<eTc, eClock, eDue, eFinished, eOut, eCount>>
        /\ UNCHANGED changed \/ changed' = changed \cup Differing(eSig, eSig')
        /\ UNCHANGED todo \/ todo' = {} \/ todo' = E!Affected(changed')
    BY <1>6, SameNames DEF E!SeedMemory, E!MemoryPorts
  <2>2. \A set : E!Affected(set) \subseteq Comp
    BY SameNames DEF E!Affected, Comp
  <2>3. eSig' \in Valuation /\ WordsFit'
    <3>1. CASE E!SeedMemory
      <4>1. words' = words /\ eSig' = MemReads(design.mems, words, eSig, {})
        BY <3>1, SameNames, SamePorts DEF E!SeedMemory
      <4> QED
        BY <1>2, <1>3, <4>1, MemoryFacts, MemReadsFacts DEF EngineTypeOK, WordsFit
    <3>2. CASE E!MemoryPorts
      <4>1. PICK names : /\ words' = MemWrites(design.mems, words, eSig, names)
                         /\ eSig' = MemReads(design.mems, words', eSig, names)
        BY <3>2, SameNames, SamePorts DEF E!MemoryPorts
      <4> QED
        BY <1>1, <1>3, <4>1, WordsFacts DEF EngineTypeOK, WordsFit
    <3> QED
      BY <1>6, <3>1, <3>2
  <2> QED
    BY <1>2, <2>1, <2>2, <2>3 DEF EngineTypeOK, Differing
<1>7. CASE E!StartTick \/ E!EndRun
  <2>1. /\ eK' = 1 /\ ePc = "tick" /\ ePc' \in {"toggle", "done"}
        /\ eTc' = eTc \/ (eTc < Ticks /\ eTc' = eTc + 1)
        /\ changed' \in {changed, {}} /\ eDue' \in {eDue, {}}
        /\ UNCHANGED <<eSig, eClock, todo, words, eFinished, eOut, eCount>>
    BY <1>7, SameNames DEF E!StartTick, E!EndRun
  <2> QED
    BY <1>2, <1>3, <2>1 DEF EngineTypeOK
<1>8. CASE E!ToggleClock
  <2> DEFINE clk == Domains[eK].clk
  <2>1. /\ ePc = "toggle" /\ eK \in Dom /\ eK' = eK + 1
        /\ UNCHANGED <<ePc, eTc, todo, words, eFinished, eOut, eCount>>
        /\ \/ /\ eClock' = [eClock EXCEPT ![eK] = 1 - eClock[eK]]
              /\ eSig' = [eSig EXCEPT ![clk] = 1 - eClock[eK]]
              /\ changed' = changed \cup Differing(eSig, eSig')
              /\ eDue' \in {eDue, eDue \cup {eK}}
           \/ UNCHANGED <<eClock, eSig, changed, eDue>>
    BY <1>8, SameNames DEF E!ToggleClock
  <2>2. 1 - eClock[eK] \in {0, 1}
    BY <2>1 DEF EngineTypeOK
  <2>3. eClock' \in [Dom -> {0, 1}] /\ eSig' \in Valuation
    BY <2>1, <2>2, ValueAssumption DEF EngineTypeOK, Valuation
  <2>4. changed' \subseteq Signal /\ eDue' \subseteq Dom
    BY <2>1 DEF EngineTypeOK, Differing
  <2> HIDE DEF clk
  <2> QED
    BY <1>2, <2>1, <2>3, <2>4 DEF EngineTypeOK
<1>9. CASE E!AsyncReset \/ E!RunDomain
  <2> DEFINE r == Exec(Domains[eK].block, eSig)
             reset == ApplyReset(Domains[eK], InitVal, eSig)
  <2>1. /\ ePc \in {"async", "seq"} /\ ePc' \in {ePc, "record", "raised"} /\ eK' \in {eK + 1, 1}
        /\ eK \in Dom \/ eK \in eDue
        /\ UNCHANGED <<eTc, eClock, todo, words, eOut, eCount>>
        /\ eSig' \in {eSig, r.sig, reset}
        /\ changed' \in {changed, changed \cup Differing(eSig, eSig')}
        /\ eDue' \in {eDue, eDue \ {eK}}
        /\ \/ UNCHANGED eFinished
           \/ eFinished' = TRUE /\ ePc' = "record"
    <3>1. CASE E!AsyncReset
      BY <3>1, SameNames DEF E!AsyncReset
    <3>2. CASE E!RunDomain
      BY <3>2, SameNames DEF E!RunDomain
    <3> QED
      BY <1>9, <3>1, <3>2
  <2>2. r \in Outcome /\ reset \in Valuation
    BY <1>3, <2>1, BlockOutcome, ResetValuation DEF EngineTypeOK
  <2> HIDE DEF r, reset
  <2>3. eSig' \in Valuation /\ changed' \subseteq Signal /\ eDue' \subseteq Dom
    BY <2>1, <2>2 DEF EngineTypeOK, Outcome, Differing
  <2>4. ePc' \in {"async", "seq", "raised", "record"} /\ eK' \in Nat \ {0}
    BY <2>1 DEF EngineTypeOK
  <2>5. eFinished' \in BOOLEAN
    BY <2>1 DEF EngineTypeOK
  <2>6. eFinished' => ePc' \in {"record", "done"}
    <3>1. ~eFinished
      BY <2>1 DEF EngineTypeOK
    <3> QED
      BY <2>1, <3>1
  <2> QED
    BY <1>2, <2>1, <2>3, <2>4, <2>5, <2>6 DEF EngineTypeOK
<1>10. CASE E!SkipDomain \/ E!NextPart
  <2>1. /\ eK' \in {eK + 1, 1} /\ ePc' \in {"async", "seq", "record"} /\ ePc \in {"toggle", "async", "seq", "settle"}
        /\ UNCHANGED <<eTc, eSig, eClock, changed, eDue, todo, words, eFinished, eOut, eCount>>
    BY <1>10 DEF E!SkipDomain, E!NextPart
  <2> QED
    BY <1>2, <2>1 DEF EngineTypeOK
<1>11. CASE E!Record
  <2>1. /\ eK' = 1 /\ ePc' = IF eFinished THEN "done" ELSE "tick"
        /\ eOut' \in {eOut, eSig} /\ eCount' \in {eCount, eCount + 1}
        /\ UNCHANGED <<eTc, eSig, eClock, changed, eDue, todo, words, eFinished>>
    BY <1>11 DEF E!Record
  <2> QED
    BY <1>2, <2>1 DEF EngineTypeOK
<1>12. CASE E!Ended \/ UNCHANGED pairVars
  BY <1>2, <1>12 DEF E!Ended, E!vars, pairVars, engineVars, EngineTypeOK
<1> QED
  BY <1>4, <1>5, <1>6, <1>7, <1>8, <1>9, <1>10, <1>11, <1>12 DEF E!Next

-----------------------------------------------------------------------------
\* Agreement in every step.

\* A joint step is a step of the loop, or leaves it.
LEMMA LoopSteps == [PairNext]_pairVars => [Next]_vars
BY DEF PairNext, pairVars

\* What is known of the loop is known beside the engine.
LEMMA LoopInvInit == PairInit => LoopInv
BY TypeInit, TimingInit, EntriesInit, FinishingInit DEF PairInit, LoopInv

LEMMA LoopInvStep == LoopInv /\ [PairNext]_pairVars => LoopInv'
BY LoopSteps, TypeStep, TimingStep, EntriesStep, FinishingStep DEF LoopInv

\* The steps of the two that go together: at the same place, each has one.
LEMMA StepsPair ==
  ASSUME LoopInv, EngineTypeOK, Abreast, Next, E!Next
  PROVE  \/ RunInitial /\ E!RunInitial
         \/ Seed /\ E!Seed
         \/ pc = "seed" /\ NextPart /\ E!SeedMemory
         \/ StartTick /\ E!StartTick
         \/ EndRun /\ E!EndRun
         \/ ToggleClock /\ E!ToggleClock
         \/ pc \in {"toggle", "async"} /\ NextPart /\ E!NextPart
         \/ AsyncReset /\ E!AsyncReset
         \/ RunDomain /\ E!RunDomain
         \/ SkipDomain /\ E!SkipDomain
         \/ pc = "seq" /\ NextPart /\ E!MemoryPorts
         \/ SettleComponent /\ E!SettleComponent
         \/ pc = "settle" /\ NextPart /\ E!NextPart
         \/ Record /\ E!Record
         \/ Ended /\ E!Ended
<1>1. /\ Len(Domains) \in Nat /\ Len(Comps) \in Nat /\ Dom = 1 .. Len(Domains)
      /\ due \subseteq Dom /\ k \in Nat \ {0}
  BY DesignFacts DEF LoopInv, TypeOK, Dom
<1>2. pc = ePc /\ k = eK /\ tc = eTc /\ due = eDue
  BY DEF Abreast
<1>3. CASE RunInitial
  BY <1>2, <1>3, EnginePlaces DEF RunInitial
<1>4. CASE Seed
  <2>1. ~E!SeedMemory
    BY <1>1, <1>2, <1>4, SameNames DEF Seed, E!SeedMemory
  <2> QED
    BY <1>2, <1>4, <2>1, EnginePlaces DEF Seed
<1>5. CASE StartTick
  <2>1. ~E!EndRun
    BY <1>2, <1>5, SameNames, DesignFacts DEF StartTick, E!EndRun, LoopInv, TypeOK
  <2> QED
    BY <1>2, <1>5, <2>1, EnginePlaces DEF StartTick
<1>6. CASE EndRun
  <2>1. ~E!StartTick
    BY <1>2, <1>6, SameNames, DesignFacts DEF EndRun, E!StartTick, LoopInv, TypeOK
  <2> QED
    BY <1>2, <1>6, <2>1, EnginePlaces DEF EndRun
<1>7. CASE ToggleClock
  <2>1. pc = "toggle" /\ ~E!NextPart
    BY <1>1, <1>2, <1>7, SameNames DEF ToggleClock, E!NextPart
  <2> QED
    BY <1>2, <1>7, <2>1, EnginePlaces
<1>8. CASE AsyncReset
  <2>1. pc = "async" /\ ~E!NextPart
    BY <1>1, <1>2, <1>8, SameNames DEF AsyncReset, E!NextPart
  <2> QED
    BY <1>2, <1>8, <2>1, EnginePlaces
<1>9. CASE RunDomain
  <2>1. pc = "seq" /\ ~E!SkipDomain /\ ~E!MemoryPorts
    BY <1>1, <1>2, <1>9, SameNames DEF RunDomain, E!SkipDomain, E!MemoryPorts
  <2> QED
    BY <1>2, <1>9, <2>1, EnginePlaces
<1>10. CASE SkipDomain
  <2>1. pc = "seq" /\ ~E!RunDomain /\ ~E!MemoryPorts
    BY <1>1, <1>2, <1>10, SameNames DEF SkipDomain, E!RunDomain, E!MemoryPorts
  <2> QED
    BY <1>2, <1>10, <2>1, EnginePlaces
<1>11. CASE SettleComponent
  <2>1. pc = "settle" /\ ~E!NextPart
    BY <1>1, <1>2, <1>11, SameNames DEF SettleComponent, E!NextPart
  <2> QED
    BY <1>2, <1>11, <2>1, EnginePlaces
<1>12. CASE NextPart
  <2>1. CASE pc = "seed"
    <3>1. ~E!Seed
      BY <1>1, <1>2, <1>12, <2>1, SameNames DEF NextPart, E!Seed
    <3> QED
      BY <1>2, <1>12, <2>1, <3>1, EnginePlaces
  <2>2. CASE pc \in {"toggle", "async"}
    <3>1. ~E!ToggleClock /\ ~E!AsyncReset
      BY <1>1, <1>2, <1>12, <2>2, SameNames DEF NextPart, E!ToggleClock, E!AsyncReset
    <3> QED
      BY <1>2, <1>12, <2>2, <3>1, EnginePlaces
  <2>3. CASE pc = "seq"
    <3>1. ~E!RunDomain /\ ~E!SkipDomain
      BY <1>1, <1>2, <1>12, <2>3, SameNames DEF NextPart, E!RunDomain, E!SkipDomain
    <3> QED
      BY <1>2, <1>12, <2>3, <3>1, EnginePlaces
  <2>4. CASE pc = "settle"
    <3>1. ~E!SettleComponent
      BY <1>1, <1>2, <1>12, <2>4, SameNames DEF NextPart, E!SettleComponent
    <3> QED
      BY <1>2, <1>12, <2>4, <3>1, EnginePlaces
  <2> QED
    BY <1>12, <2>1, <2>2, <2>3, <2>4 DEF NextPart
<1>13. CASE Record
  BY <1>2, <1>13, EnginePlaces DEF Record
<1>14. CASE Ended
  BY <1>2, <1>14, EnginePlaces DEF Ended
<1> QED
  BY <1>3, <1>4, <1>5, <1>6, <1>7, <1>8, <1>9, <1>10, <1>11, <1>12, <1>13, <1>14 DEF Next

\* Every joint step in which what the loop settles in excess agrees already.
LEMMA AgreementStep ==
  LoopInv /\ EngineTypeOK /\ Agreement /\ SurplusAgrees /\ [PairNext]_pairVars => Agreement'
<1> SUFFICES ASSUME LoopInv, EngineTypeOK, Agreement, SurplusAgrees, [PairNext]_pairVars
             PROVE  Agreement'
  OBVIOUS
<1>1. design' = design /\ HasMemories' = HasMemories
  <2>1. design' = design
    BY LoopSteps DEF Next, RunInitial, Seed, StartTick, ToggleClock, AsyncReset, RunDomain, SkipDomain,
           SettleComponent, NextPart, Record, EndRun, Ended, vars
  <2> QED
    BY <2>1 DEF HasMemories
<1>2. CASE HasMemories
  BY <1>1, <1>2 DEF Agreement
<1>3. CASE ~HasMemories /\ UNCHANGED pairVars
  BY <1>3, TogetherEnd
<1>4. CASE ~HasMemories /\ Next /\ E!Next
  <2>1. Abreast /\ eSig \in Valuation
    BY <1>4 DEF Agreement, EngineTypeOK
  <2> QED
    BY <1>4, <2>1, StepsPair, TogetherInitial, TogetherSeed, TogetherSeeded, TogetherStart, TogetherEnd,
       TogetherToggle, TogetherReset, TogetherRun, TogetherSkip, TogetherPart, TogetherChoose,
       TogetherSettle, TogetherSettled, TogetherRecord
<1> QED
  BY <1>2, <1>3, <1>4 DEF PairNext

\* The engine's types, in every run of the pair.
THEOREM EngineTypeCorrect == PairSpec => []EngineTypeOK
<1>1. LoopInv /\ EngineTypeOK /\ [PairNext]_pairVars => EngineTypeOK'
  BY EngineTypeStep DEF PairNext, LoopInv
<1> QED
  BY <1>1, LoopInvInit, LoopInvStep, EngineTypeInit, PTL DEF PairSpec

\* The walks agree as long as what the loop settles in excess of the engine
\* agrees already with what it reads.
THEOREM AgreementCorrect == PairSpec /\ []SurplusAgrees => []Agreement
BY LoopInvInit, LoopInvStep, EngineTypeCorrect, AgreementInit, AgreementStep, PTL DEF PairSpec

\* What agreement says of the walks, the schedules and the traces.
LEMMA AgreementShows == LoopInv /\ Agreement => SameWalk /\ SameSchedule /\ SameTrace
<1> SUFFICES ASSUME LoopInv, Agreement, ~HasMemories
             PROVE  SameWalk /\ SameSchedule /\ SameTrace
  BY DEF SameWalk, SameSchedule, SameTrace
<1>1. Abreast /\ SameSignals /\ Chosen
  BY DEF Agreement
<1>2. SameWalk
  BY <1>1 DEF SameWalk, Abreast, SameSignals
<1>3. SameSchedule
  BY <1>1 DEF SameSchedule, Chosen
<1>4. SameTrace
  BY <1>1 DEF SameTrace, Abreast, SameSignals, AllBut, Comp
<1> QED
  BY <1>2, <1>3, <1>4

-----------------------------------------------------------------------------
\* Runs in which what the loop settles in excess agrees already.

\* SameWalk of EnginePair: the generated loop and the CSP engine walk in step,
\* with the same clocks, firings and signals, as long as that is so.
THEOREM WalksAgree == PairSpec /\ []SurplusAgrees => []SameWalk
BY LoopInvInit, LoopInvStep, AgreementCorrect, AgreementShows, PTL DEF PairSpec

\* SameSchedule of EnginePair, in such runs: both settle the same components in
\* every tick that began with clocks at their levels.
THEOREM SchedulesAgree == PairSpec /\ []SurplusAgrees => []SameSchedule
BY LoopInvInit, LoopInvStep, AgreementCorrect, AgreementShows, PTL DEF PairSpec

\* SameTrace of EnginePair, in such runs: the traces are the same, up to what the
\* block that raised $finish wrote.
THEOREM TracesAgree == PairSpec /\ []SurplusAgrees => []SameTrace
BY LoopInvInit, LoopInvStep, AgreementCorrect, AgreementShows, PTL DEF PairSpec

-----------------------------------------------------------------------------
\* Designs whose clocks are inputs.

\* The walk has come to a domain on the clock of domain i.
Passed(i) == pc # "toggle" \/ \E j \in Dom : j < k /\ Domains[j].clk = Domains[i].clk

\* The signal of a clock has the level of its domain: in the part that toggles,
\* the new one once a domain on it has been passed.
ClocksHold ==
  /\ OwnClocks(design)
  /\ \A i \in Dom : sig[Domains[i].clk] = LevelAfter(IF Passed(i) THEN tc ELSE tc - 1, Domains[i].hpt)
  /\ MidTick => ClocksShown

\* Every clock starts low.
LEMMA ClocksHoldInit == Init /\ OwnClocks(design) => ClocksHold
<1> SUFFICES ASSUME Init, OwnClocks(design) PROVE ClocksHold
  OBVIOUS
<1>1. pc = "init" /\ tc = 0 /\ sig \in design.starts /\ design \in Designs
  BY DEF Init
<1>2. \A i \in Dom : sig[Domains[i].clk] = 0 /\ Domains[i].hpt \in Nat \ {0}
  BY <1>1, DomainFacts DEF OwnClocks, Dom, Domains
<1>3. \A h \in Nat \ {0} : LevelAfter(0, h) = 0
  BY DEF LevelAfter
<1> QED
  BY <1>1, <1>2, <1>3 DEF ClocksHold, Passed, MidTick

\* Blocks, resets and components leave clocks alone.
LEMMA ClocksUntouched ==
  ASSUME TypeOK, OwnClocks(design), NEW i \in Dom
  PROVE  LET clk == Domains[i].clk
         IN  /\ Exec(design.initial, sig).sig[clk] = sig[clk]
             /\ \A j \in Dom : /\ Exec(Domains[j].block, sig).sig[clk] = sig[clk]
                               /\ ApplyReset(Domains[j], InitVal, sig)[clk] = sig[clk]
             /\ \A c \in Comp : Exec(Comps[c].block, sig).sig[clk] = sig[clk]
<1> DEFINE clk == Domains[i].clk
<1>1. clk \in Signal /\ sig \in Valuation /\ design \in Designs
  BY DomainFacts DEF TypeOK
<1>2. /\ \A S \in Valuation : Exec(design.initial, S).sig[clk] = S[clk]
      /\ \A j \in Dom : clk \notin Domains[j].written
      /\ \A c \in Comp : clk \notin Comps[c].writes
  BY DEF OwnClocks, Dom, Domains, Comp, Comps
<1>3. \A c \in Comp : ComponentOK(Comps[c])
  BY <1>1, DesignFacts DEF Comp
<1> HIDE DEF clk
<1>4. \A c \in Comp : Exec(Comps[c].block, sig).sig[clk] = sig[clk]
  BY <1>1, <1>2, <1>3 DEF ComponentOK, WritesOnly
<1>5. \A j \in Dom : /\ Exec(Domains[j].block, sig).sig[clk] = sig[clk]
                     /\ ApplyReset(Domains[j], InitVal, sig)[clk] = sig[clk]
  BY <1>1, <1>2, DomainRuns
<1> QED
  BY <1>1, <1>2, <1>4, <1>5 DEF clk

\* A domain that toggles gives its clock the new level, and one that does not
\* has the same level after the tick as before.
LEMMA ClocksHoldToggle ==
  ASSUME TypeOK, Timing, Timing', ClocksHold, ToggleClock
  PROVE  ClocksHold'
<1> DEFINE clk(i) == Domains[i].clk
           level == NextLevel(clock[k])
<1>1. /\ pc = "toggle" /\ pc' = "toggle" /\ k \in Dom /\ k' = k + 1 /\ UNCHANGED <<design, tc, snap>>
      /\ IF HalfPeriodEnds(Domains[k])
         THEN clock' = [clock EXCEPT ![k] = level] /\ sig' = [sig EXCEPT ![clk(k)] = level]
         ELSE UNCHANGED <<clock, sig>>
  BY DEF ToggleClock
<1>2. /\ Dom' = Dom /\ Domains' = Domains /\ ClocksShown' = ClocksShown /\ OwnClocks(design)'
      /\ sig \in Valuation /\ design \in Designs /\ tc \in Nat \ {0} /\ k \in Nat
      /\ \A i \in Dom : clk(i) \in Signal /\ Domains[i].hpt \in Nat \ {0} /\ i \in Nat
  BY <1>1, ShownKept, DesignFacts, DomainFacts DEF Dom, Domains, ClocksHold, TypeOK, Timing, MidTick
<1>3. \A i \in Dom : clk(i) = clk(k) => Domains[i].hpt = Domains[k].hpt
  BY <1>1 DEF ClocksHold, OwnClocks, Dom, Domains
<1>4. \A i \in Dom : Passed(i)' <=> Passed(i) \/ clk(i) = clk(k)
  <2>1. \A j \in Dom : j < k + 1 <=> j < k \/ j = k
    BY <1>2
  <2>2. \A i \in Dom : Passed(i) <=> \E j \in Dom : j < k /\ clk(j) = clk(i)
    BY <1>1 DEF Passed
  <2>3. \A i \in Dom : Passed(i)' <=> \E j \in Dom : j < k + 1 /\ clk(j) = clk(i)
    BY <1>1, <1>2 DEF Passed
  <2> QED
    BY <1>1, <2>1, <2>2, <2>3
<1>5. \A i \in Dom : sig[clk(i)] = LevelAfter(IF Passed(i) THEN tc ELSE tc - 1, Domains[i].hpt)
  BY DEF ClocksHold
<1>6. sig'[clk(k)] = LevelAfter(tc, Domains[k].hpt)
  <2>1. clock'[k] = LevelAfter(tc, Domains[k].hpt)
    BY <1>1, <1>2 DEF Timing, ClockWaveform
  <2>2. CASE HalfPeriodEnds(Domains[k])
    <3>1. clock'[k] = level /\ sig'[clk(k)] = level
      BY <1>1, <1>2, <2>2 DEF TypeOK, Valuation
    <3> QED
      BY <2>1, <3>1
  <2>3. CASE ~HalfPeriodEnds(Domains[k])
    <3>1. LevelAfter(tc, Domains[k].hpt) = LevelAfter(tc - 1, Domains[k].hpt)
      BY <1>1, <1>2, <2>3, LevelStep DEF HalfPeriodEnds
    <3> QED
      BY <1>1, <1>5, <2>3, <3>1
  <2> QED
    BY <2>2, <2>3
<1>7. \A i \in Dom : clk(i) # clk(k) => sig'[clk(i)] = sig[clk(i)]
  BY <1>1, <1>2 DEF Valuation
<1> HIDE DEF clk, level
<1>8. \A i \in Dom : sig'[clk(i)] = LevelAfter(IF Passed(i)' THEN tc ELSE tc - 1, Domains[i].hpt)
  BY <1>3, <1>4, <1>5, <1>6, <1>7
<1> QED
  BY <1>1, <1>2, <1>8 DEF ClocksHold, MidTick, clk

\* The other steps.
LEMMA ClocksHoldElsewhere ==
  ASSUME TypeOK, Timing, Timing', Entries, ClocksHold,
         \/ RunInitial \/ Seed \/ StartTick \/ AsyncReset \/ RunDomain \/ SkipDomain
         \/ SettleComponent \/ NextPart \/ Record \/ EndRun \/ Ended \/ UNCHANGED vars
  PROVE  ClocksHold'
<1> USE DEF Goto, MidTick
<1>1. design' = design
  BY DEF RunInitial, Seed, StartTick, AsyncReset, RunDomain, SkipDomain, SettleComponent,
         NextPart, Record, EndRun, Ended, vars
<1>2. /\ Dom' = Dom /\ Domains' = Domains /\ OwnClocks(design)'
      /\ \A i \in Dom : sig[Domains[i].clk] = LevelAfter(IF Passed(i) THEN tc ELSE tc - 1, Domains[i].hpt)
      /\ OwnClocks(design)
      /\ UNCHANGED <<snap, tc>> => ClocksShown' = ClocksShown
  BY <1>1, ShownKept DEF Dom, Domains, ClocksHold
<1>3. CASE StartTick
  <2>1. pc = "tick" /\ pc' = "toggle" /\ k' = 1 /\ tc' = tc + 1 /\ sig' = sig /\ snap' = sig
    BY <1>3 DEF StartTick
  <2>2. tc \in Nat /\ tc' - 1 = tc
    BY <2>1, DesignFacts DEF TypeOK
  <2>3. \A i \in Dom : ~Passed(i)' /\ Passed(i)
    BY <1>2, <2>1 DEF Passed, Dom
  <2> QED
    BY <1>2, <2>1, <2>2, <2>3 DEF ClocksHold, ClocksShown
<1>4. CASE RunInitial \/ Seed \/ AsyncReset \/ RunDomain \/ SettleComponent
  <2>1. /\ pc # "toggle" /\ pc' # "toggle" /\ UNCHANGED <<tc, snap>>
        /\ pc' \in {"async", "seq", "settle", "record"} => pc \in {"async", "seq", "settle"}
    BY <1>4 DEF RunInitial, Seed, AsyncReset, RunDomain, SettleComponent
  <2>2. \/ sig' = sig
        \/ sig' = Exec(design.initial, sig).sig
        \/ \E j \in Dom : sig' = Exec(Domains[j].block, sig).sig \/ sig' = ApplyReset(Domains[j], InitVal, sig)
        \/ \E c \in Comp : sig' = Exec(Comps[c].block, sig).sig
    <3>1. CASE RunInitial
      BY <3>1 DEF RunInitial
    <3>2. CASE Seed \/ SettleComponent
      <4>1. k \in Comp
        BY <3>2 DEF Seed, SettleComponent, TypeOK, Comp
      <4> QED
        BY <3>2, <4>1 DEF Seed, SettleComponent
    <3>3. CASE AsyncReset
      BY <3>3 DEF AsyncReset
    <3>4. CASE RunDomain
      <4>1. k \in Dom
        BY <3>4 DEF RunDomain, TypeOK
      <4> QED
        BY <3>4, <4>1 DEF RunDomain
    <3> QED
      BY <1>4, <3>1, <3>2, <3>3, <3>4
  <2>3. \A i \in Dom : sig'[Domains[i].clk] = sig[Domains[i].clk]
    BY <1>2, <2>2, ClocksUntouched
  <2>4. \A i \in Dom : Passed(i)' /\ Passed(i)
    BY <1>2, <2>1 DEF Passed
  <2> QED
    BY <1>2, <2>1, <2>3, <2>4 DEF ClocksHold
<1>5. CASE SkipDomain \/ (NextPart /\ pc # "toggle") \/ Record \/ EndRun
  <2>1. /\ pc # "toggle" /\ pc' # "toggle" /\ UNCHANGED <<tc, snap, sig>>
        /\ pc' \in {"async", "seq", "settle", "record"} => pc \in {"async", "seq", "settle"}
    BY <1>5 DEF SkipDomain, NextPart, Record, AfterRecord, EndRun
  <2>2. \A i \in Dom : Passed(i)' /\ Passed(i)
    BY <1>2, <2>1 DEF Passed
  <2> QED
    BY <1>2, <2>1, <2>2 DEF ClocksHold
<1>6. CASE NextPart /\ pc = "toggle"
  <2>1. pc' = "async" /\ k > Len(Domains) /\ UNCHANGED <<tc, snap, sig>>
    BY <1>6 DEF NextPart
  <2>2. \A i \in Dom : Passed(i)' /\ Passed(i)
    BY <1>2, <2>1, DesignFacts DEF Passed, Dom, TypeOK
  <2> QED
    BY <1>2, <1>6, <2>1, <2>2 DEF ClocksHold
<1>7. CASE Ended \/ UNCHANGED vars
  BY <1>2, <1>7 DEF Ended, vars, ClocksHold, Passed
<1> QED
  BY <1>3, <1>4, <1>5, <1>6, <1>7

\* Every step of the loop.
LEMMA ClocksHoldStep == LoopInv /\ LoopInv' /\ ClocksHold /\ [Next]_vars => ClocksHold'
BY ClocksHoldToggle, ClocksHoldElsewhere DEF LoopInv, Next

\* If clocks showed their levels nothing is settled in excess.
LEMMA NoSurplus == Agreement /\ ClocksHold => SurplusAgrees
BY DEF Agreement, Chosen, ClocksHold, MidTick, SurplusAgrees

\* In the runs of a design whose clocks are inputs the two walks agree: at every
\* step, in what they settle and in the traces.
THEOREM InputClocksAgree == PairSpec /\ OwnClocks(design) => [](SameWalk /\ SameSchedule /\ SameTrace)
<1>1. PairInit /\ OwnClocks(design) => ClocksHold
  BY ClocksHoldInit DEF PairInit
<1>2. LoopInv /\ LoopInv' /\ ClocksHold /\ [PairNext]_pairVars => ClocksHold'
  BY LoopSteps, ClocksHoldStep
<1> QED
  BY <1>1, <1>2, LoopInvInit, LoopInvStep, EngineTypeCorrect, AgreementInit, AgreementStep, NoSurplus,
     AgreementShows, PTL DEF PairSpec

-----------------------------------------------------------------------------
\* Quiet designs, whatever levels their clocks start at.

\* What is known of the loop when silent ticks are quiet.
QuietInv == Selective /\ AllFresh /\ Silent /\ Quiet(design)

\* A component that a clock brings the loop to, although the clock's signal has
\* not changed, reads what it read when the tick began and agreed with.
LEMMA SurplusFresh ==
  ASSUME LoopInv, Agreement, QuietInv
  PROVE  SurplusAgrees
<1> SUFFICES ASSUME ~HasMemories, pc = "settle", k \in Reached \ todo
             PROVE  Fresh(k, sig)
  BY DEF SurplusAgrees, Fresh
<1>1. k \in Comp /\ fired /\ design \in Designs /\ sig \in Valuation /\ snap \in Valuation
  BY DEF Reached, Comp, LoopInv, TypeOK
<1>2. due # {}
  BY <1>1 DEF Agreement, Abreast
<1>3. Fresh(k, snap)
  BY <1>1 DEF QuietInv, AllFresh, MidTick
<1>4. \A s \in Comps[k].signals :
        sig[s] # snap[s] => \E b \in Comp : b < k /\ s \in Comps[b].writes
  BY <1>1, <1>2 DEF Agreement, Chosen
<1>5. \A b \in Comp : b < k => Comps[b].writes \cap Comps[k].signals = {}
  <2>1. \A b \in Comp \ {k} : Comps[b].writes \cap Comps[k].signals = {}
    BY <1>1, ComponentFacts
  <2>2. \A b \in Comp : b < k => b # k
    BY <1>1 DEF Comp
  <2> QED
    BY <2>1, <2>2
<1>6. \A s \in Signal \ Movable(design) : sig[s] = snap[s]
  BY DEF QuietInv, Selective, MidTick
<1>7. Alike(k, snap, sig)
  BY <1>4, <1>5, <1>6 DEF Alike
<1> QED
  BY <1>1, <1>3, <1>7, AgreesAlike

\* Every step of the loop.
LEMMA QuietInvStep == LoopInv /\ QuietInv /\ [Next]_vars => QuietInv'
<1> SUFFICES ASSUME LoopInv, QuietInv, [Next]_vars PROVE QuietInv'
  OBVIOUS
<1>1. QuietTicks
  BY QuietDesign DEF LoopInv, QuietInv
<1>2. design' = design
  BY DEF Next, RunInitial, Seed, StartTick, ToggleClock, AsyncReset, RunDomain, SkipDomain,
         SettleComponent, NextPart, Record, EndRun, Ended, vars
<1> QED
  BY <1>1, <1>2, SelectiveStep, AllFreshStep, SilentStep DEF LoopInv, QuietInv

\* In the runs of a quiet design the two walks agree at every step, in what they
\* settle in ticks that began with clocks at their levels, and in the traces.
THEOREM QuietDesignsAgree == PairSpec /\ Quiet(design) => [](SameWalk /\ SameSchedule /\ SameTrace)
<1>1. PairInit /\ Quiet(design) => QuietInv
  BY SelectiveInit, AllFreshInit, SilentInit DEF PairInit, QuietInv
<1>2. LoopInv /\ QuietInv /\ [PairNext]_pairVars => QuietInv'
  BY LoopSteps, QuietInvStep
<1> QED
  BY <1>1, <1>2, LoopInvInit, LoopInvStep, EngineTypeCorrect, AgreementInit, AgreementStep, SurplusFresh,
     AgreementShows, PTL DEF PairSpec

-----------------------------------------------------------------------------
\* The memory ports of the engine.

\* What one step of a loop brings about and the others keep holds after it.
LEMMA ThroughReaches ==
  ASSUME NEW A, NEW a \in A, NEW n \in Nat, NEW steps \in [1 .. n -> [A -> A]], NEW B,
         NEW j \in 1 .. n, \A b \in A : steps[j][b] \in B,
         \A i \in 1 .. n \ {j} : \A b \in A : b \in B => steps[i][b] \in B
  PROVE  Through(steps, a) \in B
<1> DEFINE at(m) == Through(Upto(steps, m), a)
           Bad == { m \in 0 .. n : m >= j /\ at(m) \notin B }
<1>1. /\ \A m \in 0 .. n : at(m) \in A
      /\ \A m \in 1 .. n : at(m) = steps[m][at(m - 1)]
      /\ at(n) = Through(steps, a)
  BY ThroughUpto
<1> HIDE DEF at
<1>2. ASSUME Bad # {} PROVE FALSE
  <2>1. PICK m \in Bad : \A l \in Bad : m <= l
    <3>1. Bad \in SUBSET Nat
      OBVIOUS
    <3> QED
      BY <1>2, <3>1, LeastNatural
  <2>2. m \in 1 .. n /\ m - 1 \in 0 .. n
    OBVIOUS
  <2>3. m # j
    BY <1>1, <2>2
  <2>4. m - 1 >= j /\ m - 1 \notin Bad
    BY <2>1, <2>2, <2>3
  <2>5. at(m - 1) \in B
    BY <2>2, <2>4
  <2> QED
    BY <1>1, <2>2, <2>3, <2>5
<1>3. n \notin Bad
  BY <1>2
<1> QED
  BY <1>1, <1>3

\* What the write ports make of the words w, of which v is left: the last port
\* that acts on a word determines it, and a word on which none acts is as before.
LastWins(mems, w, S, names, v) ==
  \A m \in 1 .. Len(mems) : \A a \in 0 .. mems[m].depth - 1 :
    v[m][a] # w[m][a] =>
      \E i \in 1 .. Len(mems[m].writes) :
        /\ Writes(mems[m], mems[m].writes[i], S, names) /\ S[mems[m].writes[i].addr] = a
        /\ v[m][a] = mems[m].mask[S[mems[m].writes[i].data]]
        /\ \A j \in 1 .. Len(mems[m].writes) :
             Writes(mems[m], mems[m].writes[j], S, names) /\ S[mems[m].writes[j].addr] = a => j <= i

\* The write ports act that way.
LEMMA LastWrite ==
  ASSUME NEW mems, MemoriesOK(mems), NEW w, WordsOK(mems, w), NEW S \in Valuation, NEW names
  PROVE  LastWins(mems, w, S, names, MemWrites(mems, w, S, names))
<1> DEFINE v == MemWrites(mems, w, S, names)
<1> SUFFICES ASSUME NEW m \in 1 .. Len(mems), NEW a \in 0 .. mems[m].depth - 1,
                    v[m][a] # w[m][a]
             PROVE  \E i \in 1 .. Len(mems[m].writes) :
                      /\ Writes(mems[m], mems[m].writes[i], S, names) /\ S[mems[m].writes[i].addr] = a
                      /\ v[m][a] = mems[m].mask[S[mems[m].writes[i].data]]
                      /\ \A j \in 1 .. Len(mems[m].writes) :
                           Writes(mems[m], mems[m].writes[j], S, names) /\ S[mems[m].writes[j].addr] = a
                           => j <= i
  <2> HIDE DEF v
  <2>1. v = MemWrites(mems, w, S, names)
    BY DEF v
  <2> QED
    BY <2>1 DEF LastWins
<1> DEFINE mem == mems[m]
           W == WordsOf(mem)
           n == Len(mem.writes)
           p(i) == mem.writes[i]
           acts(i) == Writes(mem, p(i), S, names)
           hit(i) == acts(i) /\ S[p(i).addr] = a
           Write(q) == [u \in W |-> IF Writes(mem, q, S, names)
                                    THEN [u EXCEPT ![S[q.addr]] = mem.mask[S[q.data]]] ELSE u]
           steps == [i \in 1 .. n |-> Write(p(i))]
           at(i) == Through(Upto(steps, i), w[m])
<1>1. MemoryOK(mem) /\ w[m] \in W /\ n \in Nat
  BY DEF MemoriesOK, WordsOK, MemoryOK
<1>2. ASSUME NEW i \in 1 .. n, NEW x \in W
      PROVE  /\ steps[i][x] \in W
             /\ steps[i][x][a] = IF hit(i) THEN mem.mask[S[p(i).data]] ELSE x[a]
  <2>1. p(i).addr \in Signal /\ p(i).data \in Signal /\ mem.mask \in [Value -> Value]
    BY <1>1 DEF MemoryOK
  <2>2. mem.mask[S[p(i).data]] \in Value
    BY <2>1 DEF Valuation
  <2>3. steps[i][x] = IF acts(i) THEN [x EXCEPT ![S[p(i).addr]] = mem.mask[S[p(i).data]]] ELSE x
    OBVIOUS
  <2>4. x \in [0 .. mem.depth - 1 -> Value]
    BY DEF WordsOf
  <2> HIDE DEF acts, steps, p, mem
  <2>5. steps[i][x] \in [0 .. mem.depth - 1 -> Value]
    BY <2>2, <2>3, <2>4
  <2>6. a \in 0 .. mem.depth - 1
    BY DEF mem
  <2>7. steps[i][x][a] = IF hit(i) THEN mem.mask[S[p(i).data]] ELSE x[a]
    BY <2>3, <2>4, <2>6
  <2> QED
    BY <2>5, <2>7 DEF WordsOf
<1>3. steps \in [1 .. n -> [W -> W]]
  <2>1. \A i \in 1 .. n : Write(p(i)) \in [W -> W]
    BY <1>2
  <2> QED
    BY <2>1
<1>4. v[m] = Through(steps, w[m])
  BY DEF MemWrites
<1>5. /\ at(0) = w[m] /\ \A i \in 0 .. n : at(i) \in W
      /\ \A i \in 1 .. n : at(i) = steps[i][at(i - 1)]
      /\ at(n) = Through(steps, w[m])
  <2> HIDE DEF steps, W, n
  <2>1. w[m] \in W /\ n \in Nat
    BY <1>1
  <2> DEFINE b == w[m]
  <2> HIDE DEF b
  <2>2. b \in W
    BY <2>1 DEF b
  <2>3. /\ Through(Upto(steps, 0), b) = b
        /\ \A i \in 0 .. n : Through(Upto(steps, i), b) \in W
        /\ \A i \in 1 .. n : Through(Upto(steps, i), b) = steps[i][Through(Upto(steps, i - 1), b)]
        /\ Upto(steps, n) = steps
    BY <1>3, <2>1, <2>2, ThroughUpto
  <2> QED
    BY <2>3 DEF b
<1> HIDE DEF steps, W, n, hit, v
<1> HIDE DEF at
<1>6. \A i \in 1 .. n : at(i)[a] = IF hit(i) THEN mem.mask[S[p(i).data]] ELSE at(i - 1)[a]
  <2>1. \A i \in 1 .. n : i - 1 \in 0 .. n
    BY <1>1
  <2> QED
    BY <1>2, <1>5, <2>1
\* The word is the last hit's from that hit on.
<1> DEFINE Hit == { i \in 1 .. n : hit(i) }
<1>7. ASSUME NEW i \in 0 .. n, NEW x, at(i)[a] = x, \A j \in 1 .. n : j > i => ~hit(j)
      PROVE  at(n)[a] = x
  <2> DEFINE Bad == { j \in 0 .. n : j >= i /\ at(j)[a] # x }
  <2>1. ASSUME Bad # {} PROVE FALSE
    <3>1. PICK l \in Bad : \A j \in Bad : l <= j
      <4>1. Bad \in SUBSET Nat
        BY <1>1
      <4> QED
        BY <2>1, <4>1, LeastNatural
    <3>2. l # i
      BY <1>7
    <3>3. l \in 1 .. n /\ l > i /\ l - 1 \in 0 .. n /\ l - 1 >= i
      BY <1>1, <3>2
    <3>4. l - 1 \notin Bad
      BY <1>1, <3>1, <3>3
    <3>5. at(l - 1)[a] = x
      BY <3>3, <3>4
    <3> QED
      BY <1>6, <1>7, <3>3, <3>5
  <2> QED
    BY <1>1, <2>1
<1>8. at(n)[a] # w[m][a]
  BY <1>4, <1>5
<1>9. Hit # {}
  <2>1. ASSUME Hit = {} PROVE FALSE
    <3>1. \A j \in 1 .. n : j > 0 => ~hit(j)
      BY <2>1
    <3> QED
      BY <1>1, <1>5, <1>7, <1>8, <3>1
  <2> QED
    BY <2>1
<1>10. PICK i \in Hit : \A j \in Hit : j <= i
  <2>1. Hit \in SUBSET (0 .. n)
    BY <1>1
  <2> QED
    BY <1>1, <1>9, <2>1, GreatestNatural
<1>11. i \in 1 .. n /\ hit(i) /\ \A j \in 1 .. n : hit(j) => j <= i
  BY <1>10
<1>12. at(n)[a] = mem.mask[S[p(i).data]]
  <2>1. at(i)[a] = mem.mask[S[p(i).data]]
    BY <1>6, <1>11
  <2>2. \A j \in 1 .. n : j > i => ~hit(j)
    BY <1>1, <1>11
  <2> QED
    BY <1>1, <1>7, <1>11, <2>1, <2>2
<1> QED
  BY <1>4, <1>5, <1>11, <1>12 DEF hit, n

\* WritesOnEdge of EnginePair: a word of a memory changes only in a tick that
\* $finish has not cut short, under an enabled write port of a domain that fired
\* in it, to the data of the last such port.
THEOREM WordsFollowPorts == PairSpec => WritesOnEdge
<1> DEFINE Followed ==
      \A m \in 1 .. Len(words) : \A a \in DOMAIN words[m] :
        words'[m][a] # words[m][a] =>
          /\ ~eFinished
          /\ \E i \in Hits(m, a) :
               /\ \A j \in Hits(m, a) : j <= i
               /\ words'[m][a] = E!Mems[m].mask[eSig[E!Mems[m].writes[i].data]]
<1>1. ASSUME LoopInv, EngineTypeOK, [PairNext]_pairVars PROVE Followed
  <2>1. CASE words' = words
    BY <2>1
  <2>2. CASE words' # words
    <3>1. E!MemoryPorts
      BY <1>1, <2>2 DEF PairNext, E!Next, E!RunInitial, E!Seed, E!SeedMemory, E!StartTick, E!ToggleClock,
             E!AsyncReset, E!RunDomain, E!SkipDomain, E!SettleComponent, E!NextPart, E!Record,
             E!EndRun, E!Ended, E!vars, pairVars, engineVars
    <3> DEFINE names == { Domains[i].name : i \in eDue }
    <3>2. ePc = "seq" /\ words' = MemWrites(design.mems, words, eSig, names)
      BY <3>1, SameNames, SamePorts DEF E!MemoryPorts
    <3>3. ~eFinished
      BY <1>1, <3>2 DEF EngineTypeOK
    <3>4. /\ MemoriesOK(design.mems) /\ WordsOK(design.mems, words) /\ eSig \in Valuation
          /\ E!Mems = design.mems
      BY <1>1, MemoryFacts, SameNames DEF EngineTypeOK, WordsFit, LoopInv, TypeOK
    <3> HIDE DEF names
    <3>5. Len(words) = Len(design.mems)
      <4>1. Len(design.mems) \in Nat
        BY <3>4 DEF MemoriesOK
      <4>2. words \in [1 .. Len(design.mems) -> { words[m] : m \in 1 .. Len(design.mems) }]
        BY <1>1 DEF EngineTypeOK, WordsFit
      <4> QED
        BY <4>1, <4>2, LengthOf
    <3> SUFFICES ASSUME NEW m \in 1 .. Len(design.mems), NEW a \in DOMAIN words[m],
                        words'[m][a] # words[m][a]
                 PROVE  \E i \in Hits(m, a) :
                          /\ \A j \in Hits(m, a) : j <= i
                          /\ words'[m][a] = E!Mems[m].mask[eSig[E!Mems[m].writes[i].data]]
      BY <3>3, <3>5
    <3>6. a \in 0 .. design.mems[m].depth - 1
      BY <3>4 DEF WordsOK, WordsOf
    <3>7. \A i \in 1 .. Len(design.mems[m].writes) :
            i \in Hits(m, a) <=> /\ Writes(design.mems[m], design.mems[m].writes[i], eSig, names)
                                 /\ eSig[design.mems[m].writes[i].addr] = a
      <4>1. MemoryOK(design.mems[m])
        BY <3>4 DEF MemoriesOK
      <4>2. 0 <= a /\ a < design.mems[m].depth
        BY <3>6, <4>1 DEF MemoryOK
      <4> QED
        BY <3>4, <4>2 DEF Hits, Writes, InRange, names
    <3>8. Hits(m, a) \subseteq 1 .. Len(design.mems[m].writes)
      BY <3>4 DEF Hits
    <3>9. PICK i \in 1 .. Len(design.mems[m].writes) :
            /\ Writes(design.mems[m], design.mems[m].writes[i], eSig, names)
            /\ eSig[design.mems[m].writes[i].addr] = a
            /\ words'[m][a] = design.mems[m].mask[eSig[design.mems[m].writes[i].data]]
            /\ \A j \in 1 .. Len(design.mems[m].writes) :
                 /\ Writes(design.mems[m], design.mems[m].writes[j], eSig, names)
                 /\ eSig[design.mems[m].writes[j].addr] = a
                 => j <= i
      <4> DEFINE mems == design.mems
                 w == words
                 S == eSig
      <4>1. MemoriesOK(mems) /\ WordsOK(mems, w) /\ S \in Valuation
        BY <3>4
      <4> HIDE DEF mems, w, S
      <4>2. LastWins(mems, w, S, names, MemWrites(mems, w, S, names))
        BY <4>1, LastWrite
      <4>3. LastWins(design.mems, words, eSig, names, words')
        BY <3>2, <4>2 DEF mems, w, S
      <4> QED
        BY <3>6, <4>3 DEF LastWins
    <3> QED
      BY <3>4, <3>7, <3>8, <3>9
  <2> QED
    BY <2>1, <2>2
<1> QED
  BY <1>1, LoopInvInit, LoopInvStep, EngineTypeCorrect, PTL DEF PairSpec, WritesOnEdge

\* The port shows the word its address selects.
PortShown(w, m, p, T) == T[p.addr] \in DOMAIN w[m] => T[p.data] = w[m][T[p.addr]]

\* No other read port drives the port's address or its data.
ReadsAlone(mems, m, i) ==
  /\ mems[m].reads[i].addr # mems[m].reads[i].data
  /\ \A l \in 1 .. Len(mems) : \A j \in 1 .. Len(mems[l].reads) :
       <<l, j>> # <<m, i>> =>
         mems[l].reads[j].data \notin {mems[m].reads[i].addr, mems[m].reads[i].data}

\* After the read ports, a combinational one that is alone shows its word.
LEMMA PortShows ==
  ASSUME NEW mems, MemoriesOK(mems), NEW w, WordsOK(mems, w), NEW S \in Valuation, NEW names,
         NEW m \in 1 .. Len(mems), NEW i \in 1 .. Len(mems[m].reads),
         ~mems[m].reads[i].sync, ~mems[m].reads[i].gated, ReadsAlone(mems, m, i)
  PROVE  PortShown(w, m, mems[m].reads[i], MemReads(mems, w, S, names))
<1> DEFINE p == mems[m].reads[i]
           B == { T \in Valuation : PortShown(w, m, p, T) }
           read(l, j) == PortRead(mems, w, names, l, mems[l].reads[j])
           ports(l) == [j \in 1 .. Len(mems[l].reads) |-> read(l, j)]
           steps == [l \in 1 .. Len(mems) |-> [T \in Valuation |-> Through(ports(l), T)]]
<1>1. /\ MemoryOK(mems[m]) /\ p.addr \in Signal /\ p.data \in Signal /\ p.addr # p.data
      /\ mems[m].depth \in Nat /\ w[m] \in WordsOf(mems[m])
      /\ Len(mems) \in Nat /\ \A l \in 1 .. Len(mems) : Len(mems[l].reads) \in Nat
  BY DEF MemoriesOK, MemoryOK, WordsOK, ReadsAlone
\* A port leaves the others alone.
<1>2. ASSUME NEW l \in 1 .. Len(mems), NEW j \in 1 .. Len(mems[l].reads), NEW T \in Valuation
      PROVE  /\ read(l, j)[T] \in Valuation
             /\ <<l, j>> # <<m, i>> /\ T \in B => read(l, j)[T] \in B
  <2> DEFINE U == read(l, j)[T]
             q == mems[l].reads[j]
  <2>1. Setting(q.data, T, U)
    BY PortReadFacts
  <2>2. <<l, j>> # <<m, i>> => q.data \notin {p.addr, p.data}
    BY DEF ReadsAlone
  <2> HIDE DEF U, q, p
  <2>3. U \in Valuation
    BY <2>1 DEF Setting
  <2>4. ASSUME <<l, j>> # <<m, i>>, T \in B PROVE U \in B
    <3>1. U[p.addr] = T[p.addr] /\ U[p.data] = T[p.data]
      BY <1>1, <2>1, <2>2, <2>4 DEF Setting
    <3> QED
      BY <2>3, <2>4, <3>1 DEF PortShown
  <2> QED
    BY <2>3, <2>4 DEF U
\* The port itself fetches its word.
<1>3. ASSUME NEW T \in Valuation PROVE read(m, i)[T] \in B
  <2> DEFINE U == read(m, i)[T]
  <2>1. Setting(p.data, T, U)
    BY PortReadFacts
  <2>2. T[p.addr] \in Int
    BY <1>1, ValueAssumption DEF Valuation
  <2>3. ASSUME T[p.addr] \in DOMAIN w[m] PROVE U[p.data] = w[m][T[p.addr]]
    <3>1. 0 <= T[p.addr] /\ T[p.addr] < mems[m].depth
      BY <1>1, <2>2, <2>3 DEF WordsOf
    <3>2. ReadsNow(mems[m], p, T, names)
      BY <3>1 DEF ReadsNow, InRange
    <3>3. ReadWord(mems[m], w[m][T[p.addr]], p, T) = w[m][T[p.addr]]
      BY DEF ReadWord
    <3>4. U = [T EXCEPT ![p.data] = w[m][T[p.addr]]]
      BY <3>2, <3>3 DEF PortRead
    <3> HIDE DEF U, p
    <3> QED
      BY <1>1, <3>4 DEF Valuation
  <2> HIDE DEF U, p
  <2>4. U[p.addr] = T[p.addr]
    BY <1>1, <2>1 DEF Setting
  <2>5. PortShown(w, m, p, U)
    BY <2>3, <2>4 DEF PortShown
  <2>6. U \in B
    BY <2>1, <2>5 DEF Setting
  <2> QED
    BY <2>6 DEF U
<1> HIDE DEF B
<1>4. B \in SUBSET Valuation
  BY DEF B
<1>5. ASSUME NEW l \in 1 .. Len(mems), NEW T \in Valuation
      PROVE  /\ Through(ports(l), T) \in Valuation
             /\ l # m /\ T \in B => Through(ports(l), T) \in B
             /\ l = m => Through(ports(l), T) \in B
  <2> DEFINE n == Len(mems[l].reads)
             list == ports(l)
  <2>1. n \in Nat
    BY <1>1
  <2>2. \A j \in 1 .. n : read(l, j) \in [Valuation -> Valuation]
    BY <1>2 DEF PortRead
  <2>3. list \in [1 .. n -> [Valuation -> Valuation]] /\ \A j \in 1 .. n : list[j] = read(l, j)
    BY <2>2
  <2>4. m = l => i \in 1 .. n
    OBVIOUS
  <2>5. \A j \in 1 .. n : \A b \in Valuation :
          /\ list[j][b] \in Valuation
          /\ b \in B /\ <<l, j>> # <<m, i>> => list[j][b] \in B
    BY <1>2, <2>3
  <2>6. l = m => \A b \in Valuation : list[i][b] \in B
    BY <1>3, <2>3, <2>4
  <2> HIDE DEF n, list, read
  <2>7. Len(list) = n
    BY <2>1, <2>3, LengthOf
  <2>8. Through(list, T) \in Valuation
    BY <2>1, <2>3, <2>5, <2>7, ThroughKeeps
  <2>9. ASSUME l # m, T \in B PROVE Through(list, T) \in B
    <3>1. \A j \in 1 .. n : list[j] \in [Valuation -> Valuation] /\ \A b \in B : list[j][b] \in B
      BY <1>4, <2>3, <2>5, <2>9
    <3> QED
      BY <1>4, <2>1, <2>7, <2>9, <3>1, ThroughKeeps
  <2>10. ASSUME l = m PROVE Through(list, T) \in B
    <3>1. i \in 1 .. n /\ \A b \in Valuation : list[i][b] \in B
      BY <2>4, <2>6, <2>10
    <3>2. \A j \in 1 .. n \ {i} : \A b \in Valuation : b \in B => list[j][b] \in B
      BY <2>5, <2>10
    <3> QED
      BY <2>1, <2>3, <3>1, <3>2, ThroughReaches
  <2> QED
    BY <2>8, <2>9, <2>10 DEF list
<1> DEFINE n == Len(mems)
<1>6. steps \in [1 .. n -> [Valuation -> Valuation]]
  BY <1>5
<1>7. \A b \in Valuation : steps[m][b] \in B
  BY <1>5
<1>8. \A l \in 1 .. n \ {m} : \A b \in Valuation : b \in B => steps[l][b] \in B
  BY <1>5
<1>9. MemReads(mems, w, S, names) = Through(steps, S)
  BY DEF MemReads, PortRead
<1> HIDE DEF steps
<1>10. Through(steps, S) \in B
  BY <1>1, <1>6, <1>7, <1>8, ThroughReaches
<1> QED
  BY <1>9, <1>10 DEF B

\* Every combinational read port that drives its data alone shows its word.
AllShown ==
  \A m \in 1 .. Len(E!Mems) : \A i \in 1 .. Len(E!Mems[m].reads) :
    LET p == E!Mems[m].reads[i]
    IN  ~p.sync /\ ~p.gated /\ DrivesAlone(m, i) => PortShown(words, m, p, eSig)

\* From the memory ports of a tick to its end they do: what is settled meanwhile
\* writes neither their addresses nor their data.
PortsFresh == ePc \in {"settle", "record"} /\ ~eFinished => AllShown

\* The read ports bring it about.
LEMMA PortsFreshRead ==
  ASSUME TypeOK, EngineTypeOK, E!MemoryPorts
  PROVE  AllShown'
<1> DEFINE names == { Domains[i].name : i \in eDue }
           mems == design.mems
           v == words'
           T == eSig'
<1>1. MemoriesOK(mems) /\ WordsOK(mems, words) /\ eSig \in Valuation /\ design \in Designs
  BY MemoryFacts DEF TypeOK, EngineTypeOK, WordsFit
<1>2. v = MemWrites(mems, words, eSig, names) /\ T = MemReads(mems, v, eSig, names)
  BY SameNames, SamePorts DEF E!MemoryPorts
<1>3. WordsOK(mems, v)
  BY <1>1, <1>2, MemWritesFacts
<1>4. E!Mems = mems /\ E!Mems' = mems /\ Comps' = Comps
  BY SameNames DEF E!MemoryPorts, E!Mems, Comps
<1> SUFFICES ASSUME NEW m \in 1 .. Len(mems), NEW i \in 1 .. Len(mems[m].reads),
                    ~mems[m].reads[i].sync, ~mems[m].reads[i].gated, DrivesAlone(m, i)'
             PROVE  PortShown(v, m, mems[m].reads[i], T)
  BY <1>4 DEF AllShown, PortShown
<1>5. ReadsAlone(mems, m, i)
  BY <1>4 DEF DrivesAlone, ReadsAlone
<1> DEFINE S == eSig
<1> HIDE DEF names, mems, v, T, S
<1>6. PortShown(v, m, mems[m].reads[i], MemReads(mems, v, S, names))
  BY <1>1, <1>3, <1>5, PortShows DEF S
<1> QED
  BY <1>2, <1>6 DEF S

\* Settling a component keeps it.
LEMMA PortsFreshSettle ==
  ASSUME TypeOK, EngineTypeOK, AllShown, E!SettleComponent, ~eFinished', ePc' # "raised"
  PROVE  AllShown'
<1> DEFINE r == Exec(Comps[eK].block, eSig)
<1>1. eK \in 1 .. Len(Comps) /\ UNCHANGED <<words, design>> /\ eSig' \in {eSig, r.sig}
  BY SameNames DEF E!SettleComponent, EngineTypeOK
<1>2. ComponentOK(Comps[eK]) /\ eSig \in Valuation
  BY <1>1, DesignFacts DEF TypeOK, EngineTypeOK
<1>3. \A s \in Signal \ Comps[eK].writes : eSig'[s] = eSig[s]
  BY <1>1, <1>2 DEF ComponentOK, WritesOnly
<1>4. E!Mems' = E!Mems /\ Comps' = Comps /\ E!Mems = design.mems
  BY <1>1, SameNames DEF E!Mems, Comps
<1> SUFFICES ASSUME NEW m \in 1 .. Len(E!Mems), NEW i \in 1 .. Len(E!Mems[m].reads),
                    ~E!Mems[m].reads[i].sync, ~E!Mems[m].reads[i].gated, DrivesAlone(m, i)'
             PROVE  PortShown(words, m, E!Mems[m].reads[i], eSig)'
  BY <1>4 DEF AllShown
<1> DEFINE p == E!Mems[m].reads[i]
<1>5. DrivesAlone(m, i)
  BY <1>4 DEF DrivesAlone
<1>6. p.addr \in Signal /\ p.data \in Signal
  BY <1>4, MemoryFacts DEF TypeOK, MemoriesOK, MemoryOK
<1>7. {p.addr, p.data} \cap Comps[eK].writes = {}
  BY <1>1, <1>5 DEF DrivesAlone
<1>8. eSig'[p.addr] = eSig[p.addr] /\ eSig'[p.data] = eSig[p.data]
  BY <1>3, <1>6, <1>7
<1>9. PortShown(words, m, p, eSig)
  BY <1>5 DEF AllShown
<1> QED
  BY <1>1, <1>4, <1>8, <1>9 DEF PortShown

\* Every step keeps PortsFresh.
LEMMA PortsFreshStep ==
  ASSUME TypeOK, EngineTypeOK, PortsFresh, [PairNext]_pairVars
  PROVE  PortsFresh'
<1> SUFFICES ASSUME ePc' \in {"settle", "record"}, ~eFinished' PROVE AllShown'
  BY DEF PortsFresh
<1>1. CASE E!MemoryPorts
  BY <1>1, PortsFreshRead
<1>2. CASE E!SettleComponent
  <2>1. AllShown
    BY <1>2 DEF E!SettleComponent, EngineTypeOK, PortsFresh
  <2> QED
    BY <1>2, <2>1, PortsFreshSettle
<1>3. CASE E!NextPart \/ UNCHANGED pairVars
  <2>1. UNCHANGED <<words, eSig, design, eFinished>>
    BY <1>3 DEF E!NextPart, pairVars, engineVars, vars
  <2>2. ePc \in {"settle", "record"}
    BY <1>3 DEF E!NextPart, E!Goto, pairVars, engineVars
  <2>3. AllShown
    BY <2>1, <2>2 DEF PortsFresh
  <2>4. E!Mems' = E!Mems /\ Comps' = Comps
    BY <2>1 DEF E!Mems, Comps
  <2>5. \A m, i : DrivesAlone(m, i)' <=> DrivesAlone(m, i)
    BY <2>4 DEF DrivesAlone
  <2>6. \A m, p : PortShown(words, m, p, eSig)' <=> PortShown(words, m, p, eSig)
    BY <2>1 DEF PortShown
  <2> QED
    BY <2>3, <2>4, <2>5, <2>6 DEF AllShown
<1>4. CASE E!RunInitial \/ E!Seed \/ E!SeedMemory \/ E!StartTick \/ E!ToggleClock \/ E!AsyncReset
           \/ E!RunDomain \/ E!SkipDomain \/ E!Record \/ E!EndRun \/ E!Ended
  BY <1>4 DEF E!RunInitial, E!Seed, E!SeedMemory, E!StartTick, E!ToggleClock, E!AsyncReset,
       E!RunDomain, E!SkipDomain, E!Record, E!EndRun, E!Ended, E!Goto, E!vars
<1> QED
  BY <1>1, <1>2, <1>3, <1>4 DEF PairNext, E!Next

\* CombReadFresh of EnginePair: in every tick that $finish does not cut short, a
\* combinational read port that drives its data alone shows the word its address
\* selects.
THEOREM CombReadsShowTheirWords == PairSpec => []CombReadFresh
<1>1. PairInit => PortsFresh
  BY DEF PairInit, E!Init, PortsFresh
<1>2. LoopInv => TypeOK
  BY DEF LoopInv
<1>3. PortsFresh => CombReadFresh
  BY DEF PortsFresh, AllShown, CombReadFresh, PortShown
<1>4. TypeOK /\ EngineTypeOK /\ PortsFresh /\ [PairNext]_pairVars => PortsFresh'
  BY PortsFreshStep
<1> QED
  BY <1>1, <1>2, <1>3, <1>4, LoopInvInit, LoopInvStep, EngineTypeCorrect, PTL DEF PairSpec
=============================================================================
