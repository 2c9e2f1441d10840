------------------------------ MODULE RunLoop ------------------------------
(***************************************************************************)
(* The generated run loop: CompiledModule.run and _run_generated_loop      *)
(* (compiler/compile.py) with the function CodeGen.build_run_loop          *)
(* (compiler/codegen.py) emits.  It simulates two-state designs without    *)
(* memories.                                                               *)
(*                                                                         *)
(* One tick is a fixed walk over the domains and the combinational         *)
(* components; pc says which part of the walk is under way and k the next  *)
(* domain or component it comes to:                                        *)
(*                                                                         *)
(*   init - seed - tick - toggle - async - seq - settle - record           *)
(*                  \______________________________________/               *)
(***************************************************************************)
EXTENDS Netlist, FiniteSets

VARIABLES
  design,    \* the design being run (constant during a run)
  pc,        \* the part of the walk under way, "done" or "raised"
  k,         \* the next domain or component of that part
  tc,        \* the tick count
  sig,       \* the signals, Python locals of the loop
  clock,     \* _c: the level of each domain's clock
  snap,      \* _p: the signals when the tick began
  moved,     \* _x: the signals noted as changed in this tick
  due,       \* _d: the domains whose sequential block is still to run
  fired,     \* _f: a domain fired in this tick
  finished,  \* _fin: $finish was raised in this tick
  out,       \* the last entry of the traces
  count      \* the number of entries of the traces

vars == <<design, pc, k, tc, sig, clock, snap, moved, due, fired, finished,
          out, count>>

-----------------------------------------------------------------------------

Domains == design.domains
Comps   == design.comps
InitVal == design.init
Ticks   == design.ticks
Dom     == 1 .. Len(Domains)

Clocks     == { Domains[i].clk : i \in Dom }
SeqWritten == UNION { Domains[i].written : i \in Dom }

\* Mutant: clocks are forgotten.
MovingRegisters(c) == c.signals \cap SeqWritten

\* The signals of a component that a tick can move before components settle.
Moving(c) == c.signals \cap (SeqWritten \cup Clocks)

Init ==
  /\ design \in Designs
  /\ sig \in design.starts
  /\ pc = "init" /\ k = 1 /\ tc = 0
  /\ clock = [i \in Dom |-> 0]
  /\ snap = sig /\ out = sig /\ count = 0
  /\ moved = {} /\ due = {} /\ fired = FALSE /\ finished = FALSE

Goto(p) == pc' = p /\ k' = 1

\* The initial blocks.  $finish in one of them ends the run with a one-point
\* trace; any other exception leaves run().
RunInitial ==
  /\ pc = "init"
  /\ LET r == Exec(design.initial, sig)
     IN  /\ sig' = r.sig
         /\ \/ r.exit = "ok" /\ Goto("seed") /\ UNCHANGED <<out, count>>
            \/ r.exit = "finish" /\ Goto("done") /\ out' = r.sig /\ count' = 1
            \/ r.exit = "error" /\ Goto("raised") /\ UNCHANGED <<out, count>>
  /\ UNCHANGED <<design, tc, clock, snap, moved, due, fired, finished>>

\* Before the first tick every component that touches a signal runs once.  The
\* seed is outside the loop's try: $finish propagates like any exception.
Seed ==
  /\ pc = "seed" /\ k <= Len(Comps)
  /\ IF Comps[k].signals = {}
     THEN k' = k + 1 /\ UNCHANGED <<pc, sig>>
     ELSE LET r == Exec(Comps[k].block, sig)
          IN  /\ sig' = r.sig
              /\ IF r.exit = "ok" THEN k' = k + 1 /\ UNCHANGED pc
                                  ELSE Goto("raised")
  /\ UNCHANGED <<design, tc, clock, snap, moved, due, fired, finished, out, count>>

StartTick ==
  /\ pc = "tick" /\ tc < Ticks
  /\ Goto("toggle")
  /\ tc' = tc + 1
  /\ snap' = sig
  /\ moved' = {} /\ due' = {} /\ fired' = FALSE
  /\ UNCHANGED <<design, sig, clock, finished, out, count>>

\* Mutants: the level grows instead of flipping; the half period is measured on
\* the tick count of the tick before.
RaisedLevel(level) == level + 1
HalfPeriodEndedBefore(d) == (tc - 1) % d.hpt = 0

NextLevel(level) == 1 - level

HalfPeriodEnds(d) == tc % d.hpt = 0

\* A clock is noted as moved whenever its domain toggles it.
ToggleClock ==
  LET d == Domains[k]
      level == NextLevel(clock[k])
  IN  /\ pc = "toggle" /\ k \in Dom
      /\ IF HalfPeriodEnds(d)
         THEN /\ clock' = [clock EXCEPT ![k] = level]
              /\ sig' = [sig EXCEPT ![d.clk] = level]
              /\ moved' = moved \cup {d.clk}
              /\ due' = IF EdgeFires(d.edge, level) THEN due \cup {k} ELSE due
         ELSE UNCHANGED <<clock, sig, moved, due>>
      /\ k' = k + 1
      /\ UNCHANGED <<design, pc, tc, snap, fired, finished, out, count>>

\* Mutants: only the last domain's changes are kept; a domain that restores a
\* signal takes back an earlier note.
NoteOnlyChanges(d) == moved' = d.written \cap Differing(sig', snap)
NoteNetChanges(d) ==
  moved' = (moved \ d.written) \cup (d.written \cap Differing(sig', snap))

\* note_changes: what the domain can have written and no longer holds the value
\* it had when the tick began.
NoteChanges(d) == moved' = moved \cup (d.written \cap Differing(sig', snap))

\* Mutant: the domain still fires.
LetFire(i) == due' = due

CancelFiring(i) == due' = due \ {i}

\* An active asynchronous reset also cancels its domain's firing.
AsyncReset ==
  LET d == Domains[k]
  IN  /\ pc = "async" /\ k \in Dom
      /\ IF d.style = "async" /\ ResetActive(d, sig)
         THEN /\ sig' = ApplyReset(d, InitVal, sig)
              /\ NoteChanges(d)
              /\ CancelFiring(k)
         ELSE UNCHANGED <<sig, moved, due>>
      /\ k' = k + 1
      /\ UNCHANGED <<design, pc, tc, clock, snap, fired, finished, out, count>>

\* A domain that fired runs its sequential block, or its synchronous reset.
\* Writes made before $finish stay; the tick goes straight to its trace.
RunDomain ==
  LET d == Domains[k]
      r == IF d.style = "sync" /\ ResetActive(d, sig)
           THEN [sig |-> ApplyReset(d, InitVal, sig), exit |-> "ok"]
           ELSE Exec(d.block, sig)
  IN  /\ pc = "seq" /\ k \in due
      /\ fired' = TRUE
      /\ sig' = r.sig
      /\ \/ r.exit = "ok" /\ k' = k + 1 /\ NoteChanges(d) /\ UNCHANGED <<pc, finished>>
         \/ r.exit = "finish" /\ Goto("record") /\ finished' = TRUE /\ UNCHANGED moved
         \/ r.exit = "error" /\ Goto("raised") /\ UNCHANGED <<finished, moved>>
      /\ UNCHANGED <<design, tc, clock, snap, due, out, count>>

SkipDomain ==
  /\ pc = "seq" /\ k \in Dom \ due
  /\ k' = k + 1
  /\ UNCHANGED <<design, pc, tc, sig, clock, snap, moved, due, fired, finished, out, count>>

\* When something fired, a component runs if one of its signals moved.
SettleComponent ==
  LET r == Exec(Comps[k].block, sig)
  IN  /\ pc = "settle" /\ k <= Len(Comps)
      /\ IF fired /\ Moving(Comps[k]) \cap moved # {}
         THEN /\ sig' = r.sig
              /\ \/ r.exit = "ok" /\ k' = k + 1 /\ UNCHANGED <<pc, finished>>
                 \/ r.exit = "finish" /\ Goto("record") /\ finished' = TRUE
                 \/ r.exit = "error" /\ Goto("raised") /\ UNCHANGED finished
         ELSE k' = k + 1 /\ UNCHANGED <<pc, sig, finished>>
      /\ UNCHANGED <<design, tc, clock, snap, moved, due, fired, out, count>>

\* The walk reached the end of a part.
NextPart ==
  /\ \/ pc = "seed"   /\ k > Len(Comps)   /\ Goto("tick")
     \/ pc = "toggle" /\ k > Len(Domains) /\ Goto("async")
     \/ pc = "async"  /\ k > Len(Domains) /\ Goto("seq")
     \/ pc = "seq"    /\ k > Len(Domains) /\ Goto("settle")
     \/ pc = "settle" /\ k > Len(Comps)   /\ Goto("record")
  /\ UNCHANGED <<design, tc, sig, clock, snap, moved, due, fired, finished, out, count>>

\* Mutants: every tick is traced; $finish does not leave the loop.
EveryTickTraced == TRUE
AlwaysNextTick == "tick"

Traced == fired

AfterRecord == IF finished THEN "done" ELSE "tick"

\* Only a tick in which a domain fired is traced.  $finish ends the run here.
Record ==
  /\ pc = "record"
  /\ IF Traced THEN out' = sig /\ count' = count + 1 ELSE UNCHANGED <<out, count>>
  /\ Goto(AfterRecord)
  /\ UNCHANGED <<design, tc, sig, clock, snap, moved, due, fired, finished>>

\* Mutant: the loop waits for one tick more than there are.
EndRunLate ==
  /\ pc = "tick" /\ tc > Ticks
  /\ Goto("done")
  /\ UNCHANGED <<design, tc, sig, clock, snap, moved, due, fired, finished, out, count>>

EndRun ==
  /\ pc = "tick" /\ tc = Ticks
  /\ Goto("done")
  /\ UNCHANGED <<design, tc, sig, clock, snap, moved, due, fired, finished, out, count>>

Ended == pc \in {"done", "raised"} /\ UNCHANGED vars

Next ==
  \/ RunInitial \/ Seed \/ StartTick
  \/ ToggleClock \/ AsyncReset \/ RunDomain \/ SkipDomain
  \/ SettleComponent \/ NextPart \/ Record \/ EndRun \/ Ended

Spec == Init /\ [][Next]_vars /\ WF_vars(Next)

-----------------------------------------------------------------------------
\* Properties.

MidTick == pc \in {"toggle", "async", "seq", "settle", "record"}

\* The part of a walk that k runs over, and its length.
PartLength == IF pc \in {"seed", "settle"} THEN Len(Comps) ELSE Len(Domains)

\* Every variable has its type, the position k stays within the walk, and only
\* domains of the design are due.
TypeOK ==
  /\ design \in Designs
  /\ pc \in {"init", "seed", "tick", "toggle", "async", "seq", "settle", "record",
            "done", "raised"}
  /\ k \in Nat \ {0}
  /\ pc \in {"seed", "toggle", "async", "seq", "settle"} => k <= PartLength + 1
  /\ tc \in 0 .. Ticks
  /\ sig \in Valuation /\ snap \in Valuation /\ out \in Valuation
  /\ clock \in [Dom -> {0, 1}]
  /\ moved \subseteq Signal /\ due \subseteq Dom
  /\ fired \in BOOLEAN /\ finished \in BOOLEAN
  /\ count \in Nat

\* The level a clock toggled every hpt ticks has after t ticks.
LevelAfter(t, hpt) == (t \div hpt) % 2

\* The toggling by tick count produces the waveform the periods ask for: every
\* clock the walk has passed in this tick has the level of the tick count, every
\* other one that of the tick before.
ClockWaveform ==
  \A i \in Dom :
    clock[i] = LevelAfter(IF pc = "toggle" /\ i >= k THEN tc - 1 ELSE tc, Domains[i].hpt)

\* Domain i has an edge of its polarity at tick t.
EdgeAt(i, t) ==
  /\ t % Domains[i].hpt = 0
  /\ Domains[i].edge = "both"
     \/ LevelAfter(t, Domains[i].hpt) = (IF Domains[i].edge = "pos" THEN 1 ELSE 0)

\* A sequential block never runs away from its edge, and an edge is missed only
\* under an asynchronous reset.
DueAtEdge ==
  pc \in {"async", "seq"} =>
    \A i \in Dom : /\ i \in due => EdgeAt(i, tc)
                   /\ EdgeAt(i, tc) /\ Domains[i].style # "async" => i \in due

\* The value of signal s is decided by domain i alone: it is no clock, and no
\* other domain and no component writes it.
OwnedBy(s, i) ==
  /\ s \in Domains[i].written \ Clocks
  /\ \A j \in Dom \ {i} : s \notin Domains[j].written
  /\ \A c \in 1 .. Len(Comps) : s \notin Comps[c].writes

\* An asynchronous reset that was active when the tick began (its line being no
\* clock, and nothing another domain's reset writes) holds its
\* domain: none of the tick's blocks moves a register away from its init value.
AsyncResetHolds ==
  \A i \in Dom :
    LET d == Domains[i]
    IN  /\ d.style = "async"
        /\ d.rst \notin Clocks
        /\ \A j \in Dom : Domains[j].style = "async" => d.rst \notin Domains[j].written
        /\ ResetActive(d, snap)
        /\ pc \in {"seq", "settle", "record"}
        => \A s \in d.written : OwnedBy(s, i) => sig[s] = InitVal[s]

\* A traced valuation is settled: running any component again would change
\* nothing.  It holds of the designs in which only ticks that fire move what
\* components read.
CombFresh ==
  pc = "record" /\ fired /\ ~finished =>
    \A c \in 1 .. Len(Comps) : Agrees(Comps[c].block, sig)

\* $finish ends the run with the tick that raised it: no later tick starts,
\* and what was written before it is the last entry of the traces.
FinishIsLast ==
  [][finished => tc' = tc /\ sig' = sig /\ (pc' = "done" => out' = sig)]_vars

\* The traces have an entry for every tick with an edge of some domain, and no
\* other; an asynchronous reset can only take entries away.
OneEntryPerEdge ==
  pc = "tick" =>
    LET edgeTicks == { t \in 1 .. tc : \E i \in Dom : EdgeAt(i, t) }
    IN  /\ count <= Cardinality(edgeTicks)
        /\ (\A i \in Dom : Domains[i].style # "async") => count = Cardinality(edgeTicks)

\* An assertion in a combinational block is checked: no traced valuation breaks
\* one ("Checks condition at simulation time", ir/stmt.py).
AssertionsChecked ==
  pc = "record" /\ fired /\ ~finished =>
    \A c \in 1 .. Len(Comps) : Exec(Comps[c].block, sig).exit # "error"

\* A run always comes to an end.
Terminates == <>(pc \in {"done", "raised"})
=============================================================================
