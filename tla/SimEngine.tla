----------------------------- MODULE SimEngine -----------------------------
(***************************************************************************)
(* The two-state tick engine that runs inside a CSP graph,                 *)
(* _sim_engine_compiled (compiler/compile.py), with the blocks             *)
(* CodeGen.compile_expr_block (compiler/codegen.py) compiles for it and    *)
(* the CompiledModule.run that starts it.  Its walk is the run loop's (see *)
(* RunLoop), with three differences:                                       *)
(*   - it keeps one set of changed signals, filled by comparing each block *)
(*     with what it found, not with the beginning of the tick;             *)
(*   - a compiled block stores its results when it has run to its end, so  *)
(*     a block that raises $finish loses all its writes;                   *)
(*   - it has memories, whose ports act between the sequential blocks and  *)
(*     the settling of components.                                         *)
(***************************************************************************)
EXTENDS Netlist, FiniteSets, Memory

VARIABLES
  design,    \* the design being run
  pc,        \* the part of the walk under way, "done" or "raised"
  k,         \* the next domain or component of that part
  tc,        \* s_tick_count
  sig,       \* s_S
  clock,     \* s_clock_arr
  changed,   \* s_changed
  due,       \* s_fired: the domains that fired
  todo,      \* the components the settling has still to run
  words,     \* s_mem_state
  finished,  \* s_finished
  out,       \* the last entry of the traces
  count      \* the number of entries of the traces

vars == <<design, pc, k, tc, sig, clock, changed, due, todo, words, finished,
          out, count>>

-----------------------------------------------------------------------------

Domains == design.domains
Comps   == design.comps
InitVal == design.init
Ticks   == design.ticks
Mems    == design.mems
Dom     == 1 .. Len(Domains)

\* affected_component_ids: the components touching a changed signal.
Affected(set) == { c \in 1 .. Len(Comps) : Comps[c].signals \cap set # {} }

Init ==
  /\ design \in Designs
  /\ sig \in design.starts
  /\ pc = "init" /\ k = 1 /\ tc = 0
  /\ clock = [i \in Dom |-> 0]
  /\ words = InitWords(Mems)
  /\ out = sig /\ count = 0
  /\ changed = {} /\ due = {} /\ todo = {} /\ finished = FALSE

Goto(p) == pc' = p /\ k' = 1

\* The initial blocks run on the same evaluator for every engine.
RunInitial ==
  /\ pc = "init"
  /\ LET r == Exec(design.initial, sig)
     IN  /\ sig' = r.sig
         /\ \/ r.exit = "ok" /\ Goto("seed") /\ todo' = Affected(Signal) /\ UNCHANGED <<out, count>>
            \/ r.exit = "finish" /\ Goto("done") /\ out' = r.sig /\ count' = 1 /\ UNCHANGED todo
            \/ r.exit = "error" /\ Goto("raised") /\ UNCHANGED <<todo, out, count>>
  /\ UNCHANGED <<design, tc, clock, changed, due, words, finished>>

\* The first tick begins by settling every component that touches a signal;
\* any exception there leaves the engine.
Seed ==
  LET r == Exec(Comps[k].block, sig)
  IN  /\ pc = "seed" /\ k <= Len(Comps)
      /\ IF k \in todo
         THEN \/ r.exit = "ok" /\ sig' = r.sig /\ k' = k + 1 /\ UNCHANGED pc
              \/ r.exit # "ok" /\ Goto("raised") /\ UNCHANGED sig
         ELSE k' = k + 1 /\ UNCHANGED <<pc, sig>>
      /\ UNCHANGED <<design, tc, clock, changed, due, todo, words, finished, out, count>>

\* Then the combinational read ports; what they bring is not settled again.
SeedMemory ==
  /\ pc = "seed" /\ k > Len(Comps)
  /\ Goto("tick")
  /\ sig' = MemReads(Mems, words, sig, {})
  /\ UNCHANGED <<design, tc, clock, changed, due, todo, words, finished, out, count>>

StartTick ==
  /\ pc = "tick" /\ tc < Ticks
  /\ Goto("toggle")
  /\ tc' = tc + 1
  /\ changed' = {} /\ due' = {}
  /\ UNCHANGED <<design, sig, clock, todo, words, finished, out, count>>

\* A clock signal that already has its new level has not changed.
ToggleClock ==
  LET d == Domains[k]
      level == 1 - clock[k]
  IN  /\ pc = "toggle" /\ k \in Dom
      /\ IF tc % d.hpt = 0
         THEN /\ clock' = [clock EXCEPT ![k] = level]
              /\ sig' = [sig EXCEPT ![d.clk] = level]
              /\ changed' = changed \cup Differing(sig, sig')
              /\ due' = IF EdgeFires(d.edge, level) THEN due \cup {k} ELSE due
         ELSE UNCHANGED <<clock, sig, changed, due>>
      /\ k' = k + 1
      /\ UNCHANGED <<design, pc, tc, todo, words, finished, out, count>>

AsyncReset ==
  LET d == Domains[k]
  IN  /\ pc = "async" /\ k \in Dom
      /\ IF d.style = "async" /\ ResetActive(d, sig)
         THEN /\ sig' = ApplyReset(d, InitVal, sig)
              /\ changed' = changed \cup Differing(sig, sig')
              /\ due' = due \ {k}
         ELSE UNCHANGED <<sig, changed, due>>
      /\ k' = k + 1
      /\ UNCHANGED <<design, pc, tc, clock, todo, words, finished, out, count>>

\* A block that does not run to its end leaves the signals as it found them.
RunDomain ==
  LET d == Domains[k]
      r == IF d.style = "sync" /\ ResetActive(d, sig)
           THEN [sig |-> ApplyReset(d, InitVal, sig), exit |-> "ok"]
           ELSE Exec(d.block, sig)
  IN  /\ pc = "seq" /\ k \in due
      /\ \/ /\ r.exit = "ok" /\ k' = k + 1
            /\ sig' = r.sig
            /\ changed' = changed \cup Differing(sig, sig')
            /\ UNCHANGED <<pc, finished>>
         \/ r.exit = "finish" /\ Goto("record") /\ finished' = TRUE /\ UNCHANGED <<sig, changed>>
         \/ r.exit = "error" /\ Goto("raised") /\ UNCHANGED <<finished, sig, changed>>
      /\ UNCHANGED <<design, tc, clock, due, todo, words, out, count>>

SkipDomain ==
  /\ pc = "seq" /\ k \in Dom \ due
  /\ k' = k + 1
  /\ UNCHANGED <<design, pc, tc, sig, clock, changed, due, todo, words, finished, out, count>>

\* After the blocks, the memory ports of the fired domains: all writes, then
\* the reads.  Then the components to settle are chosen, once.
MemoryPorts ==
  LET names == { Domains[i].name : i \in due }
      moved == Differing(sig, sig')
  IN  /\ pc = "seq" /\ k > Len(Domains)
      /\ words' = MemWrites(Mems, words, sig, names)
      /\ sig' = MemReads(Mems, words', sig, names)
      /\ changed' = changed \cup moved
      /\ todo' = IF due # {} THEN Affected(changed') ELSE {}
      /\ Goto("settle")
      /\ UNCHANGED <<design, tc, clock, due, finished, out, count>>

SettleComponent ==
  LET r == Exec(Comps[k].block, sig)
  IN  /\ pc = "settle" /\ k <= Len(Comps)
      /\ IF k \in todo
         THEN \/ /\ r.exit = "ok" /\ k' = k + 1
                 /\ sig' = r.sig
                 /\ changed' = changed \cup Differing(sig, sig')
                 /\ UNCHANGED <<pc, finished>>
              \/ r.exit = "finish" /\ Goto("record") /\ finished' = TRUE /\ UNCHANGED <<sig, changed>>
              \/ r.exit = "error" /\ Goto("raised") /\ UNCHANGED <<finished, sig, changed>>
         ELSE k' = k + 1 /\ UNCHANGED <<pc, sig, changed, finished>>
      /\ UNCHANGED <<design, tc, clock, due, todo, words, out, count>>

NextPart ==
  /\ \/ pc = "toggle" /\ k > Len(Domains) /\ Goto("async")
     \/ pc = "async"  /\ k > Len(Domains) /\ Goto("seq")
     \/ pc = "settle" /\ k > Len(Comps)   /\ Goto("record")
  /\ UNCHANGED <<design, tc, sig, clock, changed, due, todo, words, finished, out, count>>

\* Mutant: every tick is traced.
EveryTickTraced == TRUE

Traced == due # {}

Record ==
  /\ pc = "record"
  /\ IF Traced THEN out' = sig /\ count' = count + 1 ELSE UNCHANGED <<out, count>>
  /\ IF finished THEN Goto("done") ELSE Goto("tick")
  /\ UNCHANGED <<design, tc, sig, clock, changed, due, todo, words, finished>>

EndRun ==
  /\ pc = "tick" /\ tc = Ticks
  /\ Goto("done")
  /\ UNCHANGED <<design, tc, sig, clock, changed, due, todo, words, finished, out, count>>

Ended == pc \in {"done", "raised"} /\ UNCHANGED vars

Next ==
  \/ RunInitial \/ Seed \/ SeedMemory \/ StartTick
  \/ ToggleClock \/ AsyncReset \/ RunDomain \/ SkipDomain \/ MemoryPorts
  \/ SettleComponent \/ NextPart \/ Record \/ EndRun \/ Ended

Spec == Init /\ [][Next]_vars /\ WF_vars(Next)

-----------------------------------------------------------------------------

\* A synchronous read port that is not transparent does not see the writes of
\* its own tick ("Transparent reads forward write data from same-cycle writes",
\* compiler/compile.py): it brings the word from before them.
OpaqueReads ==
  [][ pc = "seq" /\ pc' = "settle" =>
        \A m \in 1 .. Len(Mems) : \A i \in 1 .. Len(Mems[m].reads) :
          LET p == Mems[m].reads[i]
          IN  /\ p.sync /\ ~p.gated /\ p.transparent = << >>
              /\ \E d \in due : Domains[d].name = p.domain
              /\ sig[p.addr] < Mems[m].depth
              => sig'[p.data] = words[m][sig[p.addr]] ]_vars
=============================================================================
