--------------------------- MODULE ClockedDesign ---------------------------
(***************************************************************************)
(* What a run of a clocked design promises, without the engines' economies *)
(* and without their walk: the whole tick is one step, clock levels follow *)
(* from the tick count alone, and EVERY combinational component settles at *)
(* the end of EVERY tick ("All statements execute whenever any referenced  *)
(* input signal changes", ir/module.py).  Only a tick in which a domain    *)
(* fires is traced, and $finish ends the run after the tick's trace.       *)
(*                                                                         *)
(* The engines instead remember which signals moved, and settle only the   *)
(* components those signals reach, and only when a domain fired.           *)
(***************************************************************************)
EXTENDS Netlist

VARIABLES
  design,  \* the design being run
  status,  \* "init", "running", "done" or "raised"
  tc,      \* the tick count
  sig,     \* the signals at the end of the tick
  out,     \* the last entry of the traces
  count    \* the number of entries of the traces

absVars == <<design, status, tc, sig, out, count>>

Dom     == 1 .. Len(design.domains)
Clocked(i) == design.domains[i]
Comb    == design.comps

\* The level of a clock that toggles every hpt ticks, starting low.
LevelAt(d, t) == (t \div d.hpt) % 2

DueAt(t) == { i \in Dom : t % Clocked(i).hpt = 0 /\ EdgeFires(Clocked(i).edge, LevelAt(Clocked(i), t)) }

\* The clocks whose half period ends at t take their level; when two domains
\* name the same signal the later one prevails.
WithClocks(S, t) ==
  [s \in Signal |->
     LET toggled == { i \in Dom : Clocked(i).clk = s /\ t % Clocked(i).hpt = 0 }
     IN  IF toggled = {} THEN S[s]
         ELSE LevelAt(Clocked(CHOOSE i \in toggled : \A j \in toggled : j <= i), t)]

\* The components, one after the other until one does not end "ok".
SettleAll(S) == Through([c \in 1 .. Len(Comb) |-> Then(Comb[c].block)], Ok(S))

\* A domain's asynchronous reset, if it is active, holds the domain.
Hold(i) ==
  [p \in [sig : Valuation, held : SUBSET Dom] |->
     IF Clocked(i).style = "async" /\ ResetActive(Clocked(i), p.sig)
     THEN [sig |-> ApplyReset(Clocked(i), design.init, p.sig), held |-> p.held \cup {i}]
     ELSE p]

\* The asynchronous resets of a tick, in the order of the domains: the signals
\* they leave and the domains they hold.
Resets(S) == Through([i \in Dom |-> Hold(i)], [sig |-> S, held |-> {}])

\* A domain of a set runs its block or takes its synchronous reset.
Run(i, set) ==
  [p \in Outcome |->
     IF i \notin set \/ p.exit # "ok" THEN p
     ELSE IF Clocked(i).style = "sync" /\ ResetActive(Clocked(i), p.sig)
          THEN Ok(ApplyReset(Clocked(i), design.init, p.sig))
          ELSE Exec(Clocked(i).block, p.sig)]

\* The domains of a set, in order, each in place on what the previous one left.
RunDomains(S, set) == Through([i \in Dom |-> Run(i, set)], Ok(S))

Init ==
  /\ design \in Designs
  /\ sig \in design.starts
  /\ status = "init" /\ tc = 0 /\ out = sig /\ count = 0

\* The initial blocks, then the first settling of every component.  Only a
\* $finish in an initial block ends the run in order.
Begin ==
  LET start == Exec(design.initial, sig)
      seed  == SettleAll(start.sig)
  IN  /\ status = "init"
      /\ \/ /\ start.exit = "ok" /\ seed.exit = "ok"
            /\ status' = "running" /\ sig' = seed.sig /\ UNCHANGED <<out, count>>
         \/ /\ start.exit = "finish"
            /\ status' = "done" /\ sig' = start.sig /\ out' = start.sig /\ count' = 1
         \/ /\ start.exit = "error" \/ (start.exit = "ok" /\ seed.exit # "ok")
            /\ status' = "raised" /\ UNCHANGED <<sig, out, count>>
      /\ UNCHANGED <<design, tc>>

\* A whole tick.
Tick ==
  LET t       == tc + 1
      reset   == Resets(WithClocks(sig, t))
      firing  == DueAt(t) \ reset.held
      run     == RunDomains(reset.sig, firing)
      settled == IF run.exit = "ok" THEN SettleAll(run.sig) ELSE run
  IN  /\ status = "running" /\ tc < design.ticks
      /\ IF settled.exit = "error"
         THEN status' = "raised" /\ UNCHANGED <<tc, sig, out, count>>
         ELSE /\ status' = IF settled.exit = "finish" THEN "done" ELSE "running"
              /\ tc' = t
              /\ sig' = settled.sig
              /\ IF firing # {} THEN out' = settled.sig /\ count' = count + 1
                                ELSE UNCHANGED <<out, count>>
      /\ UNCHANGED design

Finish ==
  /\ status = "running" /\ tc = design.ticks
  /\ status' = "done"
  /\ UNCHANGED <<design, tc, sig, out, count>>

Next == Begin \/ Tick \/ Finish

Spec == Init /\ [][Next]_absVars
=============================================================================
