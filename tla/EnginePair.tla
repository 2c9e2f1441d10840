----------------------------- MODULE EnginePair -----------------------------
(***************************************************************************)
(* The generated run loop and the CSP tick engine side by side on one      *)
(* design and one start ("The generated run loop reproduces the CSP        *)
(* engine's tick semantics", tests/test_run_loop.py).  The two walks have  *)
(* the same steps, so they take them together.  A design with memories     *)
(* runs on the engine alone (CompiledModule._run_sequential).              *)
(*                                                                         *)
(* The run loop's variables have the names of RunLoop; those of the engine *)
(* begin with an e, but for the ones the loop has no counterpart of.       *)
(***************************************************************************)
EXTENDS RunLoop

VARIABLES ePc, eK, eTc, eSig, eClock, changed, eDue, todo, words, eFinished, eOut, eCount

engineVars == <<ePc, eK, eTc, eSig, eClock, changed, eDue, todo, words, eFinished,
                eOut, eCount>>
pairVars == <<vars, engineVars>>

E == INSTANCE SimEngine WITH
       pc <- ePc, k <- eK, tc <- eTc, sig <- eSig, clock <- eClock, due <- eDue,
       finished <- eFinished, out <- eOut, count <- eCount

ASSUME MemoriesAssumption == \A D \in Designs : E!MemoriesOK(D.mems)

HasMemories == design.mems # << >>

PairInit == Init /\ E!Init /\ sig = eSig

PairNext == E!Next /\ IF HasMemories THEN UNCHANGED vars ELSE Next

PairSpec == PairInit /\ [][PairNext]_pairVars

-----------------------------------------------------------------------------
\* Properties.

\* The two walks are at the same place, with the same clocks and the same
\* domains fired, and they hold the same signals as long as no block has
\* raised an exception.
SameWalk ==
  ~HasMemories =>
    /\ <<pc, k, tc, clock, due, finished>> = <<ePc, eK, eTc, eClock, eDue, eFinished>>
    /\ ~finished /\ pc # "raised" => sig = eSig

\* When the tick began, the signal of every clock had the level of its domain.
\* A start, a block or a domain of another rate on the same signal may give it
\* the other level.
ClocksShown ==
  \A i \in Dom : snap[Domains[i].clk] = LevelAfter(tc - 1, Domains[i].hpt)

\* The components the loop settles: when something fired, those that one of the
\* signals noted as moved reaches.
Reached == { c \in 1 .. Len(Comps) : fired /\ Moving(Comps[c]) \cap moved # {} }

\* The loop compares with the beginning of the tick and looks at seq-written
\* signals and clocks only; the engine collects every change block by block.
\* Both choose the same components, if clocks showed their levels: the loop
\* notes a clock that it toggles, the engine one whose signal changes.
SameSchedule == ~HasMemories /\ pc = "settle" /\ k = 1 /\ ClocksShown => todo = Reached

\* A component that the loop settles and the engine does not agrees with what it
\* reads when its turn comes.
SurplusAgrees ==
  ~HasMemories /\ pc = "settle" /\ k \in Reached \ todo => Agrees(Comps[k].block, sig)

\* The signal of a clock starts low, nothing but its toggling writes it, and all
\* domains on it toggle it at the same rate.
OwnClocks(D) ==
  \A i \in 1 .. Len(D.domains) :
    LET clk == D.domains[i].clk
    IN  /\ \A S \in D.starts : S[clk] = 0
        /\ \A S \in Valuation : Exec(D.initial, S).sig[clk] = S[clk]
        /\ \A j \in 1 .. Len(D.domains) :
             /\ clk \notin D.domains[j].written
             /\ D.domains[j].clk = clk => D.domains[j].hpt = D.domains[i].hpt
        /\ \A c \in 1 .. Len(D.comps) : clk \notin D.comps[c].writes

\* The traces are the same, but for what the block that raised $finish wrote in
\* the last tick: all the differences lie in what one block writes.
SameTrace ==
  ~HasMemories =>
    /\ count = eCount
    /\ out # eOut =>
         /\ finished /\ pc = "done"
         /\ \E b \in { Domains[i].written : i \in due }
                     \cup { Comps[c].writes : c \in 1 .. Len(Comps) } :
              \A s \in Signal \ b : out[s] = eOut[s]

\* Nothing but the i-th read port of the m-th memory drives its data, and no
\* port and no component its address.
DrivesAlone(m, i) ==
  LET p == E!Mems[m].reads[i]
  IN  /\ \A c \in 1 .. Len(Comps) : {p.addr, p.data} \cap Comps[c].writes = {}
      /\ \A n \in 1 .. Len(E!Mems) : \A j \in 1 .. Len(E!Mems[n].reads) :
           <<n, j>> # <<m, i>> => E!Mems[n].reads[j].data \notin {p.addr, p.data}
      /\ p.addr # p.data

\* A combinational read port that drives its data alone shows the word its
\* address selects, in every tick that $finish does not cut short.
CombReadFresh ==
  ePc = "record" /\ ~eFinished =>
    \A m \in 1 .. Len(E!Mems) : \A i \in 1 .. Len(E!Mems[m].reads) :
      LET p == E!Mems[m].reads[i]
      IN  /\ ~p.sync /\ ~p.gated /\ DrivesAlone(m, i)
          /\ eSig[p.addr] \in DOMAIN words[m]
          => eSig[p.data] = words[m][eSig[p.addr]]

\* The write ports of the m-th memory that act on a word: those enabled at its
\* address whose domain fired.
Hits(m, a) ==
  { i \in 1 .. Len(E!Mems[m].writes) :
      LET p == E!Mems[m].writes[i]
      IN  /\ \E d \in eDue : Domains[d].name = p.domain
          /\ eSig[p.en] # 0 /\ eSig[p.addr] = a }

\* A word changes only when a write port acts on it, to the data of the last
\* one that does: never under an asynchronous reset of the port's domain, and
\* never in a tick that $finish cut short.
WritesOnEdge ==
  [][ \A m \in 1 .. Len(words) : \A a \in DOMAIN words[m] :
        words'[m][a] # words[m][a] =>
          /\ ~eFinished
          /\ \E i \in Hits(m, a) :
               /\ \A j \in Hits(m, a) : j <= i
               /\ words'[m][a] = E!Mems[m].mask[eSig[E!Mems[m].writes[i].data]] ]_pairVars
=============================================================================
