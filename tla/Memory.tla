------------------------------- MODULE Memory -------------------------------
(***************************************************************************)
(* The memory ports of the tick engine: _exec_mem_writes, _exec_mem_reads  *)
(* (compiler/compile.py).                                                  *)
(*                                                                         *)
(* The memories of a design are a sequence of records                      *)
(*   depth   the number of words;                                          *)
(*   init    the initial words, [0 .. depth-1 -> Value];                   *)
(*   mask    what mask_value makes of a value at the width of a word,      *)
(*           [Value -> Value];                                             *)
(*   writes  its write ports [domain, en, addr, data];                     *)
(*   reads   its read ports [sync, domain, gated, en, addr, data,          *)
(*           transparent]: sync is FALSE for a combinational port (domain  *)
(*           None), gated is FALSE for one without an enable, transparent  *)
(*           lists the write ports it forwards.                            *)
(* Granular write enables (granularity > 0) are left out.                  *)
(***************************************************************************)
EXTENDS Netlist, SequencesExt

WordsOf(mem) == [0 .. mem.depth - 1 -> Value]

\* Ports name signals, and transparent_for names write ports.
MemoryOK(mem) ==
  /\ mem.depth \in Nat /\ mem.init \in WordsOf(mem) /\ mem.mask \in [Value -> Value]
  /\ Len(mem.writes) \in Nat /\ Len(mem.reads) \in Nat
  /\ \A k \in 1 .. Len(mem.writes) :
       LET p == mem.writes[k] IN {p.en, p.addr, p.data} \subseteq Signal
  /\ \A k \in 1 .. Len(mem.reads) :
       LET p == mem.reads[k]
       IN  /\ {p.addr, p.data} \subseteq Signal
           /\ p.gated => p.en \in Signal
           /\ Len(p.transparent) \in Nat
           /\ \A i \in 1 .. Len(p.transparent) : p.transparent[i] \in 1 .. Len(mem.writes)

MemoriesOK(mems) == Len(mems) \in Nat /\ \A m \in 1 .. Len(mems) : MemoryOK(mems[m])

\* The signals that read ports drive.
ReadData(mems) ==
  UNION { { mems[m].reads[k].data : k \in 1 .. Len(mems[m].reads) } : m \in 1 .. Len(mems) }

\* The words of every memory before the first tick.
InitWords(mems) == [m \in 1 .. Len(mems) |-> mems[m].init]

\* _has_seq: sequential blocks, or memory ports with a clock.
HasSeq(D) ==
  \/ \E i \in 1 .. Len(D.domains) : D.domains[i].block # << >>
  \/ \E m \in 1 .. Len(D.mems) :
       D.mems[m].writes # << >> \/ \E p \in ToSet(D.mems[m].reads) : p.sync

InRange(mem, addr) == 0 <= addr /\ addr < mem.depth

\* Mutant: the write port ignores its clock domain.
WritesAnyTime(mem, p, S, firedNames) == S[p.en] # 0 /\ InRange(mem, S[p.addr])

\* A write port acts when its domain fired and its enable is not zero.
Writes(mem, p, S, firedNames) ==
  p.domain \in firedNames /\ S[p.en] # 0 /\ InRange(mem, S[p.addr])

\* Every memory's write ports, in order.
MemWrites(mems, words, S, firedNames) ==
  LET Write(mem, p) ==
        [w \in WordsOf(mem) |->
           IF Writes(mem, p, S, firedNames)
           THEN [w EXCEPT ![S[p.addr]] = mem.mask[S[p.data]]] ELSE w]
  IN  [m \in 1 .. Len(mems) |->
         Through([k \in 1 .. Len(mems[m].writes) |-> Write(mems[m], mems[m].writes[k])], words[m])]

\* A transparent port forwards the data of the first of its write ports that is
\* enabled at its address, whether or not that port's domain fired.
ReadWord(mem, word, p, S) ==
  LET Forwards(i) == S[mem.writes[i].en] # 0 /\ S[mem.writes[i].addr] = S[p.addr]
      hits == { k \in 1 .. Len(p.transparent) : Forwards(p.transparent[k]) }
  IN  IF p.sync /\ hits # {} THEN S[mem.writes[p.transparent[Min(hits)]].data] ELSE word

\* Mutant: a combinational port waits for a domain too.
ReadsOnEdge(mem, p, S, firedNames) ==
  p.domain \in firedNames /\ (p.gated => S[p.en] # 0) /\ InRange(mem, S[p.addr])

\* A combinational port reads in every tick, a synchronous one when its domain
\* fired; both only when their enable, if they have one, is not zero.
ReadsNow(mem, p, S, firedNames) ==
  /\ p.sync => p.domain \in firedNames
  /\ p.gated => S[p.en] # 0
  /\ InRange(mem, S[p.addr])

\* The read ports, one after the other, on the words as the writes of the same
\* tick left them.
MemReads(mems, words, S, firedNames) ==
  LET Read(m, p) ==
        [T \in Valuation |->
           IF ReadsNow(mems[m], p, T, firedNames)
           THEN [T EXCEPT ![p.data] = ReadWord(mems[m], words[m][T[p.addr]], p, T)]
           ELSE T]
      ReadMemory(m) ==
        [T \in Valuation |->
           Through([k \in 1 .. Len(mems[m].reads) |-> Read(m, mems[m].reads[k])], T)]
  IN  Through([m \in 1 .. Len(mems) |-> ReadMemory(m)], S)
=============================================================================
