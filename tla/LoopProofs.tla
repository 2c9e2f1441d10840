------------------------------ MODULE LoopProofs ------------------------------
(***************************************************************************)
(* Facts about loops over a list, as Through of Netlist states them, for   *)
(* every list, and about the memory ports, which are such loops.  The      *)
(* libraries' induction theorems take a predicate as a parameter; here the *)
(* induction is on sets: the naturals at which a property fails, if there  *)
(* were any, would have a least one.                                       *)
(***************************************************************************)
EXTENDS Memory, WellFoundedInduction, TLAPS

\* A set of naturals that is not empty has a least element.
LEMMA LeastNatural ==
  ASSUME NEW S \in SUBSET Nat, S # {}
  PROVE  \E n \in S : \A m \in S : n <= m
<1>1. PICK n \in S : \A m \in S : <<m, n>> \notin OpToRel(<, Nat)
  BY NatLessThanWellFounded, WFMin
<1>2. \A m \in S : ~(m < n)
  BY <1>1 DEF OpToRel
<1>3. n \in Nat /\ \A m \in S : m \in Nat
  OBVIOUS
<1> QED
  BY <1>2, <1>3

\* A set of naturals with a bound has a greatest element.
LEMMA GreatestNatural ==
  ASSUME NEW n \in Nat, NEW S \in SUBSET (0 .. n), S # {}
  PROVE  \E m \in S : \A l \in S : l <= m
<1> DEFINE Gaps == { n - l : l \in S }
<1>1. Gaps \in SUBSET Nat /\ Gaps # {}
  <2>1. \A l \in S : n - l \in Nat
    OBVIOUS
  <2>2. PICK l \in S : TRUE
    OBVIOUS
  <2>3. n - l \in Gaps
    OBVIOUS
  <2> QED
    BY <2>1, <2>3
<1> HIDE DEF Gaps
<1>2. PICK g \in Gaps : \A h \in Gaps : g <= h
  BY <1>1, LeastNatural
<1>3. PICK m \in S : g = n - m
  BY DEF Gaps
<1>4. \A l \in S : n - m <= n - l
  BY <1>2, <1>3 DEF Gaps
<1>5. \A l \in S : l \in Nat
  OBVIOUS
<1> QED
  BY <1>4, <1>5

-----------------------------------------------------------------------------
\* The values a loop goes through: f[k] is there after the first k steps.
Course(steps, a, A, n, f) ==
  /\ f \in [0 .. n -> A]
  /\ f[0] = a
  /\ \A k \in 1 .. n : f[k] = steps[k][f[k - 1]]

\* Steps that stay within a set have a course through it.
LEMMA CourseExists ==
  ASSUME NEW A, NEW a \in A, NEW n \in Nat, NEW steps, \A k \in 1 .. n : steps[k] \in [A -> A]
  PROVE  \E f : Course(steps, a, A, n, f)
<1> DEFINE Bad == { m \in 0 .. n : ~ \E f : Course(steps, a, A, m, f) }
<1> SUFFICES ASSUME Bad # {} PROVE FALSE
  OBVIOUS
<1>1. PICK m \in Bad : \A l \in Bad : m <= l
  <2>1. Bad \in SUBSET Nat
    OBVIOUS
  <2> QED
    BY <2>1, LeastNatural
<1>2. m # 0
  <2>1. Course(steps, a, A, 0, [k \in 0 .. 0 |-> a])
    BY DEF Course
  <2> QED
    BY <2>1
<1>3. PICK f : Course(steps, a, A, m - 1, f)
  BY <1>1, <1>2
<1> DEFINE g == [k \in 0 .. m |-> IF k = m THEN steps[m][f[m - 1]] ELSE f[k]]
<1>4. Course(steps, a, A, m, g)
  BY <1>1, <1>2, <1>3 DEF Course
<1> QED
  BY <1>1, <1>4

\* A loop ends with the last value of its course.
LEMMA ThroughCourse ==
  ASSUME NEW A, NEW a \in A, NEW n \in Nat, NEW steps, Len(steps) = n,
         \A k \in 1 .. n : steps[k] \in [A -> A]
  PROVE  \E f : Course(steps, a, A, n, f) /\ Through(steps, a) = f[n]
<1> DEFINE Is(g) == g = [k \in 0 .. n |-> IF k = 0 THEN a ELSE steps[k][g[k - 1]]]
           after == CHOOSE g : Is(g)
<1>1. \E g : Is(g)
  <2>1. PICK f : Course(steps, a, A, n, f)
    BY CourseExists
  <2>2. Is(f)
    BY <2>1 DEF Course
  <2> QED
    BY <2>2
<1>2. Is(after)
  BY <1>1
<1>3. Through(steps, a) = after[n]
  BY DEF Through
<1> HIDE DEF after
<1>4. after[0] = a /\ \A k \in 1 .. n : after[k] = steps[k][after[k - 1]]
  BY <1>2
<1>5. \A k \in 0 .. n : after[k] \in A
  <2> DEFINE Bad == { k \in 0 .. n : after[k] \notin A }
  <2> SUFFICES ASSUME Bad # {} PROVE FALSE
    OBVIOUS
  <2>1. PICK m \in Bad : \A l \in Bad : m <= l
    <3>1. Bad \in SUBSET Nat
      OBVIOUS
    <3> QED
      BY <3>1, LeastNatural
  <2>2. m # 0
    BY <1>4
  <2>3. after[m - 1] \in A
    BY <2>1, <2>2
  <2> QED
    BY <1>4, <2>1, <2>2, <2>3
<1>6. after \in [0 .. n -> A]
  BY <1>2, <1>5
<1> QED
  BY <1>3, <1>4, <1>6 DEF Course

\* What every step keeps holds after the loop.
LEMMA ThroughKeeps ==
  ASSUME NEW A, NEW B \in SUBSET A, NEW a \in B, NEW n \in Nat, NEW steps, Len(steps) = n,
         \A k \in 1 .. n : steps[k] \in [A -> A] /\ \A b \in B : steps[k][b] \in B
  PROVE  Through(steps, a) \in B
<1>1. PICK f : Course(steps, a, A, n, f) /\ Through(steps, a) = f[n]
  BY ThroughCourse
<1> DEFINE Bad == { k \in 0 .. n : f[k] \notin B }
<1>2. ASSUME Bad # {} PROVE FALSE
  <2>1. PICK m \in Bad : \A l \in Bad : m <= l
    <3>1. Bad \in SUBSET Nat
      OBVIOUS
    <3> QED
      BY <1>2, <3>1, LeastNatural
  <2>2. m # 0
    BY <1>1 DEF Course
  <2>3. f[m - 1] \in B
    BY <2>1, <2>2
  <2> QED
    BY <1>1, <2>1, <2>2, <2>3 DEF Course
<1> QED
  BY <1>1, <1>2

\* What holds before a loop, and leads from step to step, holds after it: B[k] is
\* what is known when the first k steps are done.
LEMMA ThroughLeads ==
  ASSUME NEW A, NEW n \in Nat, NEW steps, Len(steps) = n,
         \A k \in 1 .. n : steps[k] \in [A -> A],
         NEW B, \A k \in 0 .. n : B[k] \subseteq A,
         NEW a \in B[0],
         \A k \in 1 .. n : \A b \in B[k - 1] : steps[k][b] \in B[k]
  PROVE  Through(steps, a) \in B[n]
<1>1. a \in A
  OBVIOUS
<1>2. PICK f : Course(steps, a, A, n, f) /\ Through(steps, a) = f[n]
  BY <1>1, ThroughCourse
<1> DEFINE Bad == { k \in 0 .. n : f[k] \notin B[k] }
<1>3. ASSUME Bad # {} PROVE FALSE
  <2>1. PICK m \in Bad : \A l \in Bad : m <= l
    <3>1. Bad \in SUBSET Nat
      OBVIOUS
    <3> QED
      BY <1>3, <3>1, LeastNatural
  <2>2. m # 0
    BY <1>2 DEF Course
  <2>3. m \in 1 .. n /\ f[m - 1] \in B[m - 1]
    BY <2>1, <2>2
  <2> QED
    BY <1>2, <2>1, <2>3 DEF Course
<1> QED
  BY <1>2, <1>3

\* Two loops of one length whose steps keep a relation, R[k] after k steps.
LEMMA ThroughPairs ==
  ASSUME NEW A, NEW C, NEW n \in Nat, NEW steps, NEW others, Len(steps) = n, Len(others) = n,
         \A k \in 1 .. n : steps[k] \in [A -> A] /\ others[k] \in [C -> C],
         NEW R, NEW a \in A, NEW c \in C, <<a, c>> \in R[0],
         \A k \in 1 .. n, x \in A, y \in C :
           <<x, y>> \in R[k - 1] => <<steps[k][x], others[k][y]>> \in R[k]
  PROVE  <<Through(steps, a), Through(others, c)>> \in R[n]
<1>1. PICK f : Course(steps, a, A, n, f) /\ Through(steps, a) = f[n]
  BY ThroughCourse
<1>2. PICK g : Course(others, c, C, n, g) /\ Through(others, c) = g[n]
  BY ThroughCourse
<1> DEFINE Bad == { k \in 0 .. n : <<f[k], g[k]>> \notin R[k] }
<1>3. ASSUME Bad # {} PROVE FALSE
  <2>1. PICK m \in Bad : \A l \in Bad : m <= l
    <3>1. Bad \in SUBSET Nat
      OBVIOUS
    <3> QED
      BY <1>3, <3>1, LeastNatural
  <2>2. m # 0
    BY <1>1, <1>2 DEF Course
  <2>3. m \in 1 .. n /\ <<f[m - 1], g[m - 1]>> \in R[m - 1] /\ f[m - 1] \in A /\ g[m - 1] \in C
    BY <1>1, <1>2, <2>1, <2>2 DEF Course
  <2>4. f[m] = steps[m][f[m - 1]] /\ g[m] = others[m][g[m - 1]]
    BY <1>1, <1>2, <2>3 DEF Course
  <2> QED
    BY <2>1, <2>3, <2>4
<1>4. <<f[n], g[n]>> \in R[n]
  <2>1. Bad = {} /\ n \in 0 .. n
    BY <1>3
  <2>2. n \notin Bad
    BY <2>1
  <2> QED
    BY <2>1, <2>2
<1> HIDE DEF Bad
<1> QED
  BY <1>1, <1>2, <1>4

\* A loop over nothing does nothing.
LEMMA ThroughNothing ==
  ASSUME NEW A, NEW a \in A, NEW steps, Len(steps) = 0
  PROVE  Through(steps, a) = a
<1>1. PICK f : Course(steps, a, A, 0, f) /\ Through(steps, a) = f[0]
  BY ThroughCourse
<1> QED
  BY <1>1 DEF Course

\* The length of a list given by its elements.
LEMMA LengthOf ==
  ASSUME NEW n \in Nat, NEW E, NEW f \in [1 .. n -> E]
  PROVE  Len(f) = n
OBVIOUS

\* The first j steps of a loop.
Upto(steps, j) == [i \in 1 .. j |-> steps[i]]

\* The first steps of a loop are a loop: it has not begun, it has gone one step
\* further, or it is over.
LEMMA ThroughUpto ==
  ASSUME NEW A, NEW a \in A, NEW n \in Nat, NEW steps \in [1 .. n -> [A -> A]]
  PROVE  /\ Through(Upto(steps, 0), a) = a
         /\ \A j \in 0 .. n : Through(Upto(steps, j), a) \in A
         /\ \A j \in 1 .. n : Through(Upto(steps, j), a) = steps[j][Through(Upto(steps, j - 1), a)]
         /\ Upto(steps, n) = steps
<1>1. ASSUME NEW j \in 0 .. n
      PROVE  \E f : Course(steps, a, A, j, f) /\ Through(Upto(steps, j), a) = f[j]
  <2>1. Upto(steps, j) \in [1 .. j -> [A -> A]]
    BY DEF Upto
  <2>2. j \in Nat /\ Len(Upto(steps, j)) = j
    BY <2>1, LengthOf
  <2>3. \A i \in 1 .. j : Upto(steps, j)[i] = steps[i] /\ Upto(steps, j)[i] \in [A -> A]
    BY DEF Upto
  <2>4. PICK f : Course(Upto(steps, j), a, A, j, f) /\ Through(Upto(steps, j), a) = f[j]
    BY <2>2, <2>3, ThroughCourse
  <2> QED
    BY <2>3, <2>4 DEF Course
<1>2. Through(Upto(steps, 0), a) = a
  BY <1>1 DEF Course
<1>3. ASSUME NEW j \in 0 .. n PROVE Through(Upto(steps, j), a) \in A
  <2>1. PICK f : Course(steps, a, A, j, f) /\ Through(Upto(steps, j), a) = f[j]
    BY <1>1
  <2> QED
    BY <2>1 DEF Course
<1>4. ASSUME NEW j \in 1 .. n
      PROVE  Through(Upto(steps, j), a) = steps[j][Through(Upto(steps, j - 1), a)]
  <2>1. PICK f : Course(steps, a, A, j, f) /\ Through(Upto(steps, j), a) = f[j]
    BY <1>1
  <2>2. PICK g : Course(steps, a, A, j - 1, g) /\ Through(Upto(steps, j - 1), a) = g[j - 1]
    BY <1>1
  <2> DEFINE Bad == { m \in 0 .. j - 1 : f[m] # g[m] }
  <2>3. ASSUME Bad # {} PROVE FALSE
    <3>1. PICK m \in Bad : \A l \in Bad : m <= l
      <4>1. Bad \in SUBSET Nat
        OBVIOUS
      <4> QED
        BY <2>3, <4>1, LeastNatural
    <3>2. m # 0
      BY <2>1, <2>2 DEF Course
    <3>3. f[m - 1] = g[m - 1]
      BY <3>1, <3>2
    <3>4. m \in 1 .. j /\ m \in 1 .. j - 1
      BY <3>2
    <3> QED
      BY <2>1, <2>2, <3>3, <3>4 DEF Course
  <2>4. f[j - 1] = g[j - 1]
    BY <2>3
  <2> QED
    BY <2>1, <2>2, <2>4 DEF Course
<1>5. Upto(steps, n) = steps
  BY DEF Upto
<1> QED
  BY <1>2, <1>3, <1>4, <1>5

\* A loop that comes to a value no later step changes ends with it.
LEMMA ThroughStops ==
  ASSUME NEW A, NEW a \in A, NEW n \in Nat, NEW steps \in [1 .. n -> [A -> A]],
         NEW j \in 0 .. n, NEW b, b = Through(Upto(steps, j), a),
         \A i \in 1 .. n : i > j => steps[i][b] = b
  PROVE  Through(steps, a) = b
<1> DEFINE Bad == { m \in 0 .. n : m >= j /\ Through(Upto(steps, m), a) # b }
<1>1. ASSUME Bad # {} PROVE FALSE
  <2>1. PICK m \in Bad : \A l \in Bad : m <= l
    <3>1. Bad \in SUBSET Nat
      OBVIOUS
    <3> QED
      BY <1>1, <3>1, LeastNatural
  <2>2. m # j
    OBVIOUS
  <2>3. m \in 1 .. n /\ m > j /\ m - 1 \in 0 .. n /\ m - 1 >= j /\ m - 1 \notin Bad
    BY <2>1, <2>2
  <2>4. Through(Upto(steps, m - 1), a) = b
    BY <2>3
  <2> QED
    BY <2>1, <2>3, <2>4, ThroughUpto
<1>2. Through(Upto(steps, n), a) = b
  BY <1>1
<1> QED
  BY <1>2, ThroughUpto

-----------------------------------------------------------------------------
\* The memory ports.

WordsOK(mems, words) == \A m \in 1 .. Len(mems) : words[m] \in WordsOf(mems[m])

\* Writes leave words that a memory can hold.
LEMMA MemWritesFacts ==
  ASSUME NEW mems, MemoriesOK(mems), NEW words, WordsOK(mems, words),
         NEW S \in Valuation, NEW names
  PROVE  WordsOK(mems, MemWrites(mems, words, S, names))
<1> SUFFICES ASSUME NEW m \in 1 .. Len(mems)
             PROVE  MemWrites(mems, words, S, names)[m] \in WordsOf(mems[m])
  BY DEF WordsOK
<1> DEFINE mem == mems[m]
           W == WordsOf(mem)
           n == Len(mem.writes)
           Write(p) == [w \in W |-> IF Writes(mem, p, S, names)
                                    THEN [w EXCEPT ![S[p.addr]] = mem.mask[S[p.data]]] ELSE w]
           steps == [k \in 1 .. n |-> Write(mem.writes[k])]
<1>1. MemoryOK(mem) /\ words[m] \in W
  BY DEF MemoriesOK, WordsOK
<1>2. n \in Nat
  BY <1>1 DEF MemoryOK
<1>3. ASSUME NEW k \in 1 .. n, NEW w \in W
      PROVE  Write(mem.writes[k])[w] \in W
  <2> DEFINE p == mem.writes[k]
  <2>1. p.en \in Signal /\ p.addr \in Signal /\ p.data \in Signal /\ mem.mask \in [Value -> Value]
    BY <1>1 DEF MemoryOK
  <2>2. mem.mask[S[p.data]] \in Value
    BY <2>1 DEF Valuation
  <2> HIDE DEF p
  <2>3. [w EXCEPT ![S[p.addr]] = mem.mask[S[p.data]]] \in W
    BY <2>2 DEF WordsOf
  <2> QED
    BY <2>3 DEF p
<1>4. steps \in [1 .. n -> [W -> W]]
  BY <1>3
<1>5. \A k \in 1 .. n : steps[k] \in [W -> W] /\ \A b \in W : steps[k][b] \in W
  BY <1>4
<1>6. MemWrites(mems, words, S, names)[m] = Through(steps, words[m])
  BY DEF MemWrites
<1> HIDE DEF steps, n, W
<1>7. Len(steps) = n
  BY <1>2, <1>4, LengthOf
<1>8. Through(steps, words[m]) \in W
  BY <1>1, <1>2, <1>5, <1>7, ThroughKeeps
<1> QED
  BY <1>6, <1>8 DEF W

\* What a read port puts on its data signal is a value.
LEMMA ReadWordFacts ==
  ASSUME NEW mem, MemoryOK(mem), NEW k \in 1 .. Len(mem.reads), NEW word \in Value,
         NEW S \in Valuation
  PROVE  ReadWord(mem, word, mem.reads[k], S) \in Value
<1> DEFINE p == mem.reads[k]
           hits == { i \in 1 .. Len(p.transparent) :
                       S[mem.writes[p.transparent[i]].en] # 0
                         /\ S[mem.writes[p.transparent[i]].addr] = S[p.addr] }
<1>1. /\ Len(p.transparent) \in Nat
      /\ \A i \in 1 .. Len(p.transparent) : p.transparent[i] \in 1 .. Len(mem.writes)
      /\ \A i \in 1 .. Len(mem.writes) : mem.writes[i].data \in Signal
  BY DEF MemoryOK
<1>2. ReadWord(mem, word, p, S) =
        IF p.sync /\ hits # {} THEN S[mem.writes[p.transparent[Min(hits)]].data] ELSE word
  BY DEF ReadWord
<1>3. ASSUME hits # {} PROVE Min(hits) \in hits
  <2>1. hits \in SUBSET Nat
    BY <1>1
  <2> HIDE DEF hits
  <2>2. \E i \in hits : \A j \in hits : i <= j
    BY <1>3, <2>1, LeastNatural
  <2> QED
    BY <2>2 DEF Min
<1>4. hits \subseteq 1 .. Len(p.transparent)
  OBVIOUS
<1> HIDE DEF hits, p
<1>5. ASSUME hits # {} PROVE S[mem.writes[p.transparent[Min(hits)]].data] \in Value
  BY <1>1, <1>3, <1>4, <1>5 DEF Valuation
<1>6. ReadWord(mem, word, p, S) \in Value
  BY <1>2, <1>5
<1> QED
  BY <1>6 DEF p

\* What one read port makes of the signals.
PortRead(mems, words, names, m, p) ==
  [T \in Valuation |->
     IF ReadsNow(mems[m], p, T, names)
     THEN [T EXCEPT ![p.data] = ReadWord(mems[m], words[m][T[p.addr]], p, T)]
     ELSE T]

\* U is T but for one signal.
Setting(s, T, U) == U \in Valuation /\ \A r \in Signal \ {s} : U[r] = T[r]

\* It writes its data signal and no other.
LEMMA PortReadFacts ==
  ASSUME NEW mems, MemoriesOK(mems), NEW words, WordsOK(mems, words), NEW names,
         NEW m \in 1 .. Len(mems), NEW k \in 1 .. Len(mems[m].reads), NEW T \in Valuation
  PROVE  Setting(mems[m].reads[k].data, T, PortRead(mems, words, names, m, mems[m].reads[k])[T])
<1> DEFINE p == mems[m].reads[k]
           U == PortRead(mems, words, names, m, p)[T]
<1>1. MemoryOK(mems[m]) /\ words[m] \in WordsOf(mems[m])
  BY DEF MemoriesOK, WordsOK
<1>2. p.data \in Signal /\ p.addr \in Signal /\ mems[m].depth \in Nat
  BY <1>1 DEF MemoryOK
<1>3. ASSUME ReadsNow(mems[m], p, T, names)
      PROVE  ReadWord(mems[m], words[m][T[p.addr]], p, T) \in Value
  <2>1. T[p.addr] \in 0 .. mems[m].depth - 1
    <3>1. T[p.addr] \in Int
      BY <1>2, ValueAssumption DEF Valuation
    <3>2. 0 <= T[p.addr] /\ T[p.addr] < mems[m].depth
      BY <1>3 DEF ReadsNow, InRange
    <3> QED
      BY <1>2, <3>1, <3>2
  <2>2. words[m][T[p.addr]] \in Value
    BY <1>1, <2>1 DEF WordsOf
  <2> QED
    BY <1>1, <2>2, ReadWordFacts
<1>4. U = IF ReadsNow(mems[m], p, T, names)
          THEN [T EXCEPT ![p.data] = ReadWord(mems[m], words[m][T[p.addr]], p, T)]
          ELSE T
  BY DEF PortRead
<1> HIDE DEF p, U
<1>5. U \in Valuation /\ \A s \in Signal \ {p.data} : U[s] = T[s]
  BY <1>2, <1>3, <1>4 DEF Valuation
<1> QED
  BY <1>5 DEF p, U, Setting

\* Reads write the data signals of read ports and nothing else.
LEMMA MemReadsFacts ==
  ASSUME NEW mems, MemoriesOK(mems), NEW words, WordsOK(mems, words),
         NEW S \in Valuation, NEW names
  PROVE  /\ MemReads(mems, words, S, names) \in Valuation
         /\ \A s \in Signal \ ReadData(mems) : MemReads(mems, words, S, names)[s] = S[s]
<1> DEFINE V == { T \in Valuation : \A s \in Signal \ ReadData(mems) : T[s] = S[s] }
           Read(m, p) == PortRead(mems, words, names, m, p)
           ports(m) == [k \in 1 .. Len(mems[m].reads) |-> Read(m, mems[m].reads[k])]
           ReadMemory(m) == [T \in Valuation |-> Through(ports(m), T)]
           steps == [m \in 1 .. Len(mems) |-> ReadMemory(m)]
<1>1. ASSUME NEW m \in 1 .. Len(mems), NEW k \in 1 .. Len(mems[m].reads), NEW T \in Valuation
      PROVE  /\ Read(m, mems[m].reads[k])[T] \in Valuation
             /\ \A s \in Signal \ ReadData(mems) : Read(m, mems[m].reads[k])[T][s] = T[s]
  <2>1. mems[m].reads[k].data \in ReadData(mems)
    BY DEF ReadData
  <2>2. Setting(mems[m].reads[k].data, T, Read(m, mems[m].reads[k])[T])
    BY PortReadFacts
  <2> HIDE DEF Read
  <2> QED
    BY <2>1, <2>2 DEF Setting
<1>2. ASSUME NEW m \in 1 .. Len(mems), NEW T \in Valuation
      PROVE  /\ Through(ports(m), T) \in Valuation
             /\ \A s \in Signal \ ReadData(mems) : Through(ports(m), T)[s] = T[s]
  <2> DEFINE B == { U \in Valuation : \A s \in Signal \ ReadData(mems) : U[s] = T[s] }
             n == Len(mems[m].reads)
             list == ports(m)
  <2>1. n \in Nat
    BY DEF MemoriesOK, MemoryOK
  <2>2. list \in [1 .. n -> [Valuation -> Valuation]]
    BY <1>1 DEF PortRead
  <2>3. ASSUME NEW k \in 1 .. n
        PROVE  list[k] \in [Valuation -> Valuation] /\ \A b \in B : list[k][b] \in B
    <3>1. list[k] = Read(m, mems[m].reads[k])
      OBVIOUS
    <3> HIDE DEF Read
    <3>2. \A b \in B : list[k][b] \in B
      BY <1>1, <3>1
    <3> QED
      BY <2>2, <3>2
  <2>4. B \in SUBSET Valuation /\ T \in B
    OBVIOUS
  <2> HIDE DEF B, n, list
  <2>5. Len(list) = n
    BY <2>1, <2>2, LengthOf
  <2>6. Through(list, T) \in B
    BY <2>1, <2>3, <2>4, <2>5, ThroughKeeps
  <2> QED
    BY <2>6 DEF B, list
<1> DEFINE n == Len(mems)
<1>3. n \in Nat
  BY DEF MemoriesOK
<1>4. steps \in [1 .. n -> [Valuation -> Valuation]]
  BY <1>2
<1>5. \A k \in 1 .. n : steps[k] \in [Valuation -> Valuation] /\ \A b \in V : steps[k][b] \in V
  BY <1>2, <1>4
<1>6. MemReads(mems, words, S, names) = Through(steps, S)
  BY DEF MemReads, PortRead
<1>7. V \in SUBSET Valuation /\ S \in V
  OBVIOUS
<1> HIDE DEF steps, n, V
<1>8. Len(steps) = n
  BY <1>3, <1>4, LengthOf
<1>9. Through(steps, S) \in V
  BY <1>3, <1>5, <1>7, <1>8, ThroughKeeps
<1> QED
  BY <1>6, <1>9 DEF V

\* Without memories nothing is read.
LEMMA NothingRead ==
  ASSUME NEW mems, mems = << >>, NEW words, NEW S \in Valuation, NEW names
  PROVE  MemReads(mems, words, S, names) = S
<1> DEFINE ReadMemory(m) == [T \in Valuation |->
             Through([i \in 1 .. Len(mems[m].reads) |-> PortRead(mems, words, names, m, mems[m].reads[i])], T)]
           steps == [m \in 1 .. Len(mems) |-> ReadMemory(m)]
<1>1. MemReads(mems, words, S, names) = Through(steps, S)
  BY DEF MemReads, PortRead
<1>2. steps = << >>
  OBVIOUS
<1> HIDE DEF steps
<1>3. Len(steps) = 0
  BY <1>2
<1> QED
  BY <1>1, <1>3, ThroughNothing
=============================================================================
