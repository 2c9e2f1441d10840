---------------------- MODULE ParallelTestbenchProofs ----------------------
(***************************************************************************)
(* Proofs about ParallelTestbench for every finite set of threads and      *)
(* every bound on the cycles.                                              *)
(*                                                                         *)
(* The invariant follows a round: all threads gather at the first wait;    *)
(* once it is released the thread with index 0 ticks while the others are  *)
(* at, or on their way to, the second; once that is released they return   *)
(* to their functions.  A thread is Behind between the tick and its return *)
(* and Midway between the first wait and the tick.                         *)
(***************************************************************************)
EXTENDS ParallelTestbench, FiniteSetTheorems, TLAPS

Waiters == { t \in Thread : pc[t] \in {"wait1", "wait2"} }

Left(t)    == pc[t] \in {"report", "abort", "ended"}
Dropped(t) == Left(t) /\ failure[t] \in {"broken", "tick"}
Behind(t)  == ~Left(t) /\ ticks[t] # cycle
Midway(t)  == ticks[t] = cycle /\ pc[t] \in {"ticking", "arrive2", "wait2"}

\* What the exceptions collected say about the threads.
Failures ==
  \A t \in Thread :
    /\ ~Left(t) => failure[t] = "none"
    /\ pc[t] \in {"report", "abort"} => failure[t] \in Caught
    /\ pc[t] \in {"abort", "ended"} /\ failure[t] \in Caught => t \in errors
    /\ t \in errors => failure[t] \in Caught

\* Nobody is more than one tick behind, and only on the way to its return.
Levels ==
  \A t \in Thread :
    /\ ticks[t] = cycle \/ ticks[t] + 1 = cycle \/ Dropped(t)
    /\ Behind(t) => pc[t] \in {"wait1", "arrive2", "wait2"}
    /\ Left(t) /\ ~Dropped(t) => ticks[t] = cycle

\* The indices the barrier has given out.
Indices ==
  /\ \A t, u \in Waiters : t # u => index[t] # index[u]
  /\ barrier = "filling" => /\ \A t \in Waiters : index[t] < waiting
                            /\ Waiters # {} => \E t \in Waiters : index[t] = 0
  /\ \A t \in Thread : pc[t] = "wait1" /\ Behind(t) => index[t] # 0
  /\ \A t, u \in Thread : pc[t] = "ticking" /\ t # u =>
       pc[u] # "ticking" /\ (pc[u] = "wait1" => index[u] # 0)

\* Past the first wait and before the tick, everybody has passed or is being
\* released from the first wait, and the tick is somebody's to make.
BeforeTick ==
  /\ \A t, u \in Thread : Midway(t) =>
       \/ Dropped(u)
       \/ Midway(u)
       \/ pc[u] = "wait1" /\ ticks[u] = cycle /\ barrier # "filling"
  /\ \A t, u \in Thread :
       pc[t] = "wait1" /\ ticks[t] = cycle /\ barrier = "draining" =>
         \/ Dropped(u)
         \/ ticks[u] = cycle /\ pc[u] \in {"wait1", "ticking", "arrive2"}
  /\ \A t \in Thread :
       Midway(t) \/ (pc[t] = "wait1" /\ ticks[t] = cycle /\ barrier = "draining") =>
         \E u \in Thread : \/ pc[u] = "ticking"
                           \/ pc[u] = "wait1" /\ index[u] = 0
                           \/ Dropped(u)

\* After the tick, until the second wait is released, everybody is behind; while
\* it is released nobody is at the first wait, and who waits is behind.
AfterTick ==
  /\ \A t, u \in Thread :
       Behind(t) /\ (pc[t] \in {"wait1", "arrive2"} \/ barrier = "filling") =>
         Dropped(u) \/ Behind(u)
  /\ \A t, u \in Thread :
       Behind(t) => ~(pc[u] = "wait1" /\ ticks[u] = cycle)
  /\ \A t \in Thread : pc[t] = "wait1" /\ barrier = "filling" => ticks[t] = cycle
  /\ \A t, u \in Thread : pc[t] = "wait2" /\ barrier = "draining" =>
       Behind(t) /\ pc[u] \notin {"wait1", "ticking", "arrive2"}

Finished ==
  result # "running" => /\ \A t \in Thread : pc[t] = "ended"
                        /\ result = "passed" <=> errors = {}

Rounds == Failures /\ Levels /\ Indices /\ BeforeTick /\ AfterTick /\ Finished

IInv == TypeOK /\ Rounds

-----------------------------------------------------------------------------
\* The barrier's count.

\* The count is a natural number at most that of the threads; it is zero only
\* when nobody waits, and equals theirs only when everybody does.
LEMMA CountBounds ==
  ASSUME TypeOK
  PROVE  /\ Waiters \subseteq Thread /\ IsFiniteSet(Waiters)
         /\ waiting = Cardinality(Waiters)
         /\ waiting \in Nat /\ Cardinality(Thread) \in Nat \ {0}
         /\ waiting <= Cardinality(Thread)
         /\ waiting = 0 <=> Waiters = {}
         /\ waiting = Cardinality(Thread) => Waiters = Thread
<1>1. Waiters \in SUBSET Thread /\ waiting = Cardinality(Waiters)
  BY DEF TypeOK, Waiters
<1>2. /\ IsFiniteSet(Waiters) /\ Cardinality(Waiters) <= Cardinality(Thread)
      /\ Cardinality(Thread) = Cardinality(Waiters) => Thread = Waiters
  BY <1>1, ThreadAssumption, FS_Subset
<1>3. Cardinality(Waiters) \in Nat /\ Cardinality(Thread) \in Nat
  BY <1>2, ThreadAssumption, FS_CardinalityType
<1>4. Cardinality(Waiters) = 0 <=> Waiters = {}
  BY <1>2, FS_EmptySet
<1>5. Cardinality(Thread) # 0
  BY ThreadAssumption, FS_EmptySet
<1> QED
  BY <1>1, <1>2, <1>3, <1>4, <1>5

\* One more thread waits.
LEMMA CountJoin ==
  ASSUME TypeOK, NEW t \in Thread, t \notin Waiters,
         Waiters' = Waiters \cup {t}, waiting' = waiting + 1
  PROVE  waiting' = Cardinality(Waiters')
BY CountBounds, FS_AddElement

\* One thread fewer waits.
LEMMA CountLeave ==
  ASSUME TypeOK, NEW t \in Thread, t \in Waiters,
         Waiters' = Waiters \ {t}, waiting' = waiting - 1
  PROVE  waiting' = Cardinality(Waiters')
BY CountBounds, FS_RemoveElement

\* The last thread to arrive finds all the others waiting.
LEMMA LastArrival ==
  ASSUME TypeOK, NEW t \in Thread, t \notin Waiters,
         waiting + 1 = Cardinality(Thread)
  PROVE  Waiters = Thread \ {t}
<1>1. IsFiniteSet(Waiters \cup {t}) /\ Cardinality(Waiters \cup {t}) = Cardinality(Thread)
  BY CountBounds, FS_AddElement
<1>2. Waiters \cup {t} \in SUBSET Thread
  BY CountBounds
<1>3. Thread = Waiters \cup {t}
  BY <1>1, <1>2, ThreadAssumption, FS_Subset
<1> QED
  BY <1>3

\* The last thread to leave leaves nobody waiting, and any other one somebody.
LEMMA LastToLeave ==
  ASSUME TypeOK, NEW t \in Thread, t \in Waiters
  PROVE  waiting - 1 \in Nat /\ (waiting - 1 = 0 <=> Waiters = {t})
<1>1. IsFiniteSet(Waiters \ {t}) /\ Cardinality(Waiters \ {t}) = waiting - 1
  BY CountBounds, FS_RemoveElement
<1>2. Cardinality(Waiters \ {t}) = 0 <=> Waiters \ {t} = {}
  BY <1>1, FS_EmptySet
<1> QED
  BY <1>1, <1>2, FS_CardinalityType

-----------------------------------------------------------------------------
\* Types.

\* The state the call starts from.
LEMMA TypeInit == Init => TypeOK
<1> SUFFICES ASSUME Init PROVE TypeOK
  OBVIOUS
<1>1. { t \in Thread : pc[t] \in {"wait1", "wait2"} } = {}
  BY DEF Init
<1>2. { t \in Thread : pc[t] = "access" } = {}
  BY DEF Init
<1> QED
  BY <1>1, <1>2, FS_EmptySet, CyclesAssumption DEF Init, TypeOK, Place

\* The steps outside the barrier move no thread into a wait or out of one.
LEMMA TypeOutside ==
  ASSUME TypeOK, NEW t \in Thread,
         \/ CallAccessor(t) \/ CallTick(t) \/ Raise(t) \/ Escape(t) \/ Return(t)
         \/ Acquire(t) \/ Release(t) \/ ArriveBroken(t) \/ RunTick(t)
         \/ Report(t) \/ Abort(t)
  PROVE  TypeOK' /\ Waiters' = Waiters
<1> USE DEF Move, Fail, barrierVars, mainVars
<1>1. Waiters' = Waiters
  BY DEF TypeOK, Waiters, CallAccessor, CallTick, Raise, Escape, Return, Acquire,
         Release, ArriveBroken, RunTick, Report, Abort
<1>2. waiting' = waiting
  BY DEF CallAccessor, CallTick, Raise, Escape, Return, Acquire, Release, ArriveBroken,
         RunTick, Report, Abort
<1>3. lock' = { u \in Thread : pc'[u] = "access" }
  BY DEF TypeOK, CallAccessor, CallTick, Raise, Escape, Return, Acquire, Release,
         ArriveBroken, RunTick, Report, Abort
<1>4. cycle' \in 0 .. MaxCycles
  BY CyclesAssumption DEF TypeOK, CallAccessor, CallTick, Raise, Escape, Return, Acquire, Release,
         ArriveBroken, RunTick, Report, Abort
<1>5. /\ pc' \in [Thread -> Place]
      /\ failure' \in [Thread -> {"none", "own", "exit", "tick", "broken"}]
      /\ errors' \subseteq Thread
  BY DEF TypeOK, Place, CallAccessor, CallTick, Raise, Escape, Return, Acquire, Release,
         ArriveBroken, RunTick, Report, Abort
<1>6. /\ barrier' \in {"filling", "draining", "broken"}
      /\ <<index, ticks, result, blamed>>' = <<index, ticks, result, blamed>>
  BY DEF TypeOK, CallAccessor, CallTick, Raise, Escape, Return, Acquire, Release,
         ArriveBroken, RunTick, Report, Abort
<1>7. waiting' = Cardinality(Waiters')
  BY <1>1, <1>2 DEF TypeOK, Waiters
<1> QED
  BY <1>1, <1>3, <1>4, <1>5, <1>6, <1>7 DEF TypeOK, Waiters

\* The last party to arrive releases the others.
LEMMA TypeArriveLast ==
  ASSUME TypeOK, NEW t \in Thread, ArriveLast(t)
  PROVE  TypeOK' /\ Waiters' = Waiters
<1> USE DEF ArriveLast, Move, Leave, Pass, AfterFirstWait, mainVars
<1>1. Waiters' = Waiters
  BY DEF TypeOK, Waiters
<1>2. waiting' = Cardinality(Waiters')
  BY <1>1 DEF TypeOK, Waiters
<1>3. /\ pc' \in [Thread -> Place] /\ index' \in [Thread -> Nat]
      /\ ticks' \in [Thread -> Nat]
      /\ lock' = { u \in Thread : pc'[u] = "access" }
  BY CountBounds DEF TypeOK, Place
<1> QED
  BY <1>1, <1>2, <1>3 DEF TypeOK, Waiters

\* A party that arrives is counted.
LEMMA TypeArrive ==
  ASSUME TypeOK, NEW t \in Thread, Arrive(t)
  PROVE  TypeOK' /\ t \notin Waiters /\ Waiters' = Waiters \cup {t}
<1> USE DEF Arrive, Move, mainVars
<1>1. t \notin Waiters /\ Waiters' = Waiters \cup {t}
  BY DEF TypeOK, Waiters
<1>2. waiting' = Cardinality(Waiters')
  BY <1>1, CountJoin
<1>3. /\ pc' \in [Thread -> Place] /\ index' \in [Thread -> Nat]
      /\ lock' = { u \in Thread : pc'[u] = "access" }
  BY CountBounds DEF TypeOK, Place
<1> QED
  BY <1>1, <1>2, <1>3 DEF TypeOK, Waiters

\* The three ways out of a wait.
LEMMA TypeLeave ==
  ASSUME TypeOK, NEW t \in Thread, Wake(t) \/ WakeBroken(t) \/ GiveUp(t)
  PROVE  TypeOK' /\ t \in Waiters /\ Waiters' = Waiters \ {t}
<1> USE DEF Wake, WakeBroken, GiveUp, Move, Fail, Leave, Pass, AfterFirstWait, mainVars
<1>1. t \in Waiters /\ Waiters' = Waiters \ {t}
  BY DEF TypeOK, Waiters
<1>2. waiting' = Cardinality(Waiters')
  BY <1>1, CountLeave
<1>3. /\ pc' \in [Thread -> Place]
      /\ ticks' \in [Thread -> Nat]
      /\ failure' \in [Thread -> {"none", "own", "exit", "tick", "broken"}]
      /\ lock' = { u \in Thread : pc'[u] = "access" }
  BY DEF TypeOK, Place
<1> QED
  BY <1>1, <1>2, <1>3 DEF TypeOK, Waiters

\* The main thread touches no barrier.
LEMMA TypeMain ==
  ASSUME TypeOK, Join \/ UNCHANGED vars
  PROVE  TypeOK'
BY DEF TypeOK, Join, Conclude, vars, barrierVars

\* Every step of a thread or of the main thread.
LEMMA TypeStep == TypeOK /\ [Next]_vars => TypeOK'
BY TypeOutside, TypeArriveLast, TypeArrive, TypeLeave, TypeMain DEF Next, Carry, Over

\* TypeOK of ParallelTestbench: every variable keeps its type and the barrier's
\* count is that of the threads inside it, whatever breaks the barrier.
THEOREM TypeCorrect == Spec => []TypeOK
BY TypeInit, TypeStep, PTL DEF Spec

-----------------------------------------------------------------------------
\* The rounds, action by action.

\* A test function returns, raises, escapes or goes on to a tick.
LEMMA FunctionKeeps ==
  ASSUME IInv, NEW t \in Thread, CallAccessor(t) \/ CallTick(t) \/ Raise(t) \/ Escape(t) \/ Return(t)
  PROVE  Rounds'
<1> USE DEF IInv, Rounds, TypeOK, Move, Fail, barrierVars, mainVars,
            CallAccessor, CallTick, Raise, Escape, Return
<1> USE DEF Left, Dropped, Behind, Midway, Waiters
<1>1. TypeOK'
  BY TypeOutside
<1>2. Failures'
  BY DEF Failures, Caught
<1>3. Levels'
  BY DEF Failures, Levels
<1>4. Indices'
  BY DEF Indices, Levels, BeforeTick, AfterTick
<1>5. BeforeTick'
  BY DEF BeforeTick, Levels, AfterTick
<1>6. AfterTick'
  BY DEF AfterTick, Levels, BeforeTick
<1>7. Finished'
  BY DEF Finished
<1> QED
  BY <1>1, <1>2, <1>3, <1>4, <1>5, <1>6, <1>7

\* An accessor call, under the lock.
LEMMA AccessKeeps ==
  ASSUME IInv, NEW t \in Thread, Acquire(t) \/ Release(t)
  PROVE  Rounds'
<1> USE DEF IInv, Rounds, TypeOK, Move, Fail, barrierVars, mainVars,
            Acquire, Release
<1> USE DEF Left, Dropped, Behind, Midway, Waiters
<1>1. TypeOK'
  BY TypeOutside
<1>2. Failures'
  BY DEF Failures, Caught
<1>3. Levels'
  BY DEF Failures, Levels
<1>4. Indices'
  BY DEF Indices, Levels, BeforeTick, AfterTick
<1>5. BeforeTick'
  BY DEF BeforeTick, Levels, AfterTick
<1>6. AfterTick'
  BY DEF AfterTick, Levels, BeforeTick
<1>7. Finished'
  BY DEF Finished
<1> QED
  BY <1>1, <1>2, <1>3, <1>4, <1>5, <1>6, <1>7

\* Meeting a broken barrier, collecting the exception, aborting the barrier.
LEMMA ReportKeeps ==
  ASSUME IInv, NEW t \in Thread, ArriveBroken(t) \/ Report(t) \/ Abort(t)
  PROVE  Rounds'
<1> USE DEF IInv, Rounds, TypeOK, Move, Fail, barrierVars, mainVars,
            ArriveBroken, Report, Abort
<1> USE DEF Left, Dropped, Behind, Midway, Waiters
<1>1. TypeOK'
  BY TypeOutside
<1>2. Failures'
  BY DEF Failures, Caught
<1>3. Levels'
  BY DEF Failures, Levels
<1>4. Indices'
  BY DEF Indices, Levels, BeforeTick, AfterTick
<1>5. BeforeTick'
  BY DEF BeforeTick, Levels, AfterTick
<1>6. AfterTick'
  BY DEF AfterTick, Levels, BeforeTick
<1>7. Finished'
  BY DEF Finished
<1> QED
  BY <1>1, <1>2, <1>3, <1>4, <1>5, <1>6, <1>7

\* The elected thread ticks the context.
LEMMA RunTickKeeps ==
  ASSUME IInv, NEW t \in Thread, RunTick(t)
  PROVE  Rounds'
<1> USE DEF IInv, Rounds, TypeOK, Move, Fail, barrierVars, mainVars,
            RunTick
<1> USE DEF Left, Dropped, Behind, Midway, Waiters
<1>1. TypeOK'
  BY TypeOutside
<1>2. Failures'
  BY DEF Failures, Caught
<1>3. Levels'
  BY DEF Failures, Levels, Indices, BeforeTick
<1>4. Indices'
  BY DEF Indices, Levels, BeforeTick, AfterTick
<1>5. BeforeTick'
  BY DEF BeforeTick, Levels, AfterTick
<1>6. AfterTick'
  BY DEF AfterTick, Levels, BeforeTick
<1>7. Finished'
  BY DEF Finished
<1> QED
  BY <1>1, <1>2, <1>3, <1>4, <1>5, <1>6, <1>7

\* The last arrival of a round releases the wait it is at.
LEMMA ArriveLastKeeps ==
  ASSUME IInv, NEW t \in Thread, ArriveLast(t)
  PROVE  Rounds'
<1> USE DEF IInv, Rounds, TypeOK, Move, mainVars,
            ArriveLast, Leave, Pass, AfterFirstWait
<1> USE DEF Left, Dropped, Behind, Midway, Waiters
<1>1. TypeOK'
  BY TypeArriveLast
<1>2. Waiters = Thread \ {t} /\ waiting \in Nat /\ (waiting = 0 <=> Waiters = {})
  BY LastArrival, CountBounds
<1>3. \A u \in Thread \ {t} : pc[u] \in {"wait1", "wait2"}
  BY <1>2
<1>4. Failures' /\ Finished'
  BY DEF Failures, Finished
<1>5. CASE pc[t] = "arrive1"
  <2>1. ticks[t] = cycle
    BY <1>5 DEF Levels
  <2>2. \A u \in Thread \ {t} : pc[u] = "wait1" /\ ticks[u] = cycle
    BY <1>3, <1>5, <2>1 DEF BeforeTick, AfterTick, Levels
  <2>3. pc' = [pc EXCEPT ![t] = IF waiting = 0 THEN "ticking" ELSE "arrive2"]
        /\ UNCHANGED ticks
    BY <1>5
  <2>4. waiting # 0 => \E u \in Thread \ {t} : index[u] = 0
    BY <1>2 DEF Indices
  <2>5. Levels'
    BY <2>1, <2>2, <2>3 DEF Levels
  <2>6. Indices'
    BY <1>2, <2>1, <2>2, <2>3 DEF Indices
  <2>7. BeforeTick'
    BY <1>2, <2>1, <2>2, <2>3, <2>4 DEF BeforeTick
  <2>8. AfterTick'
    BY <1>2, <2>1, <2>2, <2>3 DEF AfterTick
  <2> QED
    BY <1>4, <2>5, <2>6, <2>7, <2>8
<1>6. CASE pc[t] = "arrive2"
  <2>1. ~Midway(t)
    BY <1>3, <1>6 DEF BeforeTick
  <2>2. Behind(t) /\ ticks[t] + 1 = cycle
    BY <1>6, <2>1 DEF Levels
  <2>3. \A u \in Thread \ {t} : pc[u] = "wait2" /\ Behind(u)
    BY <1>3, <2>2 DEF AfterTick
  <2>4. pc' = [pc EXCEPT ![t] = "body"] /\ ticks' = [ticks EXCEPT ![t] = cycle]
    BY <1>6, <2>2
  <2>5. Levels'
    BY <2>2, <2>3, <2>4 DEF Levels
  <2>6. Indices'
    BY <1>2, <2>3, <2>4 DEF Indices
  <2>7. BeforeTick'
    BY <1>2, <2>3, <2>4 DEF BeforeTick
  <2>8. AfterTick'
    BY <1>2, <2>3, <2>4 DEF AfterTick
  <2> QED
    BY <1>4, <2>5, <2>6, <2>7, <2>8
<1> QED
  BY <1>5, <1>6

\* An arrival that is not the last one waits.
LEMMA ArriveKeeps ==
  ASSUME IInv, NEW t \in Thread, Arrive(t)
  PROVE  Rounds'
<1> USE DEF IInv, Rounds, TypeOK, Move, mainVars, Arrive, MayEnter
<1> USE DEF Left, Dropped, Behind, Midway
<1>1. barrier = "filling" /\ t \notin Waiters /\ Waiters' = Waiters \cup {t}
  BY TypeArrive
<1>2. waiting \in Nat /\ (waiting = 0 <=> Waiters = {}) /\ Waiters \subseteq Thread
  BY CountBounds
<1>3. Failures' /\ Finished'
  BY DEF Failures, Finished
<1>4. Levels'
  BY DEF Levels
<1>5. Indices'
  <2>1. /\ index' = [index EXCEPT ![t] = waiting] /\ waiting' = waiting + 1
        /\ \A u \in Waiters : index[u] \in Nat /\ index[u] < waiting
    BY <1>1, <1>2 DEF Indices
  <2>2. /\ \A u, w \in Waiters' : u # w => index'[u] # index'[w]
        /\ \A u \in Waiters' : index'[u] < waiting'
    <3>1. index'[t] = waiting /\ \A u \in Waiters : index'[u] = index[u]
      BY <1>1, <1>2, <2>1
    <3>2. \A u \in Waiters' : index'[u] < waiting'
      BY <1>1, <1>2, <2>1, <3>1
    <3>3. \A u, w \in Waiters : u # w => index[u] # index[w]
      BY DEF Indices
    <3> QED
      BY <1>1, <1>2, <2>1, <3>1, <3>2, <3>3
  <2>3. \E u \in Waiters' : index'[u] = 0
    <3>1. CASE Waiters = {}
      BY <1>1, <1>2, <2>1, <3>1
    <3>2. CASE Waiters # {}
      BY <1>1, <1>2, <2>1, <3>2 DEF Indices
    <3> QED
      BY <3>1, <3>2
  <2>4. \A u \in Thread : pc'[u] = "wait1" /\ Behind(u)' => index'[u] # 0
    BY DEF Indices, Levels
  <2>5. \A u, w \in Thread : pc'[u] = "ticking" /\ u # w =>
          pc'[w] # "ticking" /\ (pc'[w] = "wait1" => index'[w] # 0)
    BY DEF Indices, BeforeTick, Levels
  <2> QED
    BY <2>2, <2>3, <2>4, <2>5 DEF Indices
<1>6. BeforeTick'
  BY DEF BeforeTick, Levels
<1>7. AfterTick'
  BY DEF AfterTick, Levels, BeforeTick
<1> QED
  BY <1>3, <1>4, <1>5, <1>6, <1>7

\* A released waiter leaves; the last one to leave opens the barrier again.
LEMMA WakeKeeps ==
  ASSUME IInv, NEW t \in Thread, Wake(t)
  PROVE  Rounds'
<1> USE DEF IInv, Rounds, TypeOK, Move, mainVars,
            Wake, Leave, Pass, AfterFirstWait
<1> USE DEF Left, Dropped, Behind, Midway
<1>1. t \in Waiters /\ Waiters' = Waiters \ {t}
  BY TypeLeave
<1>2. waiting - 1 \in Nat /\ (waiting - 1 = 0 <=> Waiters = {t})
  BY <1>1, LastToLeave
<1>3. /\ Waiters \subseteq Thread
      /\ \A u \in Thread : u \in Waiters <=> pc[u] \in {"wait1", "wait2"}
  BY DEF Waiters
<1>4. \/ barrier' = "filling" /\ Waiters' = {}
      \/ barrier' = "draining" /\ Waiters' # {}
  BY <1>1, <1>2
<1>5. Failures' /\ Finished'
  BY DEF Failures, Finished
<1>6. CASE pc[t] = "wait1"
  <2>1. pc' = [pc EXCEPT ![t] = IF index[t] = 0 THEN "ticking" ELSE "arrive2"]
        /\ UNCHANGED <<ticks, index>>
    BY <1>6
  <2>2. index[t] = 0 => ticks[t] = cycle
    BY <1>6 DEF Indices
  <2>3. Levels'
    BY <1>6, <2>1, <2>2 DEF Levels
  <2>4. Indices'
    BY <1>1, <1>3, <1>4, <1>6, <2>1, <2>2 DEF Indices, BeforeTick
  <2>5. /\ \A u \in Thread : pc'[u] = "wait1" => barrier' # "filling"
        /\ \A u \in Thread : pc[u] # "wait2" /\ pc'[u] # "wait2"
    BY <1>1, <1>3, <1>4, <1>6, <2>1 DEF AfterTick
  <2>6. BeforeTick'
    <3>1. \A u, w \in Thread : Midway(u)' =>
            \/ Dropped(w)'
            \/ Midway(w)'
            \/ pc'[w] = "wait1" /\ ticks'[w] = cycle' /\ barrier' # "filling"
      BY <1>6, <2>1, <2>2, <2>5 DEF BeforeTick, Levels
    <3>2. \A u, w \in Thread :
            pc'[u] = "wait1" /\ ticks'[u] = cycle' /\ barrier' = "draining" =>
              \/ Dropped(w)'
              \/ ticks'[w] = cycle' /\ pc'[w] \in {"wait1", "ticking", "arrive2"}
      BY <1>6, <2>1, <2>2, <2>5 DEF BeforeTick
    <3>3. \A u \in Thread :
            Midway(u)' \/ (pc'[u] = "wait1" /\ ticks'[u] = cycle' /\ barrier' = "draining") =>
              \E w \in Thread : \/ pc'[w] = "ticking"
                                \/ pc'[w] = "wait1" /\ index'[w] = 0
                                \/ Dropped(w)'
      BY <1>6, <2>1, <2>2, <2>5 DEF BeforeTick
    <3> QED
      BY <3>1, <3>2, <3>3 DEF BeforeTick
  <2>7. AfterTick'
    <3>1. \A u, w \in Thread :
            Behind(u)' /\ (pc'[u] \in {"wait1", "arrive2"} \/ barrier' = "filling") =>
              Dropped(w)' \/ Behind(w)'
      <4>1. \A u \in Thread : Behind(u)' => Behind(u)
        BY <1>6, <2>1, <2>2
      <4>2. \A u \in Thread : Behind(u) => Behind(t)
        BY <1>6 DEF AfterTick
      <4>3. Behind(t) => \A w \in Thread : Dropped(w) \/ Behind(w)
        BY <1>6 DEF AfterTick
      <4>4. \A w \in Thread : (Dropped(w) => Dropped(w)') /\ (Behind(w) => Behind(w)')
        BY <1>6, <2>1
      <4> QED
        BY <4>1, <4>2, <4>3, <4>4
    <3>2. \A u, w \in Thread : Behind(u)' => ~(pc'[w] = "wait1" /\ ticks'[w] = cycle')
      BY <1>6, <2>1, <2>2 DEF AfterTick
    <3> QED
      BY <2>5, <3>1, <3>2 DEF AfterTick
  <2> QED
    BY <1>5, <2>3, <2>4, <2>6, <2>7
<1>7. CASE pc[t] = "wait2"
  <2>1. ticks[t] + 1 = cycle
    BY <1>7 DEF AfterTick, Levels
  <2>2. pc' = [pc EXCEPT ![t] = "body"] /\ ticks' = [ticks EXCEPT ![t] = cycle]
    BY <1>7, <2>1
  <2>3. \A u \in Thread : pc[u] \notin {"wait1", "ticking", "arrive2"}
    BY <1>7 DEF AfterTick
  <2>4. \A u \in Waiters : Behind(u)
    BY <1>3, <1>7, <2>3 DEF AfterTick
  <2>5. Levels'
    BY <2>1, <2>2, <2>3 DEF Levels
  <2>6. Indices'
    BY <1>1, <1>3, <1>4, <2>2, <2>3 DEF Indices
  <2>7. BeforeTick'
    BY <1>3, <1>4, <1>7, <2>2, <2>3, <2>4 DEF BeforeTick
  <2>8. AfterTick'
    BY <1>1, <1>3, <1>4, <1>7, <2>2, <2>3, <2>4 DEF AfterTick, Levels
  <2> QED
    BY <1>5, <2>5, <2>6, <2>7, <2>8
<1> QED
  BY <1>6, <1>7

\* Waking from a broken barrier, and giving up a wait.
LEMMA BrokenKeeps ==
  ASSUME IInv, NEW t \in Thread, WakeBroken(t) \/ GiveUp(t)
  PROVE  Rounds'
<1> USE DEF IInv, Rounds, TypeOK, Move, Fail, barrierVars, mainVars,
            WakeBroken, GiveUp, MayGiveUp, Leave
<1> USE DEF Left, Dropped, Behind, Midway, Waiters
<1>1. TypeOK'
  BY TypeLeave
<1>2. Failures'
  BY DEF Failures, Caught
<1>3. Levels'
  BY DEF Failures, Levels
<1>4. Indices'
  BY DEF Indices, Levels, BeforeTick, AfterTick
<1>5. BeforeTick'
  BY DEF BeforeTick, Levels, AfterTick
<1>6. AfterTick'
  BY DEF AfterTick, Levels, BeforeTick
<1>7. Finished'
  BY DEF Finished
<1> QED
  BY <1>1, <1>2, <1>3, <1>4, <1>5, <1>6, <1>7

\* The main thread only joins and raises.
LEMMA MainKeeps ==
  ASSUME IInv, Join \/ UNCHANGED vars
  PROVE  Rounds'
<1> USE DEF IInv, Rounds, Left, Dropped, Behind, Midway, Waiters
<1>1. UNCHANGED <<pc, index, barrier, waiting, cycle, ticks, failure, errors>>
  BY DEF Join, vars, barrierVars
<1>2. Failures' /\ Levels' /\ Indices' /\ BeforeTick' /\ AfterTick'
  BY <1>1 DEF Failures, Levels, Indices, BeforeTick, AfterTick
<1>3. Finished'
  BY <1>1 DEF Finished, Join, Conclude, vars
<1> QED
  BY <1>2, <1>3

\* Before the first tick everyone is level with the context.
LEMMA RoundsInit == Init => Rounds
BY DEF Init, Rounds, Failures, Levels, Indices, BeforeTick, AfterTick, Finished,
       Left, Dropped, Behind, Midway, Waiters

\* Every step.
LEMMA RoundsStep == IInv /\ [Next]_vars => IInv'
<1> SUFFICES ASSUME IInv, [Next]_vars PROVE Rounds'
  BY TypeStep DEF IInv
<1>1. ASSUME NEW t \in Thread, CallAccessor(t) \/ CallTick(t) \/ Raise(t) \/ Escape(t) \/ Return(t)
      PROVE  Rounds'
  BY <1>1, FunctionKeeps
<1>2. ASSUME NEW t \in Thread, Carry(t) PROVE Rounds'
  BY <1>2, AccessKeeps, ReportKeeps, RunTickKeeps, ArriveLastKeeps, ArriveKeeps,
     WakeKeeps, BrokenKeeps DEF Carry
<1>3. CASE Join \/ UNCHANGED vars
  BY <1>3, MainKeeps
<1> QED
  BY <1>1, <1>2, <1>3 DEF Next, Over

\* The rounds of the barrier: IInv, the strengthening the theorems below follow
\* from, holds in every state, whatever the threads do and whenever waits time out.
THEOREM RoundsCorrect == Spec => []IInv
<1>1. Init => IInv
  BY TypeInit, RoundsInit DEF IInv
<1> QED
  BY <1>1, RoundsStep, PTL DEF Spec

-----------------------------------------------------------------------------

\* TickExclusive of ParallelTestbench: while one thread is in ctx.tick no other
\* is in an accessor, in its function, or in a second tick.
THEOREM TickIsExclusive == Spec => []TickExclusive
<1>1. IInv => TickExclusive
  BY DEF IInv, Rounds, Levels, Indices, BeforeTick, TickExclusive, Acting, Midway,
         Dropped, Left, Behind
<1> QED
  BY <1>1, RoundsCorrect, PTL

\* InStep of ParallelTestbench: a thread in its function has come back from as
\* many ticks as the context has made.
THEOREM ThreadsInStep == Spec => []InStep
<1>1. IInv => InStep
  BY DEF IInv, Rounds, Levels, InStep, Acting, Behind, Left, Dropped
<1> QED
  BY <1>1, RoundsCorrect, PTL

\* PassedTogether of ParallelTestbench: the call raises exactly when an Exception
\* ended some function, and passes only when all functions ended after the same
\* number of ticks, by returning or by an exception the worker does not catch.
THEOREM PassMeansTogether == Spec => []PassedTogether
<1>1. IInv => PassedTogether
  <2> SUFFICES ASSUME IInv, result # "running"
               PROVE  /\ result = "raised" <=> \E t \in Thread : failure[t] \in Caught
                      /\ result = "passed" => \A t \in Thread : ticks[t] = cycle
    BY DEF PassedTogether
  <2>1. /\ \A t \in Thread : pc[t] = "ended"
        /\ result = "passed" <=> errors = {}
        /\ result \in {"passed", "raised"}
    BY DEF IInv, TypeOK, Rounds, Finished
  <2>2. \A t \in Thread : t \in errors <=> failure[t] \in Caught
    BY <2>1 DEF IInv, Rounds, Failures
  <2>3. errors = {} <=> \A t \in Thread : failure[t] \notin Caught
    BY <2>2 DEF IInv, TypeOK
  <2>4. ASSUME errors = {} PROVE \A t \in Thread : ticks[t] = cycle
    BY <2>1, <2>3, <2>4 DEF IInv, Rounds, Levels, Left, Dropped, Caught
  <2> QED
    BY <2>1, <2>3, <2>4
<1> QED
  BY <1>1, RoundsCorrect, PTL

-----------------------------------------------------------------------------
\* Lock-step.

\* Past the first wait and before the tick, even the threads that dropped out
\* have come back from as many ticks as the context has made.
AllLevel ==
  \A t, u \in Thread :
    Midway(t) \/ (pc[t] = "wait1" /\ ticks[t] = cycle /\ barrier = "draining") =>
      ticks[u] = cycle

\* Nobody has come back from a tick.
LEMMA AllLevelInit == Init => AllLevel
BY DEF Init, AllLevel

\* Every step.
LEMMA AllLevelStep == IInv /\ AllLevel /\ [Next]_vars => AllLevel'
<1> SUFFICES ASSUME IInv, AllLevel, [Next]_vars PROVE AllLevel'
  OBVIOUS
<1> USE DEF Move, Fail, Pass, AfterFirstWait, Leave, barrierVars, mainVars, Midway, AllLevel
<1>1. TypeOK /\ Levels /\ Indices /\ BeforeTick /\ AfterTick
  BY DEF IInv, Rounds
<1>2. ASSUME NEW t \in Thread,
             \/ CallAccessor(t) \/ CallTick(t) \/ Raise(t) \/ Escape(t) \/ Return(t)
             \/ Acquire(t) \/ Release(t) \/ ArriveBroken(t) \/ Report(t) \/ Abort(t)
             \/ WakeBroken(t) \/ GiveUp(t) \/ Arrive(t)
      PROVE  AllLevel'
  <2>1. UNCHANGED <<ticks, cycle>>
    BY <1>2 DEF CallAccessor, CallTick, Raise, Escape, Return, Acquire, Release,
           ArriveBroken, Report, Abort, WakeBroken, GiveUp, Arrive
  <2>2. barrier' = "draining" => barrier = "draining"
    BY <1>2 DEF CallAccessor, CallTick, Raise, Escape, Return, Acquire, Release,
           ArriveBroken, Report, Abort, WakeBroken, GiveUp, Arrive
  <2>3. \A u \in Thread :
          /\ pc'[u] \in {"ticking", "arrive2"} => pc'[u] = pc[u]
          /\ pc'[u] = "wait2" => pc[u] \in {"arrive2", "wait2"}
          /\ pc'[u] = "wait1" => pc[u] = "wait1" \/ barrier' # "draining"
    BY <1>1, <1>2 DEF TypeOK, CallAccessor, CallTick, Raise, Escape, Return, Acquire, Release,
           ArriveBroken, Report, Abort, WakeBroken, GiveUp, Arrive, MayEnter
  <2> QED
    BY <2>1, <2>2, <2>3
<1>3. ASSUME NEW t \in Thread, RunTick(t) PROVE AllLevel'
  <2>1. \A u \in Thread : ticks[u] = cycle
    BY <1>1, <1>3 DEF RunTick, Levels, Behind, Left, Dropped
  <2>2. UNCHANGED <<ticks, barrier>> /\ cycle \in Nat
    BY <1>1, <1>3, CyclesAssumption DEF RunTick, TypeOK
  <2>3. CASE cycle' = cycle + 1
    BY <2>1, <2>2, <2>3
  <2>4. CASE cycle' = cycle
    BY <2>1, <2>2, <2>4
  <2> QED
    BY <1>3, <2>3, <2>4 DEF RunTick
<1>4. ASSUME NEW t \in Thread, ArriveLast(t) PROVE AllLevel'
  <2>1. Waiters = Thread \ {t}
    BY <1>1, <1>4, LastArrival DEF ArriveLast, Waiters
  <2>2. \A u \in Thread \ {t} : pc[u] \in {"wait1", "wait2"}
    BY <2>1 DEF Waiters
  <2>3. CASE pc[t] = "arrive1"
    <3>1. \A u \in Thread : ticks[u] = cycle
      BY <1>1, <1>4, <2>2, <2>3 DEF ArriveLast, Levels, BeforeTick, AfterTick, Behind,
             Left, Dropped
    <3> QED
      BY <1>1, <1>4, <2>3, <3>1 DEF ArriveLast
  <2>4. CASE pc[t] = "arrive2"
    <3>1. ~Midway(t)
      BY <1>1, <1>4, <2>2, <2>4 DEF ArriveLast, BeforeTick, Dropped, Left
    <3>2. \A u \in Thread : Behind(u)
      BY <1>1, <1>4, <2>2, <2>4, <3>1 DEF ArriveLast, AfterTick, Behind, Left, Dropped
    <3>3. \A u \in Thread \ {t} : pc'[u] = pc[u] /\ ticks'[u] = ticks[u]
      BY <1>1, <1>4 DEF ArriveLast, TypeOK
    <3>4. pc'[t] = "body" /\ cycle' = cycle
      BY <1>1, <1>4, <2>4 DEF ArriveLast, TypeOK
    <3> QED
      BY <3>2, <3>3, <3>4 DEF Behind
  <2> QED
    BY <1>4, <2>3, <2>4 DEF ArriveLast
<1>5. ASSUME NEW t \in Thread, Wake(t) PROVE AllLevel'
  <2>1. CASE pc[t] = "wait1"
    <3>1. pc' = [pc EXCEPT ![t] = AfterFirstWait(index[t])] /\ UNCHANGED <<ticks, cycle>>
      BY <1>5, <2>1 DEF Wake
    <3> QED
      BY <1>1, <1>5, <2>1, <3>1 DEF Wake, TypeOK
  <2>2. CASE pc[t] = "wait2"
    <3>1. Behind(t) /\ \A u \in Thread : pc[u] \notin {"wait1", "ticking", "arrive2"}
      BY <1>1, <1>5, <2>2 DEF Wake, AfterTick
    <3>2. \A u \in Thread : pc[u] = "wait2" => Behind(u)
      BY <1>1, <1>5 DEF Wake, AfterTick
    <3>3. \A u \in Thread \ {t} : pc'[u] = pc[u] /\ ticks'[u] = ticks[u]
      BY <1>1, <1>5 DEF Wake, TypeOK
    <3>4. pc'[t] = "body" /\ cycle' = cycle
      BY <1>1, <1>5, <2>2 DEF Wake, TypeOK
    <3> QED
      BY <3>1, <3>2, <3>3, <3>4 DEF Behind
  <2> QED
    BY <1>5, <2>1, <2>2 DEF Wake
<1>6. CASE Join \/ UNCHANGED vars
  BY <1>6 DEF Join, vars
<1> QED
  BY <1>2, <1>3, <1>4, <1>5, <1>6 DEF Next, Carry, Over

\* How the abstract mode of a thread follows from where it is.
LEMMA ModeOf ==
  ASSUME TypeOK, Failures
  PROVE  \A t \in Thread :
           /\ pc[t] \in {"body", "acquire", "access"} => Mode[t] = "acting"
           /\ pc[t] \in {"arrive1", "wait1", "ticking", "arrive2", "wait2"} => Mode[t] = "parked"
           /\ Dropped(t) => Mode[t] = "dropped"
           /\ Left(t) /\ ~Dropped(t) => Mode[t] = "gone"
BY DEF Mode, Acting, AtTick, Dropped, Left, Failures, Caught

\* The abstract bench starts where the call does.
LEMMA LockStepInit == Init => Bench!Init
BY DEF Init, Bench!Init, Mode, Acting, AtTick

\* A step that leaves every other thread alone changes the modes at one place.
LEMMA ModeElsewhere ==
  ASSUME TypeOK, NEW t \in Thread,
         \A u \in Thread \ {t} : pc'[u] = pc[u] /\ failure'[u] = failure[u]
  PROVE  Mode' = [Mode EXCEPT ![t] = Mode'[t]]
<1>1. \A u \in Thread \ {t} : Mode'[u] = Mode[u]
  BY DEF Mode, Acting, AtTick
<1>2. Mode' = [u \in Thread |-> Mode'[u]] /\ Mode = [u \in Thread |-> Mode[u]]
  BY DEF Mode
<1> QED
  BY <1>1, <1>2

\* A tick of the context is the abstract tick; every other step is an abstract one or a stutter.
LEMMA LockStepStep ==
  IInv /\ IInv' /\ AllLevel /\ [Next]_vars => [Bench!Next]_(Bench!absVars)
<1> SUFFICES ASSUME IInv, IInv', AllLevel, [Next]_vars
             PROVE  [Bench!Next]_(Bench!absVars)
  OBVIOUS
<1> USE DEF Move, Fail, Pass, AfterFirstWait, Leave, barrierVars, mainVars, Left, Dropped
<1>1. TypeOK /\ Failures /\ Levels /\ BeforeTick /\ AfterTick /\ TypeOK' /\ Failures'
  BY DEF IInv, Rounds
<1>2. ASSUME NEW t \in Thread,
             CallAccessor(t) \/ CallTick(t) \/ Raise(t) \/ Escape(t) \/ Return(t) \/ Carry(t)
      PROVE  [Bench!Next]_(Bench!absVars)
  <2>1. \A u \in Thread \ {t} : pc'[u] = pc[u] /\ failure'[u] = failure[u]
    BY <1>1, <1>2 DEF TypeOK, CallAccessor, CallTick, Raise, Escape, Return, Carry, Acquire,
           Release, ArriveBroken, Report, Abort, WakeBroken, GiveUp, Arrive,
           ArriveLast, Wake, RunTick
  <2>2. Mode' = [Mode EXCEPT ![t] = Mode'[t]] /\ (Mode'[t] = Mode[t] => Mode' = Mode)
    <3>1. Mode' = [Mode EXCEPT ![t] = Mode'[t]]
      BY <1>1, <2>1, ModeElsewhere
    <3>2. Mode = [u \in Thread |-> Mode[u]]
      BY DEF Mode
    <3> QED
      BY <3>1, <3>2
  <2>3. CASE CallTick(t)
    <3>1. Mode[t] = "acting" /\ Mode'[t] = "parked" /\ UNCHANGED <<ticks, cycle>>
      BY <1>1, <2>3, ModeOf DEF CallTick, TypeOK, Mode, Acting, AtTick
    <3> QED
      BY <2>2, <3>1 DEF Bench!Next, Bench!Park
  <2>4. CASE Raise(t) \/ Escape(t) \/ Return(t) \/ (Release(t) /\ pc'[t] # "body")
    <3>1. Mode[t] = "acting" /\ UNCHANGED <<ticks, cycle>>
      BY <1>1, <2>4, ModeOf DEF Raise, Escape, Return, Release
    <3>2. Mode'[t] = "gone"
      BY <1>1, <2>4 DEF Raise, Escape, Return, Release, TypeOK, Mode, Acting, AtTick, Failures, Caught
    <3> QED
      BY <2>2, <3>1, <3>2 DEF Bench!Next, Bench!Leave
  <2>5. CASE CallAccessor(t) \/ Acquire(t) \/ (Release(t) /\ pc'[t] = "body") \/ Arrive(t)
             \/ Report(t) \/ Abort(t)
    <3>1. Mode'[t] = Mode[t] /\ UNCHANGED <<ticks, cycle>>
      BY <1>1, <2>5 DEF CallAccessor, Acquire, Release, Arrive, Report, Abort, TypeOK,
             Mode, Acting, AtTick, Failures, Caught
    <3> QED
      BY <2>2, <3>1 DEF Bench!absVars
  <2>6. CASE ArriveBroken(t) \/ WakeBroken(t) \/ GiveUp(t) \/ (RunTick(t) /\ cycle' = cycle)
    <3>1. Mode[t] = "parked" /\ UNCHANGED <<ticks, cycle>>
      BY <1>1, <2>6, ModeOf DEF ArriveBroken, WakeBroken, GiveUp, RunTick
    <3>2. Mode'[t] = "dropped"
      BY <1>1, <2>6, CyclesAssumption DEF ArriveBroken, WakeBroken, GiveUp, RunTick, TypeOK, Mode, Acting, AtTick
    <3> QED
      BY <2>2, <3>1, <3>2 DEF Bench!Next, Bench!Drop
  <2>7. CASE RunTick(t) /\ cycle' # cycle
    <3>1. cycle < MaxCycles /\ cycle' = cycle + 1 /\ UNCHANGED ticks
          /\ pc[t] = "ticking" /\ pc'[t] = "arrive2" /\ failure' = failure
      BY <1>1, <2>7 DEF RunTick, TypeOK
    <3>2. Mode[t] = "parked" /\ Mode'[t] = "parked"
      BY <1>1, <3>1, ModeOf DEF Mode, Acting, AtTick
    <3>3. Midway(t)
      BY <1>1, <3>1 DEF Levels, Behind, Midway
    <3>4. \A u \in Thread : ticks[u] = cycle /\ Mode[u] \in {"parked", "dropped"}
      BY <1>1, <3>3, ModeOf DEF AllLevel, BeforeTick, Midway
    <3> QED
      BY <2>2, <3>1, <3>2, <3>4 DEF Bench!Next, Bench!Tick
  <2>8. CASE ArriveLast(t) \/ Wake(t)
    <3>1. CASE pc[t] \in {"arrive1", "wait1"}
      <4>1. Mode'[t] = Mode[t] /\ UNCHANGED <<ticks, cycle>>
        BY <1>1, <2>8, <3>1 DEF ArriveLast, Wake, TypeOK, Mode, Acting, AtTick
      <4> QED
        BY <2>2, <4>1 DEF Bench!absVars
    <3>2. CASE pc[t] \in {"arrive2", "wait2"}
      <4>1. /\ pc'[t] = "body" /\ UNCHANGED cycle
            /\ ticks' = [ticks EXCEPT ![t] = ticks[t] + 1]
        BY <1>1, <2>8, <3>2 DEF ArriveLast, Wake, TypeOK
      <4>2. Mode[t] = "parked"
        BY <1>1, <3>2, ModeOf
      <4>3. Mode'[t] = "acting"
        BY <1>2, <4>1 DEF Mode, Acting, AtTick
      <4>4. ticks'[t] = cycle
        <5>1. Levels'
          BY DEF IInv, Rounds
        <5> QED
          BY <4>1, <5>1 DEF Levels, Behind
      <4>5. ticks[t] < cycle
        BY <1>1, <4>1, <4>4 DEF TypeOK
      <4> QED
        BY <2>2, <4>1, <4>2, <4>3, <4>5 DEF Bench!Next, Bench!Resume
    <3> QED
      BY <2>8, <3>1, <3>2 DEF ArriveLast, Wake
  <2> QED
    BY <1>2, <2>3, <2>4, <2>5, <2>6, <2>7, <2>8 DEF Carry
<1>3. CASE Join \/ UNCHANGED vars
  <2>1. UNCHANGED <<pc, failure, ticks, cycle>>
    BY <1>3 DEF Join, vars
  <2> QED
    BY <2>1 DEF Bench!absVars, Mode, Acting, AtTick
<1> QED
  BY <1>2, <1>3 DEF Next, Over

\* ImplementsLockStep of ParallelTestbench: the lock, the two waits at the
\* barrier and the elected thread implement LockStep, with exceptions, caught or
\* not, timeouts and early returns at every point.
THEOREM BarrierImplementsLockStep == Spec => ImplementsLockStep
<1>1. Init => IInv /\ AllLevel /\ Bench!Init
  BY TypeInit, RoundsInit, AllLevelInit, LockStepInit DEF IInv
<1> QED
  BY <1>1, RoundsStep, AllLevelStep, LockStepStep, PTL DEF Spec, ImplementsLockStep, Bench!Spec
=============================================================================
