------------------------- MODULE ParallelTestbench -------------------------
(***************************************************************************)
(* run_parallel_testbenches and _ParallelView (testbench.py): one thread   *)
(* per test function, all on one TestbenchContext.  Accessors (set, get,   *)
(* force, the assertions, ...) take a shared lock.  tick() does not: a     *)
(* threading.Barrier is waited on before and after it, and the thread the  *)
(* first wait gave index 0 runs ctx.tick in between.                       *)
(*                                                                         *)
(* A test function is any sequence of accessor calls and ticks that ends   *)
(* by returning or by an exception; it lets the exceptions of the calls it *)
(* makes pass.  tick(n) is n times tick(1).  The worker catches Exception: *)
(* a function may also leave through another BaseException, SystemExit or  *)
(* pytest.fail say, which ends its thread and nothing else.  The accessors *)
(* and ctx.tick raise Exceptions only, and interrupts that reach a thread  *)
(* from outside are left out.                                              *)
(*                                                                         *)
(* The barrier is Python's: state "draining" from the last arrival until   *)
(* all have left, "broken" for good once a wait has timed out or abort was *)
(* called.  Each of its methods holds one condition variable's lock, so    *)
(* arriving, waking up and giving up are single steps.                     *)
(***************************************************************************)
EXTENDS Integers, FiniteSets

CONSTANTS
  Thread,    \* the indices of the test functions
  MaxCycles  \* the max_cycles of the context

ASSUME ThreadAssumption == Thread \subseteq Nat /\ IsFiniteSet(Thread) /\ Thread # {}
ASSUME CyclesAssumption == MaxCycles \in Nat

VARIABLES
  pc,        \* where each thread is
  index,     \* idx: what its last arrival at the barrier gave each thread
  barrier,   \* "filling", "draining" or "broken"
  waiting,   \* the barrier's count: threads that arrived and have not left
  lock,      \* the threads holding the shared lock
  cycle,     \* ctx._cycle
  ticks,     \* how many ticks each thread has come back from
  failure,   \* the exception that ended each thread's function
  errors,    \* the threads whose exceptions have been collected
  result,    \* of the call: "running", "passed" or "raised"
  blamed     \* the thread whose exception the call raises

vars == <<pc, index, barrier, waiting, lock, cycle, ticks, failure, errors,
          result, blamed>>

-----------------------------------------------------------------------------

Init ==
  /\ pc = [t \in Thread |-> "body"]
  /\ index = [t \in Thread |-> 0]
  /\ barrier = "filling" /\ waiting = 0
  /\ lock = {}
  /\ cycle = 0
  /\ ticks = [t \in Thread |-> 0]
  /\ failure = [t \in Thread |-> "none"]
  /\ errors = {}
  /\ result = "running" /\ blamed = {}

Move(t, to) == pc' = [pc EXCEPT ![t] = to]

\* An exception leaves t's function.
Fail(t, kind) ==
  Move(t, "report") /\ failure' = [failure EXCEPT ![t] = kind]

barrierVars == <<index, barrier, waiting>>
mainVars    == <<result, blamed>>

\* The test function calls an accessor or tick(), raises or returns.
CallAccessor(t) ==
  /\ pc[t] = "body" /\ Move(t, "acquire")
  /\ UNCHANGED <<barrierVars, lock, cycle, ticks, failure, errors, mainVars>>

CallTick(t) ==
  /\ pc[t] = "body" /\ Move(t, "arrive1")
  /\ UNCHANGED <<barrierVars, lock, cycle, ticks, failure, errors, mainVars>>

Raise(t) ==
  /\ pc[t] = "body" /\ Fail(t, "own")
  /\ UNCHANGED <<barrierVars, lock, cycle, ticks, errors, mainVars>>

\* Not an Exception: nothing collects it and nobody aborts the barrier.
Escape(t) ==
  /\ pc[t] = "body" /\ Move(t, "ended")
  /\ failure' = [failure EXCEPT ![t] = "exit"]
  /\ UNCHANGED <<barrierVars, lock, cycle, ticks, errors, mainVars>>

Return(t) ==
  /\ pc[t] = "body" /\ Move(t, "ended")
  /\ UNCHANGED <<barrierVars, lock, cycle, ticks, failure, errors, mainVars>>

\* with self._lock: the accessor runs on the context, and may raise.
Acquire(t) ==
  /\ pc[t] = "acquire" /\ lock = {}
  /\ lock' = {t} /\ Move(t, "access")
  /\ UNCHANGED <<barrierVars, cycle, ticks, failure, errors, mainVars>>

Release(t) ==
  /\ pc[t] = "access"
  /\ lock' = lock \ {t}
  /\ \/ Move(t, "body") /\ UNCHANGED failure
     \/ Fail(t, "own")
  /\ UNCHANGED <<barrierVars, cycle, ticks, errors, mainVars>>

-----------------------------------------------------------------------------
\* Barrier.wait

\* Mutants: only the elected thread waits for the tick; the election counts from
\* one, so that nobody ticks.
NoSecondWait(i) == IF i = 0 THEN "ticking" ELSE "body"
ElectsNobody(i) == IF i = Cardinality(Thread) THEN "ticking" ELSE "arrive2"

AfterFirstWait(i) == IF i = 0 THEN "ticking" ELSE "arrive2"

\* t goes on from the barrier: from the first wait to the tick or the second
\* wait, from the second back into its function.
Pass(t, i) ==
  \/ /\ pc[t] \in {"arrive1", "wait1"}
     /\ Move(t, AfterFirstWait(i))
     /\ UNCHANGED ticks
  \/ /\ pc[t] \in {"arrive2", "wait2"}
     /\ Move(t, "body")
     /\ ticks' = [ticks EXCEPT ![t] = @ + 1]

\* Mutant: a thread that leaves is still counted.
LeaveCounted(state, remaining) ==
  /\ waiting' = remaining + 1
  /\ barrier' = IF remaining = 0 /\ state = "draining" THEN "filling" ELSE state

\* The last of the parties to leave opens the barrier for the next use.
Leave(state, remaining) ==
  /\ waiting' = remaining
  /\ barrier' = IF remaining = 0 /\ state = "draining" THEN "filling" ELSE state

\* Mutant: an arrival does not wait for the barrier to drain.
MayEnterDraining == TRUE

MayEnter == barrier # "draining"

\* The last party to arrive releases the others and goes on at once.
ArriveLast(t) ==
  /\ pc[t] \in {"arrive1", "arrive2"}
  /\ barrier = "filling" /\ waiting + 1 = Cardinality(Thread)
  /\ index' = [index EXCEPT ![t] = waiting]
  /\ Pass(t, waiting)
  /\ Leave("draining", waiting)
  /\ UNCHANGED <<lock, cycle, failure, errors, mainVars>>

\* Every other one waits; nobody enters while the barrier drains.
Arrive(t) ==
  /\ pc[t] \in {"arrive1", "arrive2"}
  /\ MayEnter /\ barrier # "broken"
  /\ waiting + 1 < Cardinality(Thread)
  /\ index' = [index EXCEPT ![t] = waiting]
  /\ waiting' = waiting + 1
  /\ Move(t, IF pc[t] = "arrive1" THEN "wait1" ELSE "wait2")
  /\ UNCHANGED <<barrier, lock, cycle, ticks, failure, errors, mainVars>>

ArriveBroken(t) ==
  /\ pc[t] \in {"arrive1", "arrive2"} /\ barrier = "broken"
  /\ Fail(t, "broken")
  /\ UNCHANGED <<barrierVars, lock, cycle, ticks, errors, mainVars>>

\* A waiter wakes up: the barrier has been released, or broken, even if it was
\* released before it broke.
Wake(t) ==
  /\ pc[t] \in {"wait1", "wait2"} /\ barrier = "draining"
  /\ Pass(t, index[t])
  /\ Leave(barrier, waiting - 1)
  /\ UNCHANGED <<index, lock, cycle, failure, errors, mainVars>>

WakeBroken(t) ==
  /\ pc[t] \in {"wait1", "wait2"} /\ barrier = "broken"
  /\ Fail(t, "broken")
  /\ Leave(barrier, waiting - 1)
  /\ UNCHANGED <<index, lock, cycle, ticks, errors, mainVars>>

\* Mutant: the wait has no timeout.
WaitForever(t) == FALSE

\* After wait_s a waiter that has not been released may give up.
MayGiveUp(t) == barrier = "filling"

\* It breaks the barrier for everybody.
GiveUp(t) ==
  /\ pc[t] \in {"wait1", "wait2"} /\ MayGiveUp(t)
  /\ Fail(t, "broken")
  /\ Leave("broken", waiting - 1)
  /\ UNCHANGED <<index, lock, cycle, ticks, errors, mainVars>>

-----------------------------------------------------------------------------
\* The tick, the worker's except clause and the calling thread.

\* ctx.tick(1), without the lock: it refuses to pass max_cycles, and the
\* simulation may raise.
RunTick(t) ==
  /\ pc[t] = "ticking"
  /\ \/ /\ cycle < MaxCycles
        /\ cycle' = cycle + 1 /\ Move(t, "arrive2") /\ UNCHANGED failure
     \/ Fail(t, "tick") /\ UNCHANGED cycle
  /\ UNCHANGED <<barrierVars, lock, ticks, errors, mainVars>>

Report(t) ==
  /\ pc[t] = "report"
  /\ errors' = errors \cup {t}
  /\ Move(t, "abort")
  /\ UNCHANGED <<barrierVars, lock, cycle, ticks, failure, mainVars>>

Abort(t) ==
  /\ pc[t] = "abort"
  /\ barrier' = "broken"
  /\ Move(t, "ended")
  /\ UNCHANGED <<index, waiting, lock, cycle, ticks, failure, errors, mainVars>>

\* The thread with the smallest index among those that failed.
FirstFailed(t) == t \in errors /\ \A u \in errors : t <= u

\* Mutant: the collected exceptions are not looked at.
ResultIgnoringErrors == result' = "passed" /\ blamed' = {}

Conclude ==
  IF errors = {} THEN result' = "passed" /\ blamed' = {}
  ELSE result' = "raised" /\ blamed' = { t \in errors : FirstFailed(t) }

\* Every thread has been joined.
Join ==
  /\ result = "running" /\ \A t \in Thread : pc[t] = "ended"
  /\ Conclude
  /\ UNCHANGED <<pc, barrierVars, lock, cycle, ticks, failure, errors>>

Over == result # "running" /\ UNCHANGED vars

\* The steps in which the runtime alone carries t forward.
Carry(t) ==
  \/ Acquire(t) \/ Release(t)
  \/ ArriveLast(t) \/ Arrive(t) \/ ArriveBroken(t)
  \/ Wake(t) \/ WakeBroken(t) \/ GiveUp(t)
  \/ RunTick(t) \/ Report(t) \/ Abort(t)

Next ==
  \/ \E t \in Thread :
       \/ CallAccessor(t) \/ CallTick(t)
       \/ Raise(t) \/ Escape(t) \/ Return(t)
       \/ Carry(t)
  \/ Join \/ Over

\* The interpreter runs every thread, waits time out, and no test function goes
\* on calling accessors for ever.
Fairness ==
  /\ \A t \in Thread : /\ WF_vars(Carry(t))
                       /\ SF_vars(CallTick(t) \/ Raise(t) \/ Escape(t) \/ Return(t))
  /\ WF_vars(Join)

Spec == Init /\ [][Next]_vars /\ Fairness

-----------------------------------------------------------------------------
\* Properties.

Place == {"body", "acquire", "access", "arrive1", "wait1", "ticking", "arrive2",
          "wait2", "report", "abort", "ended"}

Acting(t) == pc[t] \in {"body", "acquire", "access"}

\* Every variable has its type, and the barrier's count is the number of threads
\* inside it.
TypeOK ==
  /\ pc \in [Thread -> Place]
  /\ index \in [Thread -> Nat]
  /\ barrier \in {"filling", "draining", "broken"}
  /\ waiting = Cardinality({ t \in Thread : pc[t] \in {"wait1", "wait2"} })
  /\ lock = { t \in Thread : pc[t] = "access" }
  /\ cycle \in 0 .. MaxCycles
  /\ ticks \in [Thread -> Nat]
  /\ failure \in [Thread -> {"none", "own", "exit", "tick", "broken"}]
  /\ errors \subseteq Thread
  /\ result \in {"running", "passed", "raised"}
  /\ blamed \subseteq Thread

\* ctx.tick runs without the lock, and yet no thread is in an accessor, or can
\* enter one, and none runs a second tick, while it does.
TickExclusive ==
  \A t \in Thread : pc[t] = "ticking" =>
    \A u \in Thread \ {t} : ~Acting(u) /\ pc[u] # "ticking"

\* Lock-step: a thread in its function has come back from as many ticks as the
\* simulation has made, so no thread acts on a cycle another has left behind.
InStep == \A t \in Thread : Acting(t) => ticks[t] = cycle

\* What the worker catches: exceptions of a function or an accessor, of the tick,
\* and of a broken barrier.
Caught == {"own", "tick", "broken"}

\* A call raises exactly when an Exception ended some function, a broken wait
\* included, and passes only when all functions ended after the same number of
\* ticks.  It may pass although a function left through SystemExit or pytest.fail,
\* which the worker does not catch, but not if another one called a further tick.
PassedTogether ==
  result # "running" =>
    /\ result = "raised" <=> \E t \in Thread : failure[t] \in Caught
    /\ result = "passed" => \A t \in Thread : ticks[t] = cycle

\* When the first exception collected is one a function or the simulation raised,
\* the call does not raise a BrokenBarrierError that followed from it in another
\* thread ("Raises the first exception from any thread if a testbench fails").
RaisesOriginal ==
  \A t \in Thread :
    [](errors = {t} /\ failure[t] # "broken" =>
         [](result = "raised" => \A u \in blamed : failure[u] # "broken"))

\* No failure, early return or slow tick hangs the call.
Concludes == <>(result # "running")

AtTick == {"arrive1", "wait1", "ticking", "arrive2", "wait2"}

Mode ==
  [t \in Thread |->
     IF Acting(t) THEN "acting"
     ELSE IF pc[t] \in AtTick THEN "parked"
     ELSE IF failure[t] \in {"broken", "tick"} THEN "dropped" ELSE "gone"]

Bench == INSTANCE LockStep WITH mode <- Mode, done <- ticks

\* The barrier, the lock and the elected thread implement lock-step: the context
\* ticks once per round, while every thread stands at its tick or has dropped out
\* of it ("the simulation advances in lock-step", testbench.py).
ImplementsLockStep == Bench!Spec
=============================================================================
