--------------------------- MODULE JobSystemProofs ---------------------------
(***************************************************************************)
(* Proofs about JobSystem, for every number of workers, jobs, loops and     *)
(* indices: the inductive invariant Inv, the invariants it gives, and that  *)
(* parallelFor implements ParallelLoops.                                    *)
(***************************************************************************)
EXTENDS JobSystem, FiniteSetTheorems, SequenceTheorems, TLAPS

counted(l) == {t \in Threads : at[l][t] \in Counted}
busy == {w \in Workers : worker[w] = "busy"}

(* The inductive invariant. *)

\* Whoever is in body holds an index that was taken and whose call has begun.
BodyHoldsIndex ==
  \A l \in Loops, t \in Threads : at[l][t] \in InBody =>
    index[l][t] \in Indices(l) /\ index[l][t] < next[l] /\ visit[l][index[l][t]] = "running"

\* No two threads hold the same index.
IndexHeldOnce ==
  \A l \in Loops : \A t, u \in Threads :
    at[l][t] \in InBody /\ at[l][u] \in InBody /\ index[l][t] = index[l][u] => t = u

\* The indices before nextIndex were taken, once; the others wait.
IndicesInOrder ==
  \A l \in Loops : \A i \in Indices(l) :
    visit[l][i] # "twice" /\ (visit[l][i] = "waiting" <=> i >= next[l])

\* A call of body that has begun and not returned is some thread's.
RunningHeld ==
  \A l \in Loops : \A i \in Indices(l) :
    visit[l][i] = "running" => \E t \in Threads : at[l][t] \in InBody /\ index[l][t] = i

\* activeHelpers is the number of helpers that counted themselves and have not left.
HelpersCounted == \A l \in Loops : active[l] = Cardinality(counted(l))

\* A caller that waits for its helpers, or that has returned, left no index to take.
NoIndexLeft ==
  \A l \in Loops :
    call[l] = "returned" \/ (\E t \in Threads : at[l][t] \in {"watch", "check", "asleep"})
      => next[l] >= Count[l]

\* A loop has one caller, while it is called.
OneCaller ==
  \A l \in Loops : \A t \in Threads : at[l][t] \in CallerAt =>
    call[l] = "called" /\ \A u \in Threads : at[l][u] \in CallerAt => u = t

\* Nobody is in a loop that was not called, nor about to be.
NobodyBefore ==
  \A l \in Loops : call[l] = "uncalled" =>
    (\A t \in Threads : at[l][t] = "out") /\ \A k \in DOMAIN queue : queue[k] # l

\* A worker is in loops only while it runs a job.
FreeWorkers == \A w \in Workers : worker[w] # "busy" => InNoLoop(w)

Inv ==
  /\ TypeOK /\ RunningCounted /\ HelpersCounted
  /\ BodyHoldsIndex /\ IndexHeldOnce /\ IndicesInOrder /\ RunningHeld
  /\ NoIndexLeft /\ OneCaller /\ NobodyBefore /\ FreeWorkers

-----------------------------------------------------------------------------
(* Lemmas *)

Places == CallerAt \cup HelperAt \cup {"out"}

\* There are finitely many threads to count.
LEMMA Finite ==
  /\ IsFiniteSet(Workers) /\ IsFiniteSet(Threads)
  /\ \A l : IsFiniteSet(counted(l))
  /\ IsFiniteSet(busy)
<1>1. IsFiniteSet(Workers)
  BY JobSystemAssumption
<1>2. IsFiniteSet(Threads)
  BY <1>1, FS_AddElement DEF Threads
<1>3. ASSUME NEW l PROVE IsFiniteSet(counted(l))
  BY <1>2, FS_Subset DEF counted
<1>4. IsFiniteSet(busy)
  BY <1>1, FS_Subset DEF busy
<1> QED
  BY <1>1, <1>2, <1>3, <1>4

\* What the types say of the variables the loops share.
LEMMA Types ==
  ASSUME Inv
  PROVE  /\ queue \in Seq(Jobs \cup Loops)
         /\ at \in [Loops -> [Threads -> Places]]
         /\ index \in [Loops -> [Threads -> Nat]]
         /\ next \in [Loops -> Nat] /\ active \in [Loops -> Nat] /\ left \in [Loops -> Nat]
         /\ call \in [Loops -> {"uncalled", "called", "returned"}]
         /\ DOMAIN visit = Loops
         /\ \A l \in Loops : visit[l] \in [Indices(l) -> {"waiting", "running", "done", "twice"}]
         /\ \A l \in Loops : Count[l] \in Nat \ {0}
BY JobSystemAssumption DEF Inv, TypeOK, Places

\* The number of helpers to schedule is a natural number.
LEMMA HelpersType == \A l \in Loops : helpers(l) \in Nat
<1>1. Cardinality(Workers) \in Nat
  BY Finite, FS_CardinalityType
<1> QED
  BY <1>1, JobSystemAssumption DEF helpers

\* A thread that goes from a place to another leaves every other thread where it was.
LEMMA GoesMoves ==
  ASSUME TypeOK, NEW t \in Threads, NEW l \in Loops, NEW from, NEW to \in Places,
         Goes(t, l, from, to)
  PROVE  /\ at' \in [Loops -> [Threads -> Places]]
         /\ at[l][t] = from /\ at'[l][t] = to
         /\ \A m \in Loops, u \in Threads : m # l \/ u # t => at'[m][u] = at[m][u]
BY DEF TypeOK, Goes, Places

\* The helpers counted after a thread went from a place to another.
LEMMA GoesCounted ==
  ASSUME TypeOK, NEW t \in Threads, NEW l \in Loops, NEW from, NEW to \in Places,
         Goes(t, l, from, to)
  PROVE  /\ \A m \in Loops \ {l} : counted(m)' = counted(m)
         /\ counted(l)' = IF to \in Counted THEN counted(l) \cup {t} ELSE counted(l) \ {t}
<1>1. /\ at'[l][t] = to
      /\ \A m \in Loops, u \in Threads : m # l \/ u # t => at'[m][u] = at[m][u]
  BY GoesMoves
<1> QED
  BY <1>1 DEF counted

\* A step that changes nothing of the loops keeps what the invariant says of them alone.
LEMMA LoopsUnchanged ==
  ASSUME Inv, UNCHANGED loopVars
  PROVE  /\ HelpersCounted' /\ BodyHoldsIndex' /\ IndexHeldOnce' /\ IndicesInOrder'
         /\ RunningHeld' /\ NoIndexLeft' /\ OneCaller'
BY DEF Inv, loopVars, HelpersCounted, counted, BodyHoldsIndex, IndexHeldOnce, IndicesInOrder,
       RunningHeld, NoIndexLeft, OneCaller

-----------------------------------------------------------------------------
(* The invariant holds at first, and each step keeps it. *)

\* No thread is in a loop, and nothing is queued, when the pool has just been made.
LEMMA InitInv == Init => Inv
<1> SUFFICES ASSUME Init PROVE Inv
  OBVIOUS
<1>1. TypeOK
  BY JobSystemAssumption DEF Init, TypeOK, Indices
<1>2. RunningCounted
  BY FS_EmptySet, {w \in Workers : worker[w] = "busy"} = {} DEF Init, RunningCounted
<1>3. HelpersCounted
  <2> SUFFICES ASSUME NEW l \in Loops PROVE active[l] = Cardinality(counted(l))
    BY DEF HelpersCounted
  <2>1. counted(l) = {}
    BY DEF Init, counted, Counted
  <2> QED
    BY <2>1, FS_EmptySet DEF Init
<1>4. BodyHoldsIndex /\ IndexHeldOnce /\ RunningHeld
  BY DEF Init, BodyHoldsIndex, IndexHeldOnce, RunningHeld, InBody
<1>5. IndicesInOrder
  BY JobSystemAssumption DEF Init, IndicesInOrder, Indices
<1>6. NoIndexLeft /\ OneCaller
  BY DEF Init, NoIndexLeft, OneCaller, CallerAt
<1>7. NobodyBefore
  BY DEF Init, NobodyBefore
<1>8. FreeWorkers
  BY DEF Init, FreeWorkers, InNoLoop, Threads
<1> QED
  BY <1>1, <1>2, <1>3, <1>4, <1>5, <1>6, <1>7, <1>8 DEF Inv

\* A worker that exits is in no loop and runs no job.
LEMMA exitKeepsInv ==
  ASSUME Inv, NEW w \in Workers, exit(w)
  PROVE  Inv'
<1>1. TypeOK'
  BY DEF Inv, TypeOK, exit, loopVars
<1>2. RunningCounted'
  <2>1. {v \in Workers : worker'[v] = "busy"} = {v \in Workers : worker[v] = "busy"}
    BY DEF Inv, TypeOK, exit
  <2> QED
    BY <2>1 DEF Inv, RunningCounted, exit
<1>3. NobodyBefore' /\ FreeWorkers'
  BY DEF Inv, TypeOK, NobodyBefore, FreeWorkers, InNoLoop, exit, loopVars
<1> QED
  BY <1>1, <1>2, <1>3, LoopsUnchanged DEF Inv, exit

\* A worker that waits is in no loop and runs no job.
LEMMA waitKeepsInv ==
  ASSUME Inv, NEW w \in Workers, wait(w)
  PROVE  Inv'
<1>1. TypeOK'
  BY DEF Inv, TypeOK, wait, loopVars
<1>2. RunningCounted'
  <2>1. {v \in Workers : worker'[v] = "busy"} = {v \in Workers : worker[v] = "busy"}
    BY DEF Inv, TypeOK, wait
  <2> QED
    BY <2>1 DEF Inv, RunningCounted, wait
<1>3. NobodyBefore' /\ FreeWorkers'
  BY DEF Inv, TypeOK, NobodyBefore, FreeWorkers, InNoLoop, wait, loopVars
<1> QED
  BY <1>1, <1>2, <1>3, LoopsUnchanged DEF Inv, wait

\* A worker that starts a job was in no loop; if the job is a helper, it is in its loop from now on.
LEMMA startKeepsInv ==
  ASSUME Inv, NEW w \in Workers, start(w)
  PROVE  Inv'
<1> DEFINE job == Head(queue)
<1>1. job \in Jobs \cup Loops /\ queue # <<>> /\ queue' = Tail(queue)
  BY DEF Inv, TypeOK, start
<1>2. w \in Threads /\ InNoLoop(w)
  BY DEF Inv, TypeOK, start, FreeWorkers, Threads
<1>3. job \in Loops => call[job] # "uncalled"
  BY <1>1 DEF Inv, TypeOK, NobodyBefore
<1>4. /\ at' \in [Loops -> [Threads -> Places]]
      /\ \A l \in Loops, t \in Threads : at'[l][t] # at[l][t] =>
            l = job /\ t = w /\ at[l][t] = "out" /\ at'[l][t] = "enter"
  BY <1>1, <1>2 DEF Inv, TypeOK, start, InNoLoop, Places, HelperAt
<1>5. TypeOK'
  BY <1>1, <1>4 DEF Inv, TypeOK, start, Places
<1>6. RunningCounted'
  <2>1. busy' = busy \cup {w} /\ w \notin busy
    BY DEF Inv, TypeOK, start, busy
  <2>2. Cardinality(busy') = Cardinality(busy) + 1
    BY <2>1, Finite, FS_AddElement
  <2> QED
    BY <2>2 DEF Inv, RunningCounted, start, busy
<1>7. HelpersCounted'
  <2> SUFFICES ASSUME NEW l \in Loops PROVE active'[l] = Cardinality(counted(l)')
    BY DEF HelpersCounted
  <2>1. counted(l)' = counted(l)
    BY <1>4 DEF counted, Counted
  <2> QED
    BY <2>1 DEF Inv, HelpersCounted, start
<1>8. BodyHoldsIndex' /\ IndexHeldOnce' /\ IndicesInOrder' /\ RunningHeld'
  BY <1>4 DEF Inv, start, BodyHoldsIndex, IndexHeldOnce, IndicesInOrder, RunningHeld, InBody
<1>9. NoIndexLeft' /\ OneCaller'
  BY <1>4 DEF Inv, start, NoIndexLeft, OneCaller, CallerAt
<1>10. NobodyBefore'
  BY <1>1, <1>3, <1>4 DEF Inv, TypeOK, start, NobodyBefore
<1>11. FreeWorkers'
  BY <1>4 DEF Inv, TypeOK, start, FreeWorkers, InNoLoop, Threads
<1> QED
  BY <1>5, <1>6, <1>7, <1>8, <1>9, <1>10, <1>11 DEF Inv

\* A worker whose job has returned is no longer counted, and is in no loop.
LEMMA finishKeepsInv ==
  ASSUME Inv, NEW w \in Workers, finish(w)
  PROVE  Inv'
<1>1. busy' = busy \ {w} /\ w \in busy
  BY DEF Inv, TypeOK, finish, busy
<1>2. running \in Nat \ {0} /\ Cardinality(busy') = running - 1
  <2>1. Cardinality(busy') = Cardinality(busy) - 1
    BY <1>1, Finite, FS_RemoveElement
  <2>2. IsFiniteSet(busy')
    BY <1>1, Finite, FS_RemoveElement
  <2>3. Cardinality(busy') \in Nat
    BY <2>2, FS_CardinalityType
  <2> QED
    BY <2>1, <2>3 DEF Inv, TypeOK, RunningCounted, busy
<1>3. TypeOK'
  BY <1>2 DEF Inv, TypeOK, finish, loopVars
<1>4. RunningCounted'
  BY <1>2 DEF RunningCounted, finish, busy
<1>5. NobodyBefore' /\ FreeWorkers'
  BY DEF Inv, TypeOK, NobodyBefore, FreeWorkers, InNoLoop, finish, loopVars
<1> QED
  BY <1>3, <1>4, <1>5, LoopsUnchanged DEF Inv, finish

\* A notification makes a waiting worker ready, and changes nothing else of the workers.
LEMMA NotifyOneWakes ==
  ASSUME TypeOK, NotifyOne
  PROVE  /\ worker' \in [Workers -> {"ready", "waiting", "busy", "exited"}]
         /\ \A w \in Workers : worker'[w] # worker[w] => worker[w] = "waiting" /\ worker'[w] = "ready"
BY DEF TypeOK, NotifyOne, Waiting

\* A notification makes ready a worker that waits, which was not busy and is not now.
LEMMA notificationKeeps ==
  ASSUME Inv, NotifyOne, UNCHANGED running
  PROVE  RunningCounted'
<1>1. busy' = busy
  BY NotifyOneWakes DEF Inv, TypeOK, busy
<1> QED
  BY <1>1 DEF Inv, RunningCounted, busy

\* What the main thread does outside loops: it queues jobs, waits for them, stops the workers.
LEMMA mainThreadKeepsInv ==
  ASSUME Inv, MainThread
  PROVE  Inv'
<1>1. ASSUME NEW j \in Jobs, schedule(j) PROVE Inv'
  <2>1. queue' = Append(queue, j) /\ \A l \in Loops : j # l
    BY <1>1, JobSystemAssumption DEF schedule
  <2>2. TypeOK'
    BY <1>1, <2>1 DEF Inv, TypeOK, schedule, loopVars
  <2>3. RunningCounted'
    BY <1>1 DEF Inv, RunningCounted, schedule
  <2>4. NobodyBefore' /\ FreeWorkers'
    BY <1>1, <2>1 DEF Inv, TypeOK, NobodyBefore, FreeWorkers, InNoLoop, schedule, loopVars
  <2> QED
    BY <1>1, <2>2, <2>3, <2>4, LoopsUnchanged DEF Inv, schedule
<1>2. ASSUME scheduleNotifies PROVE Inv'
  <2>1. TypeOK'
    BY <1>2, NotifyOneWakes DEF Inv, TypeOK, scheduleNotifies, loopVars
  <2>2. RunningCounted'
    BY <1>2, notificationKeeps DEF scheduleNotifies
  <2>3. NobodyBefore' /\ FreeWorkers'
    BY <1>2, NotifyOneWakes DEF Inv, NobodyBefore, FreeWorkers, InNoLoop, scheduleNotifies, loopVars
  <2> QED
    BY <1>2, <2>1, <2>2, <2>3, LoopsUnchanged DEF Inv, scheduleNotifies
<1>3. ASSUME waitIdle \/ join PROVE Inv'
  <2>1. /\ UNCHANGED <<queue, running, worker, stop, scheduled, doing, loopVars>>
        /\ main' \in {"free", "idle", "idleWaiting", "destroyed"}
    BY <1>3 DEF waitIdle, join
  <2>2. TypeOK'
    BY <2>1 DEF Inv, TypeOK, loopVars
  <2>3. RunningCounted'
    BY <2>1 DEF Inv, RunningCounted
  <2>4. NobodyBefore' /\ FreeWorkers'
    BY <2>1 DEF Inv, NobodyBefore, FreeWorkers, InNoLoop, loopVars
  <2> QED
    BY <2>1, <2>2, <2>3, <2>4, LoopsUnchanged DEF Inv
<1>4. ASSUME NEW w \in Workers, requestStop(w) PROVE Inv'
  <2>1. busy' = busy
    BY <1>4 DEF Inv, TypeOK, requestStop, busy
  <2>2. TypeOK'
    BY <1>4 DEF Inv, TypeOK, requestStop, loopVars
  <2>3. RunningCounted'
    BY <1>4, <2>1 DEF Inv, RunningCounted, requestStop, busy
  <2>4. NobodyBefore' /\ FreeWorkers'
    BY <1>4 DEF Inv, TypeOK, NobodyBefore, FreeWorkers, InNoLoop, requestStop, loopVars
  <2> QED
    BY <1>4, <2>2, <2>3, <2>4, LoopsUnchanged DEF Inv, requestStop
<1> QED
  BY <1>1, <1>2, <1>3, <1>4 DEF MainThread

\* A step of a loop that changes nothing of the pool but the queue, or who waits for a job.
LEMMA poolUnchanged ==
  ASSUME Inv, UNCHANGED pool
  PROVE  RunningCounted'
BY DEF Inv, RunningCounted, pool

\* A thread that steps inside a loop, or calls one, is the main thread or a busy worker.
LEMMA InLoopsBusy ==
  ASSUME Inv, NEW t \in Threads, NEW l \in Loops, at[l][t] # "out" \/ Calls(t, l)
  PROVE  t = Main \/ (t \in Workers /\ worker[t] = "busy")
<1>1. CASE at[l][t] # "out"
  BY <1>1 DEF Inv, FreeWorkers, InNoLoop, Threads
<1>2. CASE Calls(t, l)
  BY <1>2 DEF Inv, FreeWorkers, InNoLoop, Threads, Calls, InBody
<1> QED
  BY <1>1, <1>2

\* A step of a busy thread leaves the other workers where they were.
LEMMA FreeWorkersKept ==
  ASSUME Inv, NEW t \in Threads, NEW l \in Loops,
         t = Main \/ (t \in Workers /\ worker'[t] = "busy"),
         \A w \in Workers : worker'[w] # "busy" => worker[w] # "busy",
         \A m \in Loops, u \in Threads : m # l \/ u # t => at'[m][u] = at[m][u]
  PROVE  FreeWorkers'
BY JobSystemAssumption DEF Inv, FreeWorkers, InNoLoop, Threads

\* A loop is called once, by a thread that is then its only caller.
LEMMA parallelForKeepsInv ==
  ASSUME Inv, NEW t \in Threads, NEW l \in Loops, parallelFor(t, l)
  PROVE  Inv'
<1>1. Goes(t, l, "out", "spawn") /\ "spawn" \in Places
  BY DEF parallelFor, Places, CallerAt
<1>2. /\ at' \in [Loops -> [Threads -> Places]]
      /\ at[l][t] = "out" /\ at'[l][t] = "spawn"
      /\ \A m \in Loops, u \in Threads : m # l \/ u # t => at'[m][u] = at[m][u]
  BY <1>1, GoesMoves DEF Inv
<1>3. \A u \in Threads : at[l][u] = "out"
  BY DEF Inv, NobodyBefore, parallelFor
<1>4. call' = [call EXCEPT ![l] = "called"] /\ call[l] = "uncalled"
  BY DEF parallelFor
<1>5. TypeOK'
  <2>1. call' \in [Loops -> {"uncalled", "called", "returned"}]
    BY <1>4, Types
  <2>2. left' \in [Loops -> Nat]
    BY HelpersType, Types DEF parallelFor
  <2> QED
    BY <1>2, <2>1, <2>2 DEF Inv, TypeOK, parallelFor, pool, Places
<1>6. HelpersCounted'
  <2>1. \A m \in Loops : counted(m)' = counted(m)
    BY <1>2 DEF counted, Counted
  <2> QED
    BY <2>1 DEF Inv, HelpersCounted, parallelFor
<1>7. BodyHoldsIndex' /\ IndexHeldOnce' /\ IndicesInOrder' /\ RunningHeld'
  BY <1>2 DEF Inv, parallelFor, BodyHoldsIndex, IndexHeldOnce, IndicesInOrder, RunningHeld, InBody
<1>8. NoIndexLeft'
  BY <1>2, <1>4 DEF Inv, TypeOK, parallelFor, NoIndexLeft
<1>9. OneCaller'
  BY <1>2, <1>3, <1>4 DEF Inv, TypeOK, OneCaller, CallerAt
<1>10. NobodyBefore'
  BY <1>2, <1>4 DEF Inv, TypeOK, NobodyBefore, parallelFor, pool
<1>11. FreeWorkers'
  <2>1. t = Main \/ (t \in Workers /\ worker[t] = "busy")
    BY InLoopsBusy DEF parallelFor
  <2> QED
    BY <1>2, <2>1, FreeWorkersKept DEF parallelFor, pool
<1> QED
  BY <1>5, <1>6, <1>7, <1>8, <1>9, <1>10, <1>11, poolUnchanged DEF Inv, parallelFor

\* The caller queues its helpers and notifies workers of them; nobody is in the body yet through it.
LEMMA spawnKeepsInv ==
  ASSUME Inv, NEW t \in Threads, NEW l \in Loops, spawn(t, l) \/ spawnNotifies(t, l)
  PROVE  Inv'
<1>1. PICK from \in {"spawn", "ping"}, to \in {"spawn", "ping", "take"} : Goes(t, l, from, to)
  BY DEF spawn, spawnNotifies
<1>2. /\ at' \in [Loops -> [Threads -> Places]]
      /\ at[l][t] = from /\ at'[l][t] = to
      /\ \A m \in Loops, u \in Threads : m # l \/ u # t => at'[m][u] = at[m][u]
  BY <1>1, GoesMoves DEF Inv, Places, CallerAt
<1>3. /\ UNCHANGED <<running, stop, main, scheduled, doing, index, next, active, seen, call, visit>>
      /\ queue' = queue \/ queue' = Append(queue, l)
      /\ UNCHANGED worker \/ NotifyOne
      /\ left' \in [Loops -> Nat]
  <2>1. left \in [Loops -> Nat] /\ left[l] \in Nat
    BY Types
  <2>2. CASE spawnNotifies(t, l)
    BY <2>1, <2>2 DEF spawnNotifies
  <2>3. CASE spawn(t, l) /\ left[l] > 0
    <3>1. left' = [left EXCEPT ![l] = left[l] - 1]
      BY <2>3, <2>1 DEF spawn
    <3>2. left' \in [Loops -> Nat]
      BY <3>1, <2>1, <2>3
    <3> QED
      BY <2>1, <2>3, <3>2 DEF spawn
  <2>4. CASE spawn(t, l) /\ ~(left[l] > 0)
    BY <2>1, <2>4 DEF spawn, pool
  <2> QED
    BY <2>2, <2>3, <2>4
<1>4. call[l] = "called"
  BY <1>2 DEF Inv, OneCaller, CallerAt
<1>5. /\ Append(queue, l) \in Seq(Jobs \cup Loops)
      /\ Len(Append(queue, l)) = Len(queue) + 1
      /\ \A k \in 1 .. Len(queue) : Append(queue, l)[k] = queue[k]
      /\ Append(queue, l)[Len(queue) + 1] = l
  <2>1. l \in Jobs \cup Loops /\ queue \in Seq(Jobs \cup Loops)
    BY Types
  <2> QED
    BY <2>1, AppendProperties
<1>6. TypeOK'
  <2>1. worker' \in [Workers -> {"ready", "waiting", "busy", "exited"}]
    BY <1>3, NotifyOneWakes DEF Inv, TypeOK
  <2>2. queue' \in Seq(Jobs \cup Loops)
    BY <1>3, <1>5, Types
  <2> QED
    BY <1>2, <1>3, <2>1, <2>2 DEF Inv, TypeOK, Places
<1>7. RunningCounted'
  BY <1>3, notificationKeeps DEF Inv, RunningCounted
<1>8. HelpersCounted'
  <2>1. \A m \in Loops : counted(m)' = counted(m)
    BY <1>1, <1>2 DEF counted, Counted
  <2> QED
    BY <1>3, <2>1 DEF Inv, HelpersCounted
<1>9. BodyHoldsIndex' /\ IndexHeldOnce' /\ IndicesInOrder' /\ RunningHeld'
  BY <1>1, <1>2, <1>3 DEF Inv, BodyHoldsIndex, IndexHeldOnce, IndicesInOrder, RunningHeld, InBody
<1>10. NoIndexLeft'
  BY <1>1, <1>2, <1>3 DEF Inv, NoIndexLeft
<1>11. OneCaller'
  BY <1>1, <1>2, <1>3 DEF Inv, OneCaller, CallerAt
<1>12. NobodyBefore'
  <2> SUFFICES ASSUME NEW m \in Loops, call[m] = "uncalled"
               PROVE  (\A u \in Threads : at'[m][u] = "out") /\ \A k \in DOMAIN queue' : queue'[k] # m
    BY <1>3 DEF NobodyBefore
  <2>1. m # l /\ \A u \in Threads : at'[m][u] = "out"
    BY <1>2, <1>4 DEF Inv, NobodyBefore
  <2>2. \A k \in DOMAIN queue : queue[k] # m
    BY DEF Inv, NobodyBefore
  <2> QED
    <3>1. CASE queue' = queue
      BY <2>1, <2>2, <3>1
    <3>2. CASE queue' = Append(queue, l)
      <4>1. DOMAIN queue = 1 .. Len(queue) /\ DOMAIN Append(queue, l) = 1 .. Len(queue) + 1 /\ Len(queue) \in Nat
        BY <1>5, Types
      <4> QED
        BY <1>5, <2>1, <2>2, <3>2, <4>1
    <3> QED
      BY <1>3, <3>1, <3>2
<1>13. FreeWorkers'
  <2>1. t = Main \/ (t \in Workers /\ worker[t] = "busy")
    BY <1>2, InLoopsBusy
  <2>2. \A w \in Workers : (worker'[w] = "busy") <=> (worker[w] = "busy")
    BY <1>3, NotifyOneWakes DEF Inv
  <2> QED
    BY <1>2, <2>1, <2>2, FreeWorkersKept
<1> QED
  BY <1>6, <1>7, <1>8, <1>9, <1>10, <1>11, <1>12, <1>13 DEF Inv

\* Taking an index: a thread enters body with one that nobody had, or finds none left.
LEMMA TakeKeepsInv ==
  ASSUME Inv, NEW t \in Threads, NEW l \in Loops, take(t, l) \/ help(t, l)
  PROVE  Inv'
<1>1. /\ at[l][t] \in {"take", "help"}
      /\ next' = [next EXCEPT ![l] = @ + 1]
      /\ UNCHANGED <<pool, active, seen, left, call>>
  BY DEF take, help, Take, Goes
<1>2. CASE next[l] < Count[l]
  <2>1. PICK from \in {"take", "help"}, to \in InBody :
          Goes(t, l, from, to) /\ (from = "take" <=> to = "takeBody")
    BY <1>2, JobSystemAssumption DEF take, help, Take, InBody, Inv, TypeOK
  <2>2. /\ at' \in [Loops -> [Threads -> Places]]
        /\ at[l][t] = from /\ at'[l][t] = to
        /\ \A m \in Loops, u \in Threads : m # l \/ u # t => at'[m][u] = at[m][u]
    BY <2>1, GoesMoves DEF Inv, Places, CallerAt, HelperAt, InBody
  <2>3. /\ next[l] \in Indices(l) /\ visit[l][next[l]] = "waiting"
        /\ index' = [index EXCEPT ![l][t] = next[l]]
        /\ visit' = [visit EXCEPT ![l][next[l]] = "running"]
    BY <1>2, JobSystemAssumption DEF take, help, Take, Inv, TypeOK, IndicesInOrder, Indices
  <2>4. TypeOK'
    <3>1. \A m \in Loops : visit'[m] \in [Indices(m) -> {"waiting", "running", "done", "twice"}]
      BY <2>3 DEF Inv, TypeOK
    <3>2. next' \in [Loops -> Nat] /\ index' \in [Loops -> [Threads -> Nat]]
      BY <1>1, <2>3 DEF Inv, TypeOK
    <3> QED
      BY <1>1, <2>2, <2>3, <3>1, <3>2 DEF Inv, TypeOK, pool, Places
  <2>5. HelpersCounted'
    <3>1. \A m \in Loops : counted(m)' = counted(m)
      BY <2>1, <2>2 DEF counted, Counted, InBody
    <3> QED
      BY <1>1, <3>1 DEF Inv, HelpersCounted
  <2>6. BodyHoldsIndex'
    BY <1>1, <2>1, <2>2, <2>3 DEF Inv, TypeOK, BodyHoldsIndex, InBody
  <2>7. IndexHeldOnce'
    BY <2>1, <2>2, <2>3 DEF Inv, TypeOK, BodyHoldsIndex, IndexHeldOnce, InBody
  <2>8. IndicesInOrder'
    BY <1>1, <2>3, Types DEF Inv, IndicesInOrder, Indices
  <2>9. RunningHeld'
    BY <2>1, <2>2, <2>3 DEF Inv, TypeOK, RunningHeld, InBody
  <2>10. NoIndexLeft'
    <3>1. UNCHANGED call /\ \A m \in Loops : next[m] >= Count[m] => next'[m] >= Count[m]
      BY <1>1, Types
    <3>2. \A m \in Loops, u \in Threads :
            at'[m][u] \in {"watch", "check", "asleep"} => at'[m][u] = at[m][u]
      BY <2>1, <2>2 DEF InBody
    <3> QED
      BY <3>1, <3>2 DEF Inv, NoIndexLeft
  <2>11. OneCaller'
    BY <1>1, <2>1, <2>2 DEF Inv, OneCaller, CallerAt, InBody
  <2>12. NobodyBefore'
    BY <1>1, <2>2 DEF Inv, NobodyBefore, pool
  <2>13. FreeWorkers'
    BY <1>1, <2>2, InLoopsBusy, FreeWorkersKept DEF pool
  <2> QED
    BY <1>1, <2>4, <2>5, <2>6, <2>7, <2>8, <2>9, <2>10, <2>11, <2>12, <2>13, poolUnchanged DEF Inv
<1>3. CASE next[l] >= Count[l]
  <2>1. PICK from \in {"take", "help"}, to \in {"watch", "leave"} :
          Goes(t, l, from, to) /\ (from = "take" <=> to = "watch")
    BY <1>3, JobSystemAssumption DEF take, help, Take, Inv, TypeOK
  <2>2. /\ at' \in [Loops -> [Threads -> Places]]
        /\ at[l][t] = from /\ at'[l][t] = to
        /\ \A m \in Loops, u \in Threads : m # l \/ u # t => at'[m][u] = at[m][u]
    BY <2>1, GoesMoves DEF Inv, Places, CallerAt, HelperAt
  <2>3. UNCHANGED <<index, visit>>
    BY <1>3, JobSystemAssumption DEF take, help, Take, Inv, TypeOK
  <2>4. TypeOK'
    <3>1. next' \in [Loops -> Nat]
      BY <1>1, Types
    <3> QED
      BY <1>1, <2>2, <2>3, <3>1 DEF Inv, TypeOK, pool, Places
  <2>5. HelpersCounted'
    <3>1. \A m \in Loops : counted(m)' = counted(m)
      BY <2>1, <2>2 DEF counted, Counted
    <3> QED
      BY <1>1, <3>1 DEF Inv, HelpersCounted
  <2>6. BodyHoldsIndex' /\ IndexHeldOnce' /\ RunningHeld'
    <3>1. \A m \in Loops, u \in Threads : at'[m][u] \in InBody <=> at[m][u] \in InBody /\ (m # l \/ u # t)
      BY <2>1, <2>2 DEF InBody
    <3>2. at[l][t] \notin InBody
      BY <2>1, <2>2 DEF InBody
    <3>3. \A m \in Loops : next'[m] >= next[m] /\ next[m] \in Nat /\ next'[m] \in Nat
      BY <1>1, Types
    <3>4. BodyHoldsIndex'
      BY <2>3, <3>1, <3>3, Types DEF Inv, BodyHoldsIndex
    <3>5. IndexHeldOnce' /\ RunningHeld'
      BY <2>3, <3>1, <3>2 DEF Inv, IndexHeldOnce, RunningHeld
    <3> QED
      BY <3>4, <3>5
  <2>7. IndicesInOrder'
    BY <1>1, <1>3, <2>3, Types DEF Inv, IndicesInOrder, Indices
  <2>8. NoIndexLeft'
    <3>1. /\ UNCHANGED call /\ next'[l] >= Count[l]
          /\ \A m \in Loops : next[m] >= Count[m] => next'[m] >= Count[m]
      BY <1>1, <1>3, Types
    <3>2. \A m \in Loops, u \in Threads :
            at'[m][u] \in {"watch", "check", "asleep"} => m = l \/ at'[m][u] = at[m][u]
      BY <2>2
    <3> QED
      BY <3>1, <3>2 DEF Inv, NoIndexLeft
  <2>9. OneCaller'
    BY <1>1, <2>1, <2>2 DEF Inv, OneCaller, CallerAt
  <2>10. NobodyBefore'
    BY <1>1, <2>2 DEF Inv, NobodyBefore, pool
  <2>11. FreeWorkers'
    BY <1>1, <2>2, InLoopsBusy, FreeWorkersKept DEF pool
  <2> QED
    BY <1>1, <2>4, <2>5, <2>6, <2>7, <2>8, <2>9, <2>10, <2>11, poolUnchanged DEF Inv
<1> QED
  BY <1>2, <1>3, Types

\* body returns: the index its thread held is done, and nobody else held it.
LEMMA EndBodyKeepsInv ==
  ASSUME Inv, NEW t \in Threads, NEW l \in Loops, taken(t, l) \/ helped(t, l)
  PROVE  Inv'
<1>1. PICK from \in InBody, to \in {"take", "help"} :
        Goes(t, l, from, to) /\ (from = "takeBody" <=> to = "take")
  BY DEF taken, helped, EndBody, InBody
<1>2. /\ at' \in [Loops -> [Threads -> Places]]
      /\ at[l][t] = from /\ at'[l][t] = to
      /\ \A m \in Loops, u \in Threads : m # l \/ u # t => at'[m][u] = at[m][u]
  BY <1>1, GoesMoves DEF Inv, Places, CallerAt, HelperAt
<1> DEFINE i == index[l][t]
<1>3. i \in Indices(l) /\ visit[l][i] = "running"
  BY <1>1, <1>2 DEF Inv, BodyHoldsIndex
<1>4. /\ visit' = [visit EXCEPT ![l][i] = "done"]
      /\ UNCHANGED <<pool, index, next, active, seen, left, call>>
  BY <1>3 DEF taken, helped, EndBody
<1>5. \A m \in Loops, u \in Threads : at'[m][u] \in InBody <=> at[m][u] \in InBody /\ (m # l \/ u # t)
  BY <1>1, <1>2 DEF InBody
<1>6. TypeOK'
  <2>1. \A m \in Loops : visit'[m] \in [Indices(m) -> {"waiting", "running", "done", "twice"}]
    BY <1>3, <1>4, Types
  <2> QED
    BY <1>2, <1>4, <2>1 DEF Inv, TypeOK, pool, Places
<1>7. HelpersCounted'
  <2>1. \A m \in Loops : counted(m)' = counted(m)
    BY <1>1, <1>2 DEF counted, Counted, InBody
  <2> QED
    BY <1>4, <2>1 DEF Inv, HelpersCounted
<1>8. BodyHoldsIndex'
  <2> SUFFICES ASSUME NEW m \in Loops, NEW u \in Threads, at'[m][u] \in InBody
               PROVE  /\ index[m][u] \in Indices(m) /\ index[m][u] < next[m]
                      /\ visit'[m][index[m][u]] = "running"
    BY <1>4 DEF BodyHoldsIndex
  <2>1. at[m][u] \in InBody /\ (m # l \/ u # t)
    BY <1>5
  <2>2. m = l => index[m][u] # i
    BY <1>1, <1>2, <2>1 DEF Inv, IndexHeldOnce
  <2>3. /\ index[m][u] \in Indices(m) /\ index[m][u] < next[m]
        /\ visit[m][index[m][u]] = "running"
    BY <2>1 DEF Inv, BodyHoldsIndex
  <2> QED
    BY <1>3, <1>4, <2>2, <2>3, Types
<1>9. IndexHeldOnce'
  BY <1>4, <1>5 DEF Inv, IndexHeldOnce
<1>10. IndicesInOrder'
  BY <1>3, <1>4, Types DEF Inv, IndicesInOrder
<1>11. RunningHeld'
  <2> SUFFICES ASSUME NEW m \in Loops, NEW j \in Indices(m), visit'[m][j] = "running"
               PROVE  \E u \in Threads : at'[m][u] \in InBody /\ index[m][u] = j
    BY <1>4 DEF RunningHeld
  <2>1. visit[m][j] = "running" /\ (m # l \/ j # i)
    BY <1>3, <1>4, Types
  <2>2. PICK u \in Threads : at[m][u] \in InBody /\ index[m][u] = j
    BY <2>1 DEF Inv, RunningHeld
  <2> QED
    BY <1>5, <2>1, <2>2
<1>12. NoIndexLeft'
  BY <1>1, <1>2, <1>4 DEF Inv, NoIndexLeft
<1>13. OneCaller'
  BY <1>1, <1>2, <1>4 DEF Inv, OneCaller, CallerAt, InBody
<1>14. NobodyBefore'
  BY <1>1, <1>2, <1>4 DEF Inv, NobodyBefore, pool, InBody
<1>15. FreeWorkers'
  BY <1>1, <1>2, <1>4, InLoopsBusy, FreeWorkersKept DEF pool, InBody
<1> QED
  BY <1>4, <1>6, <1>7, <1>8, <1>9, <1>10, <1>11, <1>12, <1>13, <1>14, <1>15, poolUnchanged DEF Inv

\* What is left to show of a step that takes no index and ends no call of body.
LEMMA BodiesUnchanged ==
  ASSUME Inv, UNCHANGED <<index, next, visit>>,
         \A l \in Loops, t \in Threads :
           at'[l][t] # at[l][t] => at[l][t] \notin InBody /\ at'[l][t] \notin InBody
  PROVE  BodyHoldsIndex' /\ IndexHeldOnce' /\ IndicesInOrder' /\ RunningHeld'
BY DEF Inv, BodyHoldsIndex, IndexHeldOnce, IndicesInOrder, RunningHeld

\* The caller looks at the number of helpers: it waits for it to change, or returns.
LEMMA watchKeepsInv ==
  ASSUME Inv, NEW t \in Threads, NEW l \in Loops, watch(t, l) \/ check(t, l)
  PROVE  Inv'
<1>1. PICK from \in {"watch", "check"}, to \in {"watch", "check", "asleep", "out"} :
        /\ Goes(t, l, from, to)
        /\ call' = IF to = "out" THEN [call EXCEPT ![l] = "returned"] ELSE call
  BY DEF watch, check
<1>2. /\ at' \in [Loops -> [Threads -> Places]]
      /\ at[l][t] = from /\ at'[l][t] = to
      /\ \A m \in Loops, u \in Threads : m # l \/ u # t => at'[m][u] = at[m][u]
  BY <1>1, GoesMoves DEF Inv, Places, CallerAt, HelperAt
<1>3. /\ UNCHANGED <<pool, index, next, active, left, visit>>
      /\ seen' \in [Loops -> Nat]
  BY Types DEF Inv, TypeOK, watch, check
<1>4. call[l] = "called" /\ next[l] >= Count[l]
  BY <1>1, <1>2 DEF Inv, OneCaller, NoIndexLeft, CallerAt
<1>5. TypeOK'
  <2>1. call' \in [Loops -> {"uncalled", "called", "returned"}]
    BY <1>1, Types
  <2> QED
    BY <1>2, <1>3, <2>1 DEF Inv, TypeOK, pool, Places
<1>6. HelpersCounted'
  <2>1. \A m \in Loops : counted(m)' = counted(m)
    BY <1>1, <1>2 DEF counted, Counted
  <2> QED
    BY <1>3, <2>1 DEF Inv, HelpersCounted
<1>7. BodyHoldsIndex' /\ IndexHeldOnce' /\ IndicesInOrder' /\ RunningHeld'
  BY <1>1, <1>2, <1>3, BodiesUnchanged DEF InBody
<1>8. NoIndexLeft'
  BY <1>1, <1>2, <1>3, <1>4, Types DEF Inv, NoIndexLeft
<1>9. OneCaller'
  BY <1>1, <1>2, <1>4, Types DEF Inv, OneCaller, CallerAt
<1>10. NobodyBefore'
  BY <1>1, <1>2, <1>3, <1>4, Types DEF Inv, NobodyBefore, pool
<1>11. FreeWorkers'
  BY <1>1, <1>2, <1>3, InLoopsBusy, FreeWorkersKept DEF pool
<1> QED
  BY <1>3, <1>5, <1>6, <1>7, <1>8, <1>9, <1>10, <1>11, poolUnchanged DEF Inv

\* A helper counts itself, or stops being counted.
LEMMA countKeepsInv ==
  ASSUME Inv, NEW t \in Threads, NEW l \in Loops, enter(t, l) \/ leave(t, l)
  PROVE  Inv'
<1>1. PICK from \in {"enter", "leave"}, to \in {"help", "wake", "out"} :
        Goes(t, l, from, to) /\ (from = "enter" <=> to = "help")
  BY DEF enter, leave
<1>2. /\ at' \in [Loops -> [Threads -> Places]]
      /\ at[l][t] = from /\ at'[l][t] = to
      /\ \A m \in Loops, u \in Threads : m # l \/ u # t => at'[m][u] = at[m][u]
  BY <1>1, GoesMoves DEF Inv, Places, CallerAt, HelperAt
<1>3. UNCHANGED <<pool, index, next, seen, left, call, visit>>
  BY DEF enter, leave
<1>4. active' = [active EXCEPT ![l] = Cardinality(counted(l)')] /\ Cardinality(counted(l)') \in Nat
  <2>1. counted(l)' = IF to \in Counted THEN counted(l) \cup {t} ELSE counted(l) \ {t}
    BY <1>1, GoesCounted DEF Inv, Places, CallerAt, HelperAt
  <2>2. active[l] = Cardinality(counted(l)) /\ IsFiniteSet(counted(l))
    BY Finite DEF Inv, HelpersCounted
  <2>3. CASE from = "enter"
    <3>1. t \notin counted(l) /\ counted(l)' = counted(l) \cup {t}
      BY <1>1, <1>2, <2>1, <2>3 DEF counted, Counted
    <3>2. Cardinality(counted(l)') = active[l] + 1 /\ IsFiniteSet(counted(l)')
      BY <2>2, <3>1, FS_AddElement
    <3>3. active' = [active EXCEPT ![l] = active[l] + 1]
      BY <1>2, <2>3 DEF enter, leave, Goes
    <3> QED
      BY <3>2, <3>3, FS_CardinalityType
  <2>4. CASE from = "leave"
    <3>1. t \in counted(l) /\ counted(l)' = counted(l) \ {t}
      BY <1>1, <1>2, <2>1, <2>4 DEF counted, Counted
    <3>2. Cardinality(counted(l)') = active[l] - 1 /\ IsFiniteSet(counted(l)')
      BY <2>2, <3>1, FS_RemoveElement
    <3>3. active' = [active EXCEPT ![l] = active[l] - 1]
      BY <1>2, <2>4 DEF enter, leave, Goes
    <3> QED
      BY <3>2, <3>3, FS_CardinalityType
  <2> QED
    BY <2>3, <2>4
<1>5. TypeOK'
  <2>1. active' \in [Loops -> Nat]
    BY <1>4, Types
  <2> QED
    BY <1>2, <1>3, <2>1 DEF Inv, TypeOK, pool, Places
<1>6. HelpersCounted'
  <2>1. \A m \in Loops \ {l} : counted(m)' = counted(m)
    BY <1>1, GoesCounted DEF Inv, Places, CallerAt, HelperAt
  <2> QED
    BY <1>4, <2>1, Types DEF Inv, HelpersCounted
<1>7. BodyHoldsIndex' /\ IndexHeldOnce' /\ IndicesInOrder' /\ RunningHeld'
  BY <1>1, <1>2, <1>3, BodiesUnchanged DEF InBody
<1>8. NoIndexLeft'
  BY <1>1, <1>2, <1>3 DEF Inv, NoIndexLeft
<1>9. OneCaller'
  BY <1>1, <1>2, <1>3 DEF Inv, OneCaller, CallerAt
<1>10. NobodyBefore'
  BY <1>1, <1>2, <1>3 DEF Inv, NobodyBefore, pool
<1>11. FreeWorkers'
  BY <1>1, <1>2, <1>3, InLoopsBusy, FreeWorkersKept DEF pool
<1> QED
  BY <1>3, <1>5, <1>6, <1>7, <1>8, <1>9, <1>10, <1>11, poolUnchanged DEF Inv

\* The last helper is out, and a caller asleep looks again.
LEMMA wakeKeepsInv ==
  ASSUME Inv, NEW t \in Threads, NEW l \in Loops, wakeCaller(t, l)
  PROVE  Inv'
<1>1. /\ at' \in [Loops -> [Threads -> Places]]
      /\ at[l][t] = "wake"
      /\ \A m \in Loops, u \in Threads : at'[m][u] # at[m][u] =>
           m = l /\ \/ u = t /\ at'[m][u] = "out"
                    \/ at[m][u] = "asleep" /\ at'[m][u] = "check"
  BY Types DEF wakeCaller, Places, CallerAt
<1>2. UNCHANGED <<pool, index, next, active, seen, left, call, visit>>
  BY DEF wakeCaller
<1>3. TypeOK'
  BY <1>1, <1>2 DEF Inv, TypeOK, pool, Places
<1>4. HelpersCounted'
  <2>1. \A m \in Loops : counted(m)' = counted(m)
    BY <1>1 DEF counted, Counted
  <2> QED
    BY <1>2, <2>1 DEF Inv, HelpersCounted
<1>5. BodyHoldsIndex' /\ IndexHeldOnce' /\ IndicesInOrder' /\ RunningHeld'
  BY <1>1, <1>2, BodiesUnchanged DEF InBody
<1>6. NoIndexLeft'
  BY <1>1, <1>2 DEF Inv, NoIndexLeft
<1>7. OneCaller'
  BY <1>1, <1>2 DEF Inv, OneCaller, CallerAt
<1>8. NobodyBefore'
  BY <1>1, <1>2 DEF Inv, NobodyBefore, pool
<1>9. FreeWorkers'
  BY <1>1, <1>2 DEF Inv, FreeWorkers, InNoLoop, Threads, pool
<1> QED
  BY <1>2, <1>3, <1>4, <1>5, <1>6, <1>7, <1>8, <1>9, poolUnchanged DEF Inv

\* Every step keeps the invariant.
LEMMA NextKeepsInv == Inv /\ [Next]_vars => Inv'
<1> SUFFICES ASSUME Inv, [Next]_vars PROVE Inv'
  OBVIOUS
<1>1. ASSUME NEW w \in Workers, Worker(w) PROVE Inv'
  BY <1>1, exitKeepsInv, waitKeepsInv, startKeepsInv, finishKeepsInv DEF Worker
<1>2. ASSUME NEW t \in Threads, NEW l \in Loops, Caller(t, l) PROVE Inv'
  BY <1>2, parallelForKeepsInv, spawnKeepsInv, TakeKeepsInv, EndBodyKeepsInv, watchKeepsInv DEF Caller
<1>3. ASSUME NEW t \in Threads, NEW l \in Loops, Helper(t, l) PROVE Inv'
  BY <1>3, countKeepsInv, TakeKeepsInv, EndBodyKeepsInv, wakeKeepsInv DEF Helper
<1>4. CASE MainThread
  BY <1>4, mainThreadKeepsInv
<1>5. CASE UNCHANGED vars
  <2>1. UNCHANGED loopVars /\ UNCHANGED pool
    BY <1>5 DEF vars, loopVars, pool
  <2>2. TypeOK' /\ NobodyBefore' /\ FreeWorkers'
    BY <2>1 DEF Inv, TypeOK, NobodyBefore, FreeWorkers, InNoLoop, loopVars, pool
  <2> QED
    BY <2>1, <2>2, LoopsUnchanged, poolUnchanged DEF Inv
<1> QED
  BY <1>1, <1>2, <1>3, <1>4, <1>5 DEF Next

-----------------------------------------------------------------------------
(* Theorems *)

\* Inv holds in every state the threads reach: the facts that the others rest on.
THEOREM Invariant == Spec => []Inv
BY InitInv, NextKeepsInv, PTL DEF Spec

\* Every variable of the job system keeps its type; in particular the counts of jobs that run
\* and of helpers in a loop never go below zero.
THEOREM TypeCorrect == Spec => []TypeOK
<1>1. Inv => TypeOK
  BY DEF Inv
<1> QED
  BY <1>1, Invariant, PTL

\* m_runningJobs, which waitIdle waits on, is the number of workers that run a job.
THEOREM RunningIsCounted == Spec => []RunningCounted
<1>1. Inv => RunningCounted
  BY DEF Inv
<1> QED
  BY <1>1, Invariant, PTL

-----------------------------------------------------------------------------
(* parallelFor implements ParallelLoops. *)

\* The pool starts where the promise starts: no loop called, no index begun.
LEMMA InitMaps == Init => PL!Init
BY DEF Init, PL!Init, Indices, PL!Indices

\* Taking an index that is left begins the call of body for it, finding none changes nothing.
LEMMA TakeMaps ==
  ASSUME Inv, NEW t \in Threads, NEW l \in Loops, NEW from \in {"take", "help"},
         NEW body \in InBody, NEW after, Take(t, l, from, body, after)
  PROVE  (\E i \in PL!Indices(l) : PL!Begin(l, i)) \/ UNCHANGED <<call, visit>>
<1>1. at[l][t] = from /\ UNCHANGED call
  BY DEF Take, Goes
<1>2. CASE next[l] >= Count[l]
  BY <1>1, <1>2, Types DEF Take
<1>3. CASE next[l] < Count[l]
  <2>1. next[l] \in Indices(l)
    BY <1>3, Types DEF Indices
  <2>2. visit[l][next[l]] = "waiting"
    BY <2>1, Types DEF Inv, IndicesInOrder
  <2>3. call[l] = "called"
    <3>1. next[l] \in Nat /\ Count[l] \in Nat
      BY Types
    <3>2. call[l] # "returned"
      BY <1>3, <3>1 DEF Inv, NoIndexLeft
    <3>3. call[l] # "uncalled"
      BY <1>1 DEF Inv, NobodyBefore
    <3> QED
      BY <3>2, <3>3, Types
  <2>4. visit' = [visit EXCEPT ![l][next[l]] = "running"]
    BY <1>3, <2>1, <2>2, Types DEF Take
  <2> QED
    BY <1>1, <2>1, <2>2, <2>3, <2>4 DEF PL!Begin, PL!Indices, Indices
<1> QED
  BY <1>2, <1>3, Types

\* When body returns, the call that ends is the one that had begun for its index.
LEMMA EndBodyMaps ==
  ASSUME Inv, NEW t \in Threads, NEW l \in Loops, NEW body \in InBody, NEW to,
         EndBody(t, l, body, to)
  PROVE  \E i \in PL!Indices(l) : PL!End(l, i)
<1>1. at[l][t] \in InBody /\ UNCHANGED call
  BY DEF EndBody, Goes
<1>2. index[l][t] \in Indices(l) /\ visit[l][index[l][t]] = "running"
  BY <1>1 DEF Inv, BodyHoldsIndex
<1>3. visit' = [visit EXCEPT ![l][index[l][t]] = "done"]
  BY <1>2, Types DEF EndBody
<1> QED
  BY <1>1, <1>2, <1>3 DEF PL!End, PL!Indices, Indices

\* The caller leaves when it counts no helper: no index is left, and nobody is in body.
LEMMA watchMaps ==
  ASSUME Inv, NEW t \in Threads, NEW l \in Loops, watch(t, l)
  PROVE  PL!Return(l) \/ UNCHANGED <<call, visit>>
<1>1. at[l][t] = "watch" /\ UNCHANGED visit
  BY DEF watch, Goes
<1>2. CASE active[l] # 0
  BY <1>1, <1>2 DEF watch
<1>3. CASE active[l] = 0
  <2>1. counted(l) = {}
    BY <1>3, Finite, FS_EmptySet DEF Inv, HelpersCounted
  <2>2. \A u \in Threads : at[l][u] \notin InBody
    BY <1>1, <2>1 DEF counted, Counted, InBody, Inv, OneCaller, CallerAt
  <2>3. \A i \in Indices(l) : i < next[l]
    <3>1. next[l] \in Nat /\ Count[l] \in Nat
      BY Types
    <3>2. next[l] >= Count[l]
      BY <1>1 DEF Inv, NoIndexLeft
    <3> QED
      BY <3>1, <3>2 DEF Indices
  <2>4. \A i \in Indices(l) : visit[l][i] = "done"
    <3> SUFFICES ASSUME NEW i \in Indices(l) PROVE visit[l][i] = "done"
      OBVIOUS
    <3>1. visit[l][i] # "running"
      BY <2>2 DEF Inv, RunningHeld
    <3>2. visit[l][i] # "waiting"
      BY <2>3, Types DEF Inv, IndicesInOrder, Indices
    <3>3. visit[l][i] # "twice"
      BY DEF Inv, IndicesInOrder
    <3> QED
      BY <3>1, <3>2, <3>3, Types
  <2>5. call[l] = "called"
    BY <1>1 DEF Inv, OneCaller, CallerAt
  <2> QED
    BY <1>1, <1>3, <2>4, <2>5 DEF watch, PL!Return, PL!Indices, Indices
<1> QED
  BY <1>2, <1>3

\* Every step of the threads is a step of ParallelLoops, or changes nothing it sees.
LEMMA StepMaps == Inv /\ [Next]_vars => [PL!Next]_(PL!vars)
<1> SUFFICES ASSUME Inv, [Next]_vars PROVE PL!Next \/ UNCHANGED <<call, visit>>
  BY DEF PL!vars
<1>1. ASSUME NEW w \in Workers, Worker(w) PROVE UNCHANGED <<call, visit>>
  BY <1>1 DEF Worker, exit, wait, start, finish, loopVars
<1>2. ASSUME NEW t \in Threads, NEW l \in Loops, Caller(t, l) PROVE PL!Next \/ UNCHANGED <<call, visit>>
  <2>1. CASE parallelFor(t, l)
    <3>1. PL!Call(l)
      BY <2>1 DEF parallelFor, PL!Call
    <3> QED
      BY <3>1 DEF PL!Next
  <2>2. CASE spawn(t, l) \/ spawnNotifies(t, l) \/ check(t, l)
    BY <2>2 DEF spawn, spawnNotifies, check
  <2>3. CASE take(t, l)
    BY <2>3, TakeMaps DEF take, InBody, PL!Next
  <2>4. CASE taken(t, l)
    BY <2>4, EndBodyMaps DEF taken, InBody, PL!Next
  <2>5. CASE watch(t, l)
    BY <2>5, watchMaps DEF PL!Next
  <2> QED
    BY <1>2, <2>1, <2>2, <2>3, <2>4, <2>5 DEF Caller
<1>3. ASSUME NEW t \in Threads, NEW l \in Loops, Helper(t, l) PROVE PL!Next \/ UNCHANGED <<call, visit>>
  <2>1. CASE enter(t, l) \/ leave(t, l) \/ wakeCaller(t, l)
    BY <2>1 DEF enter, leave, wakeCaller
  <2>2. CASE help(t, l)
    BY <2>2, TakeMaps DEF help, InBody, PL!Next
  <2>3. CASE helped(t, l)
    BY <2>3, EndBodyMaps DEF helped, InBody, PL!Next
  <2> QED
    BY <1>3, <2>1, <2>2, <2>3 DEF Helper
<1>4. CASE MainThread
  BY <1>4 DEF MainThread, schedule, scheduleNotifies, waitIdle, requestStop, join, loopVars
<1>5. CASE UNCHANGED vars
  BY <1>5 DEF vars
<1> QED
  BY <1>1, <1>2, <1>3, <1>4, <1>5 DEF Next

\* parallelFor keeps its promise: body is called once for each index, only while its caller is in
\* the loop, and the loop returns when every call has.
THEOREM ParallelForImplementsLoops == Spec => LoopsAsPromised
BY InitMaps, StepMaps, Invariant, PTL DEF Spec, LoopsAsPromised, PL!Spec

\* A loop that has returned has called body for each index, and each call has ended.
ReturnedIsDone ==
  \A l \in Loops : call[l] = "returned" => \A i \in Indices(l) : visit[l][i] = "done"

\* A loop that has returned has done all its indices: the promise keeps this.
LEMMA LoopsReturnDone == Spec => []ReturnedIsDone
<1>1. Init => ReturnedIsDone
  BY DEF Init, ReturnedIsDone
<1>2. ASSUME Inv, ReturnedIsDone, [PL!Next]_(PL!vars) PROVE ReturnedIsDone'
  <2>1. CASE UNCHANGED <<call, visit>>
    BY <1>2, <2>1 DEF ReturnedIsDone
  <2>2. ASSUME NEW l \in Loops, PL!Call(l) PROVE ReturnedIsDone'
    <3>1. /\ UNCHANGED visit /\ call'[l] = "called"
          /\ \A m \in Loops \ {l} : call'[m] = call[m]
      BY <1>2, <2>2, Types DEF PL!Call
    <3> QED
      BY <1>2, <3>1 DEF ReturnedIsDone
  <2>3. ASSUME NEW l \in Loops, PL!Return(l) PROVE ReturnedIsDone'
    <3>1. /\ UNCHANGED visit /\ \A i \in Indices(l) : visit[l][i] = "done"
          /\ \A m \in Loops \ {l} : call'[m] = call[m]
      BY <1>2, <2>3, Types DEF PL!Return, PL!Indices, Indices
    <3> QED
      BY <1>2, <3>1 DEF ReturnedIsDone
  <2>4. ASSUME NEW l \in Loops, NEW i \in PL!Indices(l), PL!Begin(l, i) \/ PL!End(l, i)
        PROVE  ReturnedIsDone'
    <3>1. i \in Indices(l) /\ visit[l][i] # "done"
      BY <2>4 DEF PL!Begin, PL!End, PL!Indices, Indices
    <3>2. call[l] # "returned"
      BY <1>2, <3>1 DEF ReturnedIsDone
    <3>3. UNCHANGED call /\ \A m \in Loops \ {l} : visit'[m] = visit[m]
      BY <1>2, <2>4, Types DEF PL!Begin, PL!End
    <3> QED
      BY <1>2, <3>2, <3>3 DEF ReturnedIsDone
  <2> QED
    BY <1>2, <2>1, <2>2, <2>3, <2>4 DEF PL!Next, PL!vars
<1> QED
  BY <1>1, <1>2, StepMaps, Invariant, PTL DEF Spec

\* A helper that starts after its loop has returned never enters body, which is gone: the loop
\* returned because its calls of body had ended, and no index is left for the helper.
THEOREM LateHelpers == Spec => []LateHelpersStayOut
<1>1. Inv /\ ReturnedIsDone => LateHelpersStayOut
  <2> SUFFICES ASSUME Inv, ReturnedIsDone, NEW l \in Loops, NEW t \in Threads, at[l][t] \in InBody
               PROVE  call[l] = "called"
    BY DEF LateHelpersStayOut
  <2>1. index[l][t] \in Indices(l) /\ visit[l][index[l][t]] = "running"
    BY DEF Inv, BodyHoldsIndex
  <2>2. call[l] # "returned"
    BY <2>1 DEF ReturnedIsDone
  <2>3. call[l] # "uncalled"
    BY DEF Inv, NobodyBefore, InBody
  <2> QED
    BY <2>2, <2>3, Types
<1> QED
  BY <1>1, Invariant, LoopsReturnDone, PTL

-----------------------------------------------------------------------------
(* No job is overlooked. *)

ready == {w \in Workers : worker[w] = "ready"}
notifying == {l \in Loops : \E t \in Threads : at[l][t] = "ping"}

\* The loops of which a helper is about to be notified can be counted, at any time.
Attended == IsFiniteSet(notifying) /\ NoJobIsOverlooked

\* What NoJobIsOverlooked compares are natural numbers.
LEMMA Numbers ==
  ASSUME Inv, Attended
  PROVE  /\ IsFiniteSet(ready) /\ Cardinality(ready) \in Nat
         /\ IsFiniteSet(notifying) /\ Cardinality(notifying) \in Nat
         /\ Len(queue) \in Nat
         /\ notices = Cardinality(notifying) + IF main = "ping" THEN 1 ELSE 0
<1>1. IsFiniteSet(ready)
  BY Finite, FS_Subset DEF ready
<1>2. Len(queue) \in Nat
  BY Types, LenProperties
<1> QED
  BY <1>1, <1>2, FS_CardinalityType DEF Attended, notices, notifying

\* A step that queues nothing, keeps the notifications to send and makes no worker less ready.
LEMMA NothingOverlooked ==
  ASSUME Inv, Inv', Attended, Len(queue') <= Len(queue), UNCHANGED stop,
         notifying' = notifying, main = "ping" => main' = "ping", ready \subseteq ready',
         Waiting' \subseteq Waiting
  PROVE  Attended'
<1>1. IsFiniteSet(ready') /\ Cardinality(ready') \in Nat /\ Len(queue') \in Nat
  <2>1. IsFiniteSet(ready')
    BY Finite, FS_Subset DEF ready
  <2>2. queue' \in Seq(Jobs \cup Loops)
    BY DEF Inv, TypeOK
  <2> QED
    BY <2>1, <2>2, FS_CardinalityType, LenProperties
<1>2. Cardinality(ready) <= Cardinality(ready')
  BY <1>1, FS_Subset
<1>3. notices' = Cardinality(notifying') + IF main' = "ping" THEN 1 ELSE 0
  BY DEF notices, notifying
<1> SUFFICES ASSUME Waiting' # {}, \A w \in Workers : ~stop[w]
             PROVE  Len(queue') <= Cardinality(ready') + notices'
  BY DEF Attended, NoJobIsOverlooked, ready
<1>4. Len(queue) <= Cardinality(ready) + notices
  BY DEF Attended, NoJobIsOverlooked, ready
<1> QED
  BY <1>1, <1>2, <1>3, <1>4, Numbers

\* A thread that neither starts nor ends a notification changes nothing of those to send.
LEMMA GoesNotifying ==
  ASSUME TypeOK, NEW t \in Threads, NEW l \in Loops, NEW from, NEW to \in Places,
         Goes(t, l, from, to), from # "ping", to # "ping"
  PROVE  notifying' = notifying
<1>1. /\ at[l][t] = from /\ at'[l][t] = to
      /\ \A m \in Loops, u \in Threads : m # l \/ u # t => at'[m][u] = at[m][u]
  BY GoesMoves
<1> QED
  BY <1>1 DEF notifying

\* A notification makes a worker ready, when one waits.
LEMMA NotifyOneReadies ==
  ASSUME Inv, NotifyOne
  PROVE  \/ Waiting = {} /\ worker' = worker
         \/ /\ IsFiniteSet(ready') /\ Cardinality(ready') = Cardinality(ready) + 1
            /\ Waiting' \subseteq Waiting
<1>1. CASE Waiting = {}
  BY <1>1 DEF NotifyOne
<1>2. CASE Waiting # {}
  <2>1. PICK w \in Waiting : worker' = [worker EXCEPT ![w] = "ready"]
    BY <1>2 DEF NotifyOne
  <2>2. ready' = ready \cup {w} /\ w \notin ready /\ Waiting' \subseteq Waiting
    BY <2>1 DEF ready, Waiting, Inv, TypeOK
  <2>3. IsFiniteSet(ready)
    BY Finite, FS_Subset DEF ready
  <2> QED
    BY <2>2, <2>3, FS_AddElement
<1> QED
  BY <1>1, <1>2

\* A worker that waits has just found the queue empty, and one that starts takes what it found.
LEMMA WorkerAttends ==
  ASSUME Inv, Inv', Attended, NEW w \in Workers, Worker(w)
  PROVE  Attended'
<1>1. CASE exit(w)
  <2>1. stop'[w] /\ UNCHANGED at
    BY <1>1 DEF exit, loopVars
  <2> QED
    BY <2>1 DEF Attended, NoJobIsOverlooked, notifying
<1>2. CASE wait(w)
  <2>1. queue' = <<>> /\ UNCHANGED <<at, main>>
    BY <1>2 DEF wait, loopVars
  <2>2. IsFiniteSet(ready') /\ Cardinality(ready') \in Nat
    BY Finite, FS_Subset, FS_CardinalityType DEF ready
  <2>3. notices' = notices /\ notices \in Nat /\ notifying' = notifying
    BY <2>1, Numbers DEF notices, notifying
  <2> QED
    BY <2>1, <2>2, <2>3 DEF Attended, NoJobIsOverlooked, ready
<1>3. CASE start(w)
  <2>1. /\ worker[w] = "ready" /\ worker' = [worker EXCEPT ![w] = "busy"]
        /\ queue # <<>> /\ queue' = Tail(queue) /\ UNCHANGED <<stop, main>>
    BY <1>3 DEF start
  <2>2. notifying' = notifying
    <3>1. CASE at' = at
      BY <3>1 DEF notifying
    <3>2. CASE Head(queue) \in Loops /\ at' = [at EXCEPT ![Head(queue)][w] = "enter"]
      <4>1. Goes(w, Head(queue), "out", "enter")
        BY <2>1, <3>2 DEF Goes, InNoLoop, Inv, FreeWorkers
      <4> QED
        BY <3>2, <4>1, Types, GoesNotifying DEF Inv, Places, Threads, HelperAt
    <3> QED
      BY <1>3, <3>1, <3>2 DEF start
  <2>3. ready' = ready \ {w} /\ w \in ready /\ Waiting' = Waiting
    BY <2>1 DEF ready, Waiting, Inv, TypeOK
  <2>4. Cardinality(ready') = Cardinality(ready) - 1
    BY <2>3, Numbers, FS_RemoveElement
  <2>5. Len(queue') = Len(queue) - 1
    BY <2>1, Types, HeadTailProperties
  <2>6. notices' = notices /\ notices \in Nat
    <3>1. notices' = Cardinality(notifying') + IF main' = "ping" THEN 1 ELSE 0
      BY DEF notices, notifying
    <3> QED
      BY <2>1, <2>2, <3>1, Numbers
  <2> QED
    BY <2>1, <2>2, <2>3, <2>4, <2>5, <2>6, Numbers DEF Attended, NoJobIsOverlooked, ready
<1>4. CASE finish(w)
  <2>1. /\ UNCHANGED <<queue, stop, at>>
        /\ worker[w] = "busy" /\ worker' = [worker EXCEPT ![w] = "ready"]
        /\ main = "ping" => main' = "ping"
    BY <1>4 DEF finish, loopVars
  <2>2. ready \subseteq ready' /\ Waiting' \subseteq Waiting
    BY <2>1 DEF ready, Waiting, Inv, TypeOK
  <2>3. notifying' = notifying
    BY <2>1 DEF notifying
  <2> QED
    BY <2>1, <2>2, <2>3, Numbers, NothingOverlooked
<1> QED
  BY <1>1, <1>2, <1>3, <1>4 DEF Worker

\* A job the main thread queues comes with a notification to send.
LEMMA MainThreadAttends ==
  ASSUME Inv, Inv', Attended, MainThread
  PROVE  Attended'
<1>1. notifying' = notifying
  BY DEF MainThread, schedule, scheduleNotifies, waitIdle, requestStop, join, loopVars, notifying
<1>2. ASSUME NEW j \in Jobs, schedule(j) PROVE Attended'
  <2>1. /\ main = "free" /\ main' = "ping" /\ queue' = Append(queue, j)
        /\ UNCHANGED <<worker, stop>>
    BY <1>2 DEF schedule
  <2>2. Len(queue') = Len(queue) + 1
    BY <2>1, Types, AppendProperties
  <2>3. notices' = notices + 1 /\ notices \in Nat
    <3>1. notices' = Cardinality(notifying') + IF main' = "ping" THEN 1 ELSE 0
      BY DEF notices, notifying
    <3> QED
      BY <1>1, <2>1, <3>1, Numbers
  <2> QED
    BY <1>1, <2>1, <2>2, <2>3, Numbers DEF Attended, NoJobIsOverlooked, ready, Waiting
<1>3. CASE scheduleNotifies
  <2>1. main = "ping" /\ main' = "free" /\ NotifyOne /\ UNCHANGED <<queue, stop>>
    BY <1>3 DEF scheduleNotifies
  <2>2. notices' = notices - 1 /\ notices \in Nat
    <3>1. notices' = Cardinality(notifying') + IF main' = "ping" THEN 1 ELSE 0
      BY DEF notices, notifying
    <3> QED
      BY <1>1, <2>1, <3>1, Numbers
  <2>3. CASE Waiting = {} /\ worker' = worker
    BY <1>1, <2>3 DEF Attended, NoJobIsOverlooked, Waiting
  <2>4. CASE Cardinality(ready') = Cardinality(ready) + 1 /\ Waiting' \subseteq Waiting
    BY <1>1, <2>1, <2>2, <2>4, Numbers DEF Attended, NoJobIsOverlooked, ready
  <2> QED
    BY <2>1, <2>3, <2>4, NotifyOneReadies
<1>4. CASE waitIdle \/ join
  <2>1. UNCHANGED <<queue, stop, worker>> /\ main # "ping"
    BY <1>4 DEF waitIdle, join
  <2> QED
    BY <1>1, <2>1, Numbers, NothingOverlooked DEF ready, Waiting
<1>5. ASSUME NEW w \in Workers, requestStop(w) PROVE Attended'
  <2>1. stop'[w]
    BY <1>5 DEF requestStop, Inv, TypeOK
  <2> QED
    BY <1>1, <2>1 DEF Attended, NoJobIsOverlooked
<1> QED
  BY <1>2, <1>3, <1>4, <1>5 DEF MainThread

\* So does each helper a caller queues, whose notification only its caller sends.
LEMMA SpawnAttends ==
  ASSUME Inv, Inv', Attended, NEW t \in Threads, NEW l \in Loops,
         spawn(t, l) \/ spawnNotifies(t, l)
  PROVE  Attended'
<1>1. \A u \in Threads : at[l][u] \in CallerAt => u = t
  BY DEF spawn, spawnNotifies, Goes, CallerAt, Inv, OneCaller
<1>2. CASE spawn(t, l) /\ left[l] > 0
  <2>1. /\ Goes(t, l, "spawn", "ping") /\ queue' = Append(queue, l)
        /\ UNCHANGED <<worker, stop, main>>
    BY <1>2, Types DEF spawn
  <2>2. /\ at[l][t] = "spawn" /\ at'[l][t] = "ping"
        /\ \A m \in Loops, u \in Threads : m # l \/ u # t => at'[m][u] = at[m][u]
    BY <2>1, GoesMoves DEF Inv, Places, CallerAt
  <2>3. notifying' = notifying \cup {l} /\ l \notin notifying
    BY <1>1, <2>2 DEF notifying, CallerAt
  <2>4. IsFiniteSet(notifying') /\ Cardinality(notifying') = Cardinality(notifying) + 1
    BY <2>3, Numbers, FS_AddElement
  <2>5. notices' = notices + 1 /\ notices \in Nat
    BY <2>1, <2>4, Numbers DEF notices, notifying
  <2>6. Len(queue') = Len(queue) + 1
    BY <2>1, Types, AppendProperties
  <2> QED
    BY <2>1, <2>4, <2>5, <2>6, Numbers DEF Attended, NoJobIsOverlooked, ready, Waiting
<1>3. CASE spawn(t, l) /\ ~(left[l] > 0)
  <2>1. Goes(t, l, "spawn", "take") /\ UNCHANGED <<queue, worker, stop, main>>
    BY <1>3 DEF spawn, pool
  <2>2. notifying' = notifying
    BY <2>1, GoesNotifying DEF Inv, Places, CallerAt
  <2> QED
    BY <2>1, <2>2, Numbers, NothingOverlooked DEF ready, Waiting
<1>4. CASE spawnNotifies(t, l)
  <2>1. Goes(t, l, "ping", "spawn") /\ NotifyOne /\ UNCHANGED <<queue, stop, main>>
    BY <1>4 DEF spawnNotifies
  <2>2. /\ at[l][t] = "ping" /\ at'[l][t] = "spawn"
        /\ \A m \in Loops, u \in Threads : m # l \/ u # t => at'[m][u] = at[m][u]
    BY <2>1, GoesMoves DEF Inv, Places, CallerAt
  <2>3. notifying' = notifying \ {l} /\ l \in notifying
    BY <1>1, <2>2 DEF notifying, CallerAt
  <2>4. IsFiniteSet(notifying') /\ Cardinality(notifying') = Cardinality(notifying) - 1
    BY <2>3, Numbers, FS_RemoveElement
  <2>5. notices' = notices - 1 /\ notices \in Nat
    BY <2>1, <2>4, Numbers DEF notices, notifying
  <2>6. CASE Waiting = {} /\ worker' = worker
    BY <2>4, <2>6 DEF Attended, NoJobIsOverlooked, Waiting
  <2>7. CASE Cardinality(ready') = Cardinality(ready) + 1 /\ Waiting' \subseteq Waiting
    BY <2>1, <2>4, <2>5, <2>7, Numbers DEF Attended, NoJobIsOverlooked, ready
  <2> QED
    BY <2>1, <2>6, <2>7, NotifyOneReadies
<1> QED
  BY <1>2, <1>3, <1>4

\* The other steps of a loop have nothing to do with the queue.
LEMMA LoopAttends ==
  ASSUME Inv, Inv', Attended, NEW t \in Threads, NEW l \in Loops, Caller(t, l) \/ Helper(t, l)
  PROVE  Attended'
<1>1. CASE spawn(t, l) \/ spawnNotifies(t, l)
  BY <1>1, SpawnAttends
<1>2. ASSUME UNCHANGED pool, notifying' = notifying PROVE Attended'
  BY <1>2, Numbers, NothingOverlooked DEF pool, ready, Waiting
<1>3. ASSUME NEW from, NEW to \in Places, Goes(t, l, from, to), from # "ping", to # "ping",
             UNCHANGED pool
      PROVE  Attended'
  BY <1>2, <1>3, GoesNotifying DEF Inv
<1>4. CASE parallelFor(t, l)
  BY <1>3, <1>4 DEF parallelFor, Places, CallerAt
<1>5. CASE take(t, l) \/ help(t, l)
  BY <1>3, <1>5, Types DEF take, help, Take, Places, CallerAt, HelperAt
<1>6. CASE taken(t, l) \/ helped(t, l)
  BY <1>3, <1>6 DEF taken, helped, EndBody, Places, CallerAt, HelperAt
<1>7. CASE watch(t, l) \/ check(t, l)
  BY <1>3, <1>7 DEF watch, check, Places, CallerAt
<1>8. CASE enter(t, l) \/ leave(t, l)
  BY <1>3, <1>8 DEF enter, leave, Places, HelperAt
<1>9. CASE wakeCaller(t, l)
  <2>1. \A m \in Loops, u \in Threads : at'[m][u] = "ping" <=> at[m][u] = "ping"
    BY <1>9, Types DEF wakeCaller
  <2> QED
    BY <1>2, <1>9, <2>1 DEF wakeCaller, notifying
<1> QED
  BY <1>1, <1>4, <1>5, <1>6, <1>7, <1>8, <1>9 DEF Caller, Helper

\* While a worker sleeps and the pool is not being destroyed, each job in the queue has a worker
\* on its way to it or a notification to come: schedule() may notify after it let the queue go.
THEOREM NothingIsOverlooked == Spec => []NoJobIsOverlooked
<1>1. Init => Attended
  <2> SUFFICES ASSUME Init PROVE Attended
    OBVIOUS
  <2>1. notifying = {}
    BY DEF Init, notifying
  <2>2. Waiting = {}
    BY DEF Init, Waiting
  <2> QED
    BY <2>1, <2>2, FS_EmptySet DEF Attended, NoJobIsOverlooked
<1>2. Inv /\ Inv' /\ Attended /\ [Next]_vars => Attended'
  <2> SUFFICES ASSUME Inv, Inv', Attended, [Next]_vars PROVE Attended'
    OBVIOUS
  <2>1. CASE UNCHANGED vars
    BY <2>1, Numbers, NothingOverlooked DEF vars, ready, Waiting, notifying
  <2> QED
    BY <2>1, WorkerAttends, LoopAttends, MainThreadAttends DEF Next
<1>3. Attended => NoJobIsOverlooked
  BY DEF Attended
<1> QED
  BY <1>1, <1>2, <1>3, Invariant, PTL DEF Spec

=============================================================================
