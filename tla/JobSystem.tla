------------------------------ MODULE JobSystem ------------------------------
(***************************************************************************)
(* core::JobSystem: a pool of workers that take jobs from one queue, and    *)
(* parallelFor, whose calling thread shares the indices of a loop with the  *)
(* helpers it schedules.  The mutex of the queue makes an action of what it *)
(* protects; each atomic operation of a loop is an action of its own; a     *)
(* notification is a step after the change it tells of.                     *)
(*                                                                          *)
(* A loop is called by the main thread, by a job, or by the body of another *)
(* loop, as the importers do: a mesh per index, and a row per index of each *)
(* of its textures.  A thread may then be in several loops at once, waiting *)
(* in the body of all but the innermost.                                    *)
(***************************************************************************)
EXTENDS Integers, FiniteSets, Sequences

CONSTANTS
  Main,       \* the thread that owns the job system
  Workers,    \* its workers
  Jobs,       \* the jobs the main thread schedules
  Loops,      \* the calls of parallelFor
  Count,      \* how many indices each loop has
  MainLoops,  \* the loops the main thread calls
  JobLoop,    \* the loop each job calls, or NoLoop
  BodyLoop,   \* the loop body(index) calls, per loop and index, or NoLoop
  NoLoop

ASSUME JobSystemAssumption ==
  /\ IsFiniteSet(Workers) /\ Main \notin Workers
  /\ Jobs \cap Loops = {} /\ NoLoop \notin Jobs \cup Loops
  /\ Count \in [Loops -> Nat \ {0}]
  /\ MainLoops \subseteq Loops
  /\ JobLoop \in [Jobs -> Loops \cup {NoLoop}]

Threads == Workers \cup {Main}
Indices(l) == 0 .. Count[l] - 1

(* Where a thread is in a loop.  As its caller: scheduling a helper, about to
   notify a worker of it, taking an index, in the body, then waiting for the
   helpers: about to load their number, about to wait for it to change, asleep.
   As a helper: about to count itself, taking an index, in the body, about to
   leave, about to notify. *)
CallerAt == {"spawn", "ping", "take", "takeBody", "watch", "check", "asleep"}
HelperAt == {"enter", "help", "helpBody", "leave", "wake"}
InBody == {"takeBody", "helpBody"}
Counted == {"help", "helpBody", "leave"}

VARIABLES
  queue,     \* the jobs to start: a job, or a loop for one of its helpers
  running,   \* m_runningJobs
  worker,    \* of each worker: ready for a job, waiting, busy or exited
  stop,      \* of each worker: it was asked to stop
  main,      \* what the main thread does when it is in no loop
  scheduled, \* the jobs the main thread has scheduled
  doing,     \* the job or helper each worker runs
  at,        \* where each thread is in each loop, or out of it
  index,     \* the index each thread has in each loop
  next,      \* nextIndex of each loop
  active,    \* activeHelpers of each loop
  seen,      \* the number of helpers the caller of each loop waits to see change
  left,      \* how many helpers the caller of each loop has still to schedule
  call,      \* of each loop: uncalled, called or returned
  visit      \* of each loop and index: waiting, running, done, or twice when called again

pool == <<queue, running, worker, stop, main, scheduled, doing>>
loopVars == <<at, index, next, active, seen, left, call, visit>>
vars == <<queue, running, worker, stop, main, scheduled, doing,
          at, index, next, active, seen, left, call, visit>>

TypeOK ==
  /\ queue \in Seq(Jobs \cup Loops)
  /\ running \in Nat
  /\ worker \in [Workers -> {"ready", "waiting", "busy", "exited"}]
  /\ stop \in [Workers -> BOOLEAN]
  /\ main \in {"free", "ping", "idle", "idleWaiting", "stopping", "destroyed"}
  /\ scheduled \in SUBSET Jobs
  /\ doing \in [Workers -> Jobs \cup Loops \cup {NoLoop}]
  /\ at \in [Loops -> [Threads -> CallerAt \cup HelperAt \cup {"out"}]]
  /\ index \in [Loops -> [Threads -> Nat]]
  /\ next \in [Loops -> Nat]
  /\ active \in [Loops -> Nat]
  /\ seen \in [Loops -> Nat]
  /\ left \in [Loops -> Nat]
  /\ call \in [Loops -> {"uncalled", "called", "returned"}]
  /\ DOMAIN visit = Loops
  /\ \A l \in Loops : visit[l] \in [Indices(l) -> {"waiting", "running", "done", "twice"}]

Init ==
  /\ queue = <<>>
  /\ running = 0
  /\ worker = [w \in Workers |-> "ready"]
  /\ stop = [w \in Workers |-> FALSE]
  /\ main = "free"
  /\ scheduled = {}
  /\ doing = [w \in Workers |-> NoLoop]
  /\ at = [l \in Loops |-> [t \in Threads |-> "out"]]
  /\ index = [l \in Loops |-> [t \in Threads |-> 0]]
  /\ next = [l \in Loops |-> 0]
  /\ active = [l \in Loops |-> 0]
  /\ seen = [l \in Loops |-> 0]
  /\ left = [l \in Loops |-> 0]
  /\ call = [l \in Loops |-> "uncalled"]
  /\ visit = [l \in Loops |-> [i \in Indices(l) |-> "waiting"]]

\* Thread t goes from one point of loop l to another.
Goes(t, l, from, to) ==
  /\ at[l][t] = from
  /\ at' = [at EXCEPT ![l][t] = to]

InNoLoop(t) == \A l \in Loops : at[l][t] = "out"
Waiting == {w \in Workers : worker[w] = "waiting"}

\* Mutant: nobody is notified of a job.
NotifyOne_Nobody == UNCHANGED worker

\* m_jobAvailable.notify_one(), which nobody may be there to hear.
NotifyOne ==
  IF Waiting = {} THEN UNCHANGED worker
  ELSE \E w \in Waiting : worker' = [worker EXCEPT ![w] = "ready"]

-----------------------------------------------------------------------------
(* The workers: runWorker(). *)

\* With the mutex: a worker told to stop exits, whatever is queued.
exit(w) ==
  /\ worker[w] = "ready" /\ stop[w]
  /\ worker' = [worker EXCEPT ![w] = "exited"]
  /\ UNCHANGED <<queue, running, stop, main, scheduled, doing, loopVars>>

\* Mutant: the worker waits for a notification without looking at the queue.
wait_Blind(w) ==
  /\ worker[w] = "ready" /\ ~stop[w]
  /\ worker' = [worker EXCEPT ![w] = "waiting"]
  /\ UNCHANGED <<queue, running, stop, main, scheduled, doing, loopVars>>

wait(w) ==
  /\ worker[w] = "ready" /\ ~stop[w] /\ queue = <<>>
  /\ worker' = [worker EXCEPT ![w] = "waiting"]
  /\ UNCHANGED <<queue, running, stop, main, scheduled, doing, loopVars>>

\* Mutant: only jobs are counted, not the helpers of loops.
start_Uncounted(w) ==
  LET job == Head(queue)
  IN  /\ worker[w] = "ready" /\ ~stop[w] /\ queue # <<>>
      /\ queue' = Tail(queue)
      /\ running' = IF job \in Loops THEN running ELSE running + 1
      /\ worker' = [worker EXCEPT ![w] = "busy"]
      /\ doing' = [doing EXCEPT ![w] = job]
      /\ at' = IF job \in Loops THEN [at EXCEPT ![job][w] = "enter"] ELSE at
      /\ UNCHANGED <<stop, main, scheduled, index, next, active, seen, left, call, visit>>

start(w) ==
  LET job == Head(queue)
  IN  /\ worker[w] = "ready" /\ ~stop[w] /\ queue # <<>>
      /\ queue' = Tail(queue)
      /\ running' = running + 1
      /\ worker' = [worker EXCEPT ![w] = "busy"]
      /\ doing' = [doing EXCEPT ![w] = job]
      /\ at' = IF job \in Loops THEN [at EXCEPT ![job][w] = "enter"] ELSE at
      /\ UNCHANGED <<stop, main, scheduled, index, next, active, seen, left, call, visit>>

\* Mutant: waitIdle is told before the job stops being counted.
finish_Early(w) ==
  /\ worker[w] = "busy" /\ InNoLoop(w)
  /\ doing[w] \in Jobs /\ JobLoop[doing[w]] # NoLoop => call[JobLoop[doing[w]]] = "returned"
  /\ worker' = [worker EXCEPT ![w] = "ready"]
  /\ doing' = [doing EXCEPT ![w] = NoLoop]
  /\ running' = running - 1
  /\ main' = IF main = "idleWaiting" /\ queue = <<>> /\ running = 0 THEN "idle" ELSE main
  /\ UNCHANGED <<queue, stop, scheduled, loopVars>>

\* The job has returned, with the loop it called when it calls one.
finish(w) ==
  /\ worker[w] = "busy" /\ InNoLoop(w)
  /\ doing[w] \in Jobs /\ JobLoop[doing[w]] # NoLoop => call[JobLoop[doing[w]]] = "returned"
  /\ worker' = [worker EXCEPT ![w] = "ready"]
  /\ doing' = [doing EXCEPT ![w] = NoLoop]
  /\ running' = running - 1
  /\ main' = IF main = "idleWaiting" /\ queue = <<>> /\ running = 1 THEN "idle" ELSE main
  /\ UNCHANGED <<queue, stop, scheduled, loopVars>>

-----------------------------------------------------------------------------
(* The main thread: schedule(), waitIdle() and the destructor. *)

schedule(j) ==
  /\ main = "free" /\ InNoLoop(Main) /\ j \notin scheduled
  /\ main' = "ping"
  /\ scheduled' = scheduled \cup {j}
  /\ queue' = Append(queue, j)
  /\ UNCHANGED <<running, worker, stop, doing, loopVars>>

scheduleNotifies ==
  /\ main = "ping"
  /\ main' = "free"
  /\ NotifyOne
  /\ UNCHANGED <<queue, running, stop, scheduled, doing, loopVars>>

waitIdle ==
  \/ /\ main = "free" /\ InNoLoop(Main)
     /\ main' = "idle"
     /\ UNCHANGED <<queue, running, worker, stop, scheduled, doing, loopVars>>
  \/ /\ main = "idle"
     /\ main' = IF queue = <<>> /\ running = 0 THEN "free" ELSE "idleWaiting"
     /\ UNCHANGED <<queue, running, worker, stop, scheduled, doing, loopVars>>

\* Mutant: the workers wait for a job without the stop token.
requestStop_Unheard(w) ==
  /\ main \in {"free", "stopping"} /\ InNoLoop(Main) /\ ~stop[w]
  /\ main' = "stopping"
  /\ stop' = [stop EXCEPT ![w] = TRUE]
  /\ UNCHANGED <<queue, running, worker, scheduled, doing, loopVars>>

\* ~JobSystem(): a stop request wakes whoever waits for a job.
requestStop(w) ==
  /\ main \in {"free", "stopping"} /\ InNoLoop(Main) /\ ~stop[w]
  /\ main' = "stopping"
  /\ stop' = [stop EXCEPT ![w] = TRUE]
  /\ worker' = [v \in Workers |-> IF worker[v] = "waiting" THEN "ready" ELSE worker[v]]
  /\ UNCHANGED <<queue, running, scheduled, doing, loopVars>>

join ==
  /\ main = "stopping" /\ \A w \in Workers : worker[w] = "exited"
  /\ main' = "destroyed"
  /\ UNCHANGED <<queue, running, worker, stop, scheduled, doing, loopVars>>

-----------------------------------------------------------------------------
(* parallelFor(), on its calling thread. *)

\* What a thread is about to call: a loop of the main thread, of its job, or of the body it is in.
Calls(t, l) ==
  \/ t = Main /\ l \in MainLoops /\ main = "free" /\ InNoLoop(Main)
  \/ t \in Workers /\ worker[t] = "busy" /\ InNoLoop(t) /\ doing[t] \in Jobs /\ JobLoop[doing[t]] = l
  \/ \E o \in Loops : at[o][t] \in InBody /\ BodyLoop[o][index[o][t]] = l

helpers(l) == LET most == Count[l] - 1
                  all == Cardinality(Workers)
              IN  IF all < most THEN all ELSE most

parallelFor(t, l) ==
  /\ call[l] = "uncalled" /\ Calls(t, l)
  /\ Goes(t, l, "out", "spawn")
  /\ call' = [call EXCEPT ![l] = "called"]
  /\ left' = [left EXCEPT ![l] = helpers(l)]
  /\ UNCHANGED <<pool, index, next, active, seen, visit>>

spawn(t, l) ==
  \/ /\ left[l] > 0
     /\ Goes(t, l, "spawn", "ping")
     /\ queue' = Append(queue, l)
     /\ left' = [left EXCEPT ![l] = @ - 1]
     /\ UNCHANGED <<running, worker, stop, main, scheduled, doing, index, next, active, seen, call, visit>>
  \/ /\ left[l] = 0
     /\ Goes(t, l, "spawn", "take")
     /\ UNCHANGED <<pool, index, next, active, seen, left, call, visit>>

spawnNotifies(t, l) ==
  /\ Goes(t, l, "ping", "spawn")
  /\ NotifyOne
  /\ UNCHANGED <<queue, running, stop, main, scheduled, doing, index, next, active, seen, left, call, visit>>

\* Mutant: a helper reads the next index without taking it.
Take_Unclaimed(t, l, from, body, after) ==
  /\ next' = IF from = "help" THEN next ELSE [next EXCEPT ![l] = @ + 1]
  /\ \/ /\ next[l] < Count[l]
        /\ Goes(t, l, from, body)
        /\ index' = [index EXCEPT ![l][t] = next[l]]
        /\ visit' = [visit EXCEPT ![l][next[l]] = IF @ = "waiting" THEN "running" ELSE "twice"]
     \/ /\ next[l] >= Count[l]
        /\ Goes(t, l, from, after)
        /\ UNCHANGED <<index, visit>>
  /\ UNCHANGED <<pool, active, seen, left, call>>

\* for (index = nextIndex.fetch_add(1); index < count; ...): body(index) begins, or no index is left.
Take(t, l, from, body, after) ==
  /\ next' = [next EXCEPT ![l] = @ + 1]
  /\ \/ /\ next[l] < Count[l]
        /\ Goes(t, l, from, body)
        /\ index' = [index EXCEPT ![l][t] = next[l]]
        /\ visit' = [visit EXCEPT ![l][next[l]] = IF @ = "waiting" THEN "running" ELSE "twice"]
     \/ /\ next[l] >= Count[l]
        /\ Goes(t, l, from, after)
        /\ UNCHANGED <<index, visit>>
  /\ UNCHANGED <<pool, active, seen, left, call>>

take(t, l) == Take(t, l, "take", "takeBody", "watch")
help(t, l) == Take(t, l, "help", "helpBody", "leave")

\* body(index) returns, after the loop it called when it calls one.
EndBody(t, l, body, to) ==
  LET nested == BodyLoop[l][index[l][t]]
  IN  /\ Goes(t, l, body, to)
      /\ nested # NoLoop => call[nested] = "returned"
      /\ visit' = [visit EXCEPT ![l][index[l][t]] = IF @ = "running" THEN "done" ELSE @]
      /\ UNCHANGED <<pool, index, next, active, seen, left, call>>

taken(t, l) == EndBody(t, l, "takeBody", "take")
helped(t, l) == EndBody(t, l, "helpBody", "help")

\* for (active = activeHelpers.load(); active != 0; ...)
watch(t, l) ==
  \/ /\ active[l] = 0
     /\ Goes(t, l, "watch", "out")
     /\ call' = [call EXCEPT ![l] = "returned"]
     /\ UNCHANGED <<pool, index, next, active, seen, left, visit>>
  \/ /\ active[l] # 0
     /\ Goes(t, l, "watch", "check")
     /\ seen' = [seen EXCEPT ![l] = active[l]]
     /\ UNCHANGED <<pool, index, next, active, left, call, visit>>

\* activeHelpers.wait(active): asleep as long as the number is the same when it looks.
check(t, l) ==
  /\ Goes(t, l, "check", IF active[l] = seen[l] THEN "asleep" ELSE "watch")
  /\ UNCHANGED <<pool, index, next, active, seen, left, call, visit>>

-----------------------------------------------------------------------------
(* The job of a helper. *)

enter(t, l) ==
  /\ Goes(t, l, "enter", "help")
  /\ active' = [active EXCEPT ![l] = @ + 1]
  /\ UNCHANGED <<pool, index, next, seen, left, call, visit>>

\* Mutant: the last helper takes the number after it left for the one before.
leave_Silent(t, l) ==
  /\ Goes(t, l, "leave", IF active[l] = 0 THEN "wake" ELSE "out")
  /\ active' = [active EXCEPT ![l] = @ - 1]
  /\ UNCHANGED <<pool, index, next, seen, left, call, visit>>

leave(t, l) ==
  /\ Goes(t, l, "leave", IF active[l] = 1 THEN "wake" ELSE "out")
  /\ active' = [active EXCEPT ![l] = @ - 1]
  /\ UNCHANGED <<pool, index, next, seen, left, call, visit>>

\* activeHelpers.notify_all(): the caller looks again at the number it waits to see change.
wakeCaller(t, l) ==
  /\ at[l][t] = "wake"
  /\ at' = [at EXCEPT ![l] = [u \in Threads |-> IF u = t THEN "out"
                                               ELSE IF @[u] = "asleep" THEN "check" ELSE @[u]]]
  /\ UNCHANGED <<pool, index, next, active, seen, left, call, visit>>

-----------------------------------------------------------------------------

Worker(w) == exit(w) \/ wait(w) \/ start(w) \/ finish(w)
Caller(t, l) ==
  parallelFor(t, l) \/ spawn(t, l) \/ spawnNotifies(t, l) \/ take(t, l) \/ taken(t, l)
    \/ watch(t, l) \/ check(t, l)
Helper(t, l) == enter(t, l) \/ help(t, l) \/ helped(t, l) \/ leave(t, l) \/ wakeCaller(t, l)
MainThread == (\E j \in Jobs : schedule(j)) \/ scheduleNotifies \/ waitIdle
                \/ (\E w \in Workers : requestStop(w)) \/ join

Next ==
  \/ \E w \in Workers : Worker(w)
  \/ \E t \in Threads, l \in Loops : Caller(t, l) \/ Helper(t, l)
  \/ MainThread

Spec == Init /\ [][Next]_vars

\* A thread goes on with the loops it is in, or that its job is to call.
InLoops(t) == (t = Main => ~InNoLoop(Main)) /\ \E l \in Loops : Caller(t, l) \/ Helper(t, l)

(* The threads are scheduled fairly.  What the main thread calls next is its own
   choice, but it goes through what it has called. *)
FairSpec ==
  /\ Spec
  /\ \A w \in Workers : WF_vars(Worker(w))
  /\ \A t \in Threads : WF_vars(InLoops(t))
  /\ WF_vars(scheduleNotifies)
  /\ WF_vars(main = "idle" /\ waitIdle)
  /\ WF_vars(main = "stopping" /\ \E w \in Workers : requestStop(w))
  /\ WF_vars(join)

-----------------------------------------------------------------------------
(* Properties *)

PL == INSTANCE ParallelLoops WITH
  Loops <- Loops, Count <- Count, call <- call, visit <- visit

\* parallelFor calls body once per index, whichever threads share them, only while its
\* caller is in it (body lives on the caller's stack), and returns after the last call has.
LoopsAsPromised == PL!Spec

\* A helper that starts late, after its loop has returned and body is gone, never touches body.
LateHelpersStayOut ==
  \A l \in Loops, t \in Threads : at[l][t] \in InBody => call[l] = "called"

\* waitIdle and the workers count the same jobs: one per worker between its two locks.
RunningCounted == running = Cardinality({w \in Workers : worker[w] = "busy"})

notices == Cardinality({l \in Loops : \E t \in Threads : at[l][t] = "ping"})
             + (IF main = "ping" THEN 1 ELSE 0)

\* Before the pool is being destroyed, no worker sleeps while a job has nobody to take it: for
\* each job in the queue a worker is on its way to it, or a notification is about to be sent.
NoJobIsOverlooked ==
  Waiting # {} /\ (\A w \in Workers : ~stop[w]) =>
    Len(queue) <= Cardinality({w \in Workers : worker[w] = "ready"}) + notices

\* A loop ends though every worker is busy, or stopped, and though other loops wait in its body.
LoopsReturn == \A l \in Loops : call[l] = "called" ~> call[l] = "returned"

\* waitIdle wakes up when the last job has ended.
IdleIsSeen == main = "idleWaiting" ~> main # "idleWaiting"

\* The destructor ends, whatever the workers are waiting for and whatever is still queued.
DestructorEnds == main = "stopping" ~> main = "destroyed"

Queued(j) == \E k \in DOMAIN queue : queue[k] = j

\* A job that was scheduled starts, unless the pool is destroyed first.
JobsStart == \A j \in Jobs : Queued(j) ~> ~Queued(j) \/ main \in {"stopping", "destroyed"}
=============================================================================
