------------------------------ MODULE JobPool ------------------------------
(***************************************************************************)
(* The worker pool every blocking piece of work runs on                    *)
(* (crates/alacritree_common/src/jobs.rs).                                 *)
(*                                                                         *)
(* A job is submitted to one of two queues, taken by a worker thread under *)
(* the queue lock, run, and reported over a one-shot channel to the handle *)
(* its owner holds.  Dropping the handle cancels the job: the flag is set  *)
(* and the child process the job registered, if any, is killed.  The UI    *)
(* thread reads the channels only while it draws a frame, and draws one    *)
(* when the pool's waker asks for it.                                      *)
(*                                                                         *)
(* One action is one critical section, one atomic store or one system call *)
(* of the code, so every interleaving of the worker, the dropping thread,  *)
(* the submitting thread and the child process is a behaviour.             *)
(***************************************************************************)
EXTENDS Naturals, Sequences, FiniteSets

CONSTANTS
    Jobs,         \* every job that may ever be submitted
    Workers,      \* the pool's threads
    NoJob,        \* a worker's task between jobs
    Kept,         \* bound: the jobs whose owners never drop the handle
    MaxChildren   \* bound: how many children one job runs, one after another

(* Pool::new clamps its size to at least two.                              *)
ASSUME PoolAssumption ==
    /\ IsFiniteSet(Workers)
    /\ Cardinality(Workers) >= 2
    /\ NoJob \notin Jobs
    /\ Kept \subseteq Jobs
    /\ MaxChildren \in Nat

VARIABLES
    queue,        \* State.interactive and State.background
    running,      \* State.interactive_running and State.background_running
    unnotified,   \* how many pushes have not called Condvar::notify_one yet
    pc,           \* where each worker is
    task,         \* the job each worker holds
    slot,         \* which counter each worker's SlotGuard will release, if any
    handle,       \* Job<T>: unborn, held, or a step of Job::drop
    flag,         \* Cancel.flag
    registered,   \* Cancel.child holds the job's child
    proc,         \* the job's child, and once reaped how it was reported
    children,     \* how many children the job has started
    chan,         \* the message in the job's mpsc channel
    seen,         \* what Job::poll has handed over; "failed" is the latch
    end,          \* Progress.end
    frame         \* the waker asked for a frame that has not been drawn

poolVars  == <<queue, running, unnotified>>
workVars  == <<pc, task, slot>>
childVars == <<registered, proc, children>>
readVars  == <<chan, seen, end>>
vars == <<poolVars, workVars, handle, flag, childVars, readVars, frame>>

Classes == {"interactive", "background"}
NumWorkers == Cardinality(Workers)

(* Program points at which a worker's task has a child to answer for.      *)
ChildPoints == {"spawned", "recheck", "wait", "collect"}
(* Program points between settling the job's end and announcing it.        *)
EndPoints == {"settled", "failing", "wake"}
(* Program points at which the worker holds a task and its slot.           *)
BusyPoints == {"check", "run", "release"} \cup ChildPoints \cup EndPoints
Points == {"scan", "asleep", "notify"} \cup BusyPoints

(* A child: alive (dying once a kill was sent), ended and not reaped, or   *)
(* reaped and reported to the closure.                                     *)
Alive == {"running", "dying"}
Ended == {"exited", "killed"}
Reaped == {"ok", "cancelled", "limit"}

TypeOK ==
    /\ queue \in [Classes -> Seq(Jobs)]
    /\ running \in [Classes -> Nat]
    /\ unnotified \in Nat
    /\ pc \in [Workers -> Points]
    /\ task \in [Workers -> Jobs \cup {NoJob}]
    /\ slot \in [Workers -> Classes \cup {"none"}]
    /\ handle \in [Jobs -> {"unborn", "held", "settled", "flagged", "dropped"}]
    /\ flag \in [Jobs -> BOOLEAN]
    /\ registered \in [Jobs -> BOOLEAN]
    /\ proc \in [Jobs -> {"none"} \cup Alive \cup Ended \cup Reaped]
    /\ children \in [Jobs -> 0..MaxChildren]
    /\ chan \in [Jobs -> {"empty", "value", "failure"}]
    /\ seen \in [Jobs -> {"nothing", "value", "failed"}]
    /\ end \in [Jobs -> {"none", "Returned", "Panicked", "Cancelled"}]
    /\ frame \in BOOLEAN

Init ==
    /\ queue = [c \in Classes |-> <<>>]
    /\ running = [c \in Classes |-> 0]
    /\ unnotified = 0
    /\ pc = [w \in Workers |-> "scan"]
    /\ task = [w \in Workers |-> NoJob]
    /\ slot = [w \in Workers |-> "none"]
    /\ handle = [j \in Jobs |-> "unborn"]
    /\ flag = [j \in Jobs |-> FALSE]
    /\ registered = [j \in Jobs |-> FALSE]
    /\ proc = [j \in Jobs |-> "none"]
    /\ children = [j \in Jobs |-> 0]
    /\ chan = [j \in Jobs |-> "empty"]
    /\ seen = [j \in Jobs |-> "nothing"]
    /\ end = [j \in Jobs |-> "none"]
    /\ frame = FALSE

-----------------------------------------------------------------------------
(* Helpers.                                                                *)

Goto(w, p) == pc' = [pc EXCEPT ![w] = p]

(* Mutated form: the last end recorded wins.                               *)
LastSettled(j, e) == e

(* settle: the first end recorded wins.                                    *)
Settled(j, e) == IF end[j] = "none" THEN e ELSE end[j]
Settle(j, e) == end' = [end EXCEPT ![j] = Settled(j, e)]

(* Child::kill: a process that already ended is left as it is.             *)
AfterKill(p) == IF p = "running" THEN "dying" ELSE p

(* Cancel::kill_registered: kill in place whatever the slot holds.         *)
KillRegistered(j) ==
    proc' = [proc EXCEPT ![j] = IF registered[j] THEN AfterKill(@) ELSE @]

(* Mutated form: the cap compares without the one held free.              *)
CanTakeToTheLast(c) == running[c] < NumWorkers /\ queue[c] # <<>>

(* take: each class is capped one below the worker count.                  *)
CanTake(c) == running[c] + 1 < NumWorkers /\ queue[c] # <<>>
Refused(c) == c = "background" /\ CanTake("interactive")

-----------------------------------------------------------------------------
(* The submitting thread: Pool::spawn.                                     *)

(* Mutated form: the push is not followed by a notification.               *)
SpawnSilently(j, c) ==
    /\ handle[j] = "unborn"
    /\ handle' = [handle EXCEPT ![j] = "held"]
    /\ queue' = [queue EXCEPT ![c] = Append(@, j)]
    /\ UNCHANGED <<running, unnotified, workVars, flag, childVars, readVars, frame>>

Spawn(j, c) ==
    /\ handle[j] = "unborn"
    /\ handle' = [handle EXCEPT ![j] = "held"]
    /\ queue' = [queue EXCEPT ![c] = Append(@, j)]
    /\ unnotified' = unnotified + 1
    /\ UNCHANGED <<running, workVars, flag, childVars, readVars, frame>>

(* notify_one runs after the queue lock is released.  It wakes one sleeper *)
(* and is lost when there is none.                                         *)
NotifyOne ==
    /\ unnotified > 0
    /\ unnotified' = unnotified - 1
    /\ \/ \E w \in Workers : pc[w] = "asleep" /\ Goto(w, "scan")
       \/ (\A w \in Workers : pc[w] # "asleep") /\ UNCHANGED pc
    /\ UNCHANGED <<queue, running, task, slot, handle, flag, childVars, readVars, frame>>

-----------------------------------------------------------------------------
(* The worker's loop: worker().                                            *)

Take(w) ==
    /\ pc[w] = "scan"
    /\ \E c \in Classes :
         /\ CanTake(c) /\ ~Refused(c)
         /\ queue' = [queue EXCEPT ![c] = Tail(@)]
         /\ running' = [running EXCEPT ![c] = @ + 1]
         /\ task' = [task EXCEPT ![w] = Head(queue[c])]
         /\ slot' = [slot EXCEPT ![w] = c]
    /\ Goto(w, "check")
    /\ UNCHANGED <<unnotified, handle, flag, childVars, readVars, frame>>

(* Nothing to take: Condvar::wait releases the lock and sleeps in one step. *)
Sleep(w) ==
    /\ pc[w] = "scan"
    /\ \A c \in Classes : ~CanTake(c)
    /\ Goto(w, "asleep")
    /\ UNCHANGED <<poolVars, task, slot, handle, flag, childVars, readVars, frame>>

(* A condition variable may return without a notification; the loop looks  *)
(* again.                                                                  *)
SpuriousWake(w) ==
    /\ pc[w] = "asleep"
    /\ Goto(w, "scan")
    /\ UNCHANGED <<poolVars, task, slot, handle, flag, childVars, readVars, frame>>

(* A task cancelled before it started is skipped: no wake, no report.      *)
CheckCancelled(w) ==
    /\ pc[w] = "check"
    /\ Goto(w, IF flag[task[w]] THEN "release" ELSE "run")
    /\ UNCHANGED <<poolVars, task, slot, handle, flag, childVars, readVars, frame>>

(* Blocking::step_done wakes the UI from inside the closure.               *)
StepDone(w) ==
    /\ pc[w] = "run"
    /\ frame' = TRUE
    /\ UNCHANGED <<poolVars, workVars, handle, flag, childVars, readVars>>

(* Mutated form: the value is sent first and the end settled after it, as  *)
(* if the two statements of the task's closure were swapped.               *)
ReturnSendingFirst(w) ==
    /\ pc[w] = "run"
    /\ chan' = [chan EXCEPT ![task[w]] = IF handle[task[w]] = "dropped" THEN @ ELSE "value"]
    /\ Goto(w, "settled")
    /\ UNCHANGED <<poolVars, task, slot, handle, flag, childVars, seen, end, frame>>

(* The closure returned: its end is settled before the value is sent.      *)
Return(w) ==
    /\ pc[w] = "run"
    /\ Settle(task[w], "Returned")
    /\ Goto(w, "settled")
    /\ UNCHANGED <<poolVars, task, slot, handle, flag, childVars, chan, seen, frame>>

(* The closure unwound: catch_unwind caught it and the end is settled.     *)
Panic(w) ==
    /\ pc[w] = "run"
    /\ Settle(task[w], "Panicked")
    /\ Goto(w, "failing")
    /\ UNCHANGED <<poolVars, task, slot, handle, flag, childVars, chan, seen, frame>>

(* Mutated form: no on_failure, so a panic leaves the channel quiet.       *)
SendOnlyValues(w) ==
    /\ pc[w] \in {"settled", "failing"}
    /\ chan' = [chan EXCEPT ![task[w]] =
                  IF handle[task[w]] = "dropped" \/ pc[w] = "failing" THEN @ ELSE "value"]
    /\ Goto(w, "wake")
    /\ UNCHANGED <<poolVars, task, slot, handle, flag, childVars, seen, end, frame>>

(* The send of the value, or on_failure's send; lost once the receiver is  *)
(* gone.                                                                   *)
Send(w) ==
    /\ pc[w] \in {"settled", "failing"}
    /\ chan' = [chan EXCEPT ![task[w]] =
                  IF handle[task[w]] = "dropped" THEN @
                  ELSE IF pc[w] = "settled" THEN "value" ELSE "failure"]
    /\ Goto(w, "wake")
    /\ UNCHANGED <<poolVars, task, slot, handle, flag, childVars, seen, end, frame>>

(* WakeOnEnd drops.                                                        *)
WakeUI(w) ==
    /\ pc[w] = "wake"
    /\ frame' = TRUE
    /\ Goto(w, "release")
    /\ UNCHANGED <<poolVars, task, slot, handle, flag, childVars, readVars>>

(* Mutated form: the slot is given back by whichever class is running, not *)
(* by the class the task was taken under.                                  *)
ReleaseInteractive(w) ==
    /\ pc[w] = "release"
    /\ running' = [running EXCEPT !["interactive"] = @ - 1]
    /\ task' = [task EXCEPT ![w] = NoJob]
    /\ slot' = [slot EXCEPT ![w] = "none"]
    /\ Goto(w, "notify")
    /\ UNCHANGED <<queue, unnotified, handle, flag, childVars, readVars, frame>>

(* SlotGuard drops: the counter goes down under the lock ...               *)
Release(w) ==
    /\ pc[w] = "release"
    /\ running' = [running EXCEPT ![slot[w]] = @ - 1]
    /\ task' = [task EXCEPT ![w] = NoJob]
    /\ slot' = [slot EXCEPT ![w] = "none"]
    /\ Goto(w, "notify")
    /\ UNCHANGED <<queue, unnotified, handle, flag, childVars, readVars, frame>>

(* ... and every sleeper is woken after it.                                *)
NotifyAll(w) ==
    /\ pc[w] = "notify"
    /\ pc' = [v \in Workers |->
                IF v = w \/ pc[v] = "asleep" THEN "scan" ELSE pc[v]]
    /\ UNCHANGED <<poolVars, task, slot, handle, flag, childVars, readVars, frame>>

-----------------------------------------------------------------------------
(* A child process under Blocking::run_cancellable or run_drained.         *)

SpawnChild(w) ==
    LET j == task[w] IN
    /\ pc[w] = "run"
    /\ children[j] < MaxChildren
    /\ children' = [children EXCEPT ![j] = @ + 1]
    /\ proc' = [proc EXCEPT ![j] = "running"]
    /\ Goto(w, "spawned")
    /\ UNCHANGED <<poolVars, task, slot, handle, flag, registered, readVars, frame>>

Register(w) ==
    /\ pc[w] = "spawned"
    /\ registered' = [registered EXCEPT ![task[w]] = TRUE]
    /\ Goto(w, "recheck")
    /\ UNCHANGED <<poolVars, task, slot, handle, flag, proc, children, readVars, frame>>

(* Mutated form: the registration trusts the cancel to see it.             *)
RecheckNothing(w) ==
    /\ pc[w] = "recheck"
    /\ Goto(w, "wait")
    /\ UNCHANGED <<poolVars, task, slot, handle, flag, childVars, readVars, frame>>

(* The cancel that ran before the registration found nothing to kill.      *)
Recheck(w) ==
    /\ pc[w] = "recheck"
    /\ IF flag[task[w]] THEN KillRegistered(task[w]) ELSE UNCHANGED proc
    /\ Goto(w, "wait")
    /\ UNCHANGED <<poolVars, task, slot, handle, flag, registered, children,
                   readVars, frame>>

(* Mutated form: every observed exit is the child's own.                   *)
WaitBelievesExit(w) ==
    LET j == task[w] IN
    /\ pc[w] = "wait"
    /\ proc[j] \in Ended
    /\ registered' = [registered EXCEPT ![j] = FALSE]
    /\ proc' = [proc EXCEPT ![j] = "ok"]
    /\ Goto(w, "run")
    /\ UNCHANGED <<poolVars, task, slot, handle, flag, children, readVars, frame>>

(* try_wait saw the exit: the child leaves the slot, reaped, and the flag  *)
(* decides whose exit it was.                                              *)
WaitExited(w) ==
    LET j == task[w] IN
    /\ pc[w] = "wait"
    /\ proc[j] \in Ended
    /\ registered' = [registered EXCEPT ![j] = FALSE]
    /\ proc' = [proc EXCEPT ![j] = IF flag[j] THEN "cancelled" ELSE "ok"]
    /\ Goto(w, "run")
    /\ UNCHANGED <<poolVars, task, slot, handle, flag, children, readVars, frame>>

(* Mutated form: the child is taken out of the slot and only killed.       *)
WaitDropsChild(w) ==
    LET j == task[w] IN
    /\ pc[w] = "wait"
    /\ proc[j] \in Alive
    /\ registered' = [registered EXCEPT ![j] = FALSE]
    /\ proc' = [proc EXCEPT ![j] = AfterKill(@)]
    /\ Goto(w, "run")
    /\ UNCHANGED <<poolVars, task, slot, handle, flag, children, readVars, frame>>

(* The deadline of run_drained passed, or try_wait failed: the child is    *)
(* taken out of the slot and killed by the worker itself.                  *)
WaitGaveUp(w) ==
    LET j == task[w] IN
    /\ pc[w] = "wait"
    /\ proc[j] \in Alive
    /\ registered' = [registered EXCEPT ![j] = FALSE]
    /\ proc' = [proc EXCEPT ![j] = AfterKill(@)]
    /\ Goto(w, "collect")
    /\ UNCHANGED <<poolVars, task, slot, handle, flag, children, readVars, frame>>

(* Child::wait returns once the killed child is gone.                      *)
Collect(w) ==
    LET j == task[w] IN
    /\ pc[w] = "collect"
    /\ proc[j] \in Ended
    /\ proc' = [proc EXCEPT ![j] = "limit"]
    /\ Goto(w, "run")
    /\ UNCHANGED <<poolVars, task, slot, handle, flag, registered, children, readVars, frame>>

(* The child ends by itself, or the kill lands.                            *)
ChildExits(j) ==
    /\ proc[j] = "running"
    /\ proc' = [proc EXCEPT ![j] = "exited"]
    /\ UNCHANGED <<poolVars, workVars, handle, flag, registered, children, readVars, frame>>

KillLands(j) ==
    /\ proc[j] = "dying"
    /\ proc' = [proc EXCEPT ![j] = "killed"]
    /\ UNCHANGED <<poolVars, workVars, handle, flag, registered, children, readVars, frame>>

-----------------------------------------------------------------------------
(* The handle's owner: Job::drop, one step per lock or store it takes.     *)

DropSettle(j) ==
    /\ handle[j] = "held" /\ j \notin Kept
    /\ Settle(j, "Cancelled")
    /\ handle' = [handle EXCEPT ![j] = "settled"]
    /\ UNCHANGED <<poolVars, workVars, flag, childVars, chan, seen, frame>>

DropFlag(j) ==
    /\ handle[j] = "settled"
    /\ flag' = [flag EXCEPT ![j] = TRUE]
    /\ handle' = [handle EXCEPT ![j] = "flagged"]
    /\ UNCHANGED <<poolVars, workVars, childVars, readVars, frame>>

DropKill(j) ==
    /\ handle[j] = "flagged"
    /\ KillRegistered(j)
    /\ handle' = [handle EXCEPT ![j] = "dropped"]
    /\ UNCHANGED <<poolVars, workVars, flag, registered, children, readVars, frame>>

(* One UI frame: every handle still held is polled.                        *)
Frame ==
    LET polled == {j \in Jobs : handle[j] = "held" /\ chan[j] # "empty"} IN
    /\ seen' = [j \in Jobs |-> IF j \notin polled THEN seen[j]
                               ELSE IF chan[j] = "value" THEN "value" ELSE "failed"]
    /\ chan' = [j \in Jobs |-> IF j \in polled THEN "empty" ELSE chan[j]]
    /\ frame' = FALSE
    /\ UNCHANGED <<poolVars, workVars, handle, flag, childVars, end>>

-----------------------------------------------------------------------------
WorkerStep(w) ==
    \/ Take(w) \/ Sleep(w) \/ CheckCancelled(w)
    \/ Register(w) \/ Recheck(w) \/ WaitExited(w) \/ Collect(w)
    \/ Send(w) \/ WakeUI(w) \/ Release(w) \/ NotifyAll(w)

ClosureStep(w) == StepDone(w) \/ Return(w) \/ Panic(w) \/ SpawnChild(w) \/ WaitGaveUp(w)

OwnerStep(j) == DropSettle(j) \/ DropFlag(j) \/ DropKill(j)

Next ==
    \/ \E j \in Jobs, c \in Classes : Spawn(j, c)
    \/ \E j \in Jobs : OwnerStep(j) \/ ChildExits(j) \/ KillLands(j)
    \/ NotifyOne
    \/ \E w \in Workers : WorkerStep(w) \/ ClosureStep(w) \/ SpuriousWake(w)
    \/ Frame

Spec == Init /\ [][Next]_vars

(* Threads run: a worker between two steps of the loop takes the next one, *)
(* a submitted job's notification is sent, a drop that began completes, a  *)
(* kill lands, and a requested frame is drawn.  Nothing says a closure     *)
(* returns, a child exits by itself or a condition variable wakes          *)
(* spuriously.                                                             *)
Fairness ==
    /\ \A w \in Workers : WF_vars(WorkerStep(w))
    /\ \A j \in Jobs : /\ WF_vars(KillLands(j))
                       /\ WF_vars(DropFlag(j)) /\ WF_vars(DropKill(j))
    /\ WF_vars(NotifyOne)
    /\ WF_vars(frame /\ Frame)

FairSpec == Spec /\ Fairness

(* What the pool's callers owe it: a background closure that is not        *)
(* waiting for a child gets to its end.                                    *)
BackgroundReturns ==
    \A w \in Workers :
        WF_vars(slot[w] = "background" /\ (Return(w) \/ Panic(w)))

CallerSpec == FairSpec /\ BackgroundReturns

-----------------------------------------------------------------------------
(* Properties.                                                             *)

Busy(c) == {w \in Workers : pc[w] \in BusyPoints /\ slot[w] = c}
WorksOn(w, j) == pc[w] \in BusyPoints /\ task[w] = j

(* The counters the two caps read are exact through skips, returns and     *)
(* panics, and no class ever holds every worker: a pool full of background *)
(* walks leaves a worker for a click and the other way round (take and     *)
(* SlotGuard).                                                             *)
SlotAccounting ==
    \A c \in Classes : running[c] = Cardinality(Busy(c)) /\ running[c] < NumWorkers

(* No lost wake-up: while a worker sleeps on a queue it could take from,   *)
(* another is about to look, about to notify, or the notification of a     *)
(* push is still on its way (spawn notifies after unlocking, SlotGuard     *)
(* after decrementing).                                                    *)
NoLostWakeup ==
    ((\E c \in Classes : CanTake(c)) /\ (\E w \in Workers : pc[w] = "asleep"))
        => unnotified > 0 \/ \E w \in Workers : pc[w] \in {"scan", "notify"}

(* A child that a cancel should have killed runs only while the kill is    *)
(* still to come: from the drop that set the flag, or from the worker that *)
(* registered the child after it (wait_registered's second look).          *)
CancelReachesChild ==
    \A j \in Jobs :
        (flag[j] /\ registered[j] /\ proc[j] = "running")
            => handle[j] = "flagged" \/ \E w \in Workers : task[w] = j /\ pc[w] = "recheck"

(* A child not yet reaped has a worker that will reap it: Child::drop      *)
(* neither kills nor reaps, so whoever takes the child out of the slot     *)
(* must collect it.                                                        *)
NoOrphanChild ==
    \A j \in Jobs :
        proc[j] \in Alive \cup Ended
            => \E w \in Workers : task[w] = j /\ pc[w] \in ChildPoints

(* A process that a cancel killed never reads as one that finished: the    *)
(* flag is set before the kill and read after the exit.                    *)
KillReadsAsCancelled ==
    [][\A j \in Jobs : proc[j] = "killed" => proc'[j] # "ok"]_vars

(* Whatever the owner took off the channel agrees with the end a progress  *)
(* reader shows, also when the handle is dropped the moment the value is   *)
(* taken (settle before send, settle before cancel).                       *)
SeenMatchesEnd ==
    \A j \in Jobs : /\ seen[j] = "value" => end[j] = "Returned"
                    /\ seen[j] = "failed" => end[j] = "Panicked"

(* The first end recorded is the last: a later drop or return never        *)
(* rewrites what a reader already saw.                                     *)
EndIsFinal == [][\A j \in Jobs : end[j] # "none" => end'[j] = end[j]]_vars

(* A result waiting for a held handle has a frame coming to read it:       *)
(* nothing but a frame polls, and nothing but the wake asks for one.       *)
ResultAnnounced ==
    \A j \in Jobs :
        (chan[j] # "empty" /\ handle[j] = "held")
            => frame \/ \E w \in Workers : task[w] = j /\ pc[w] = "wake"

(* An owner that keeps its handle is told the truth, and in time.          *)
OwnerTold == SeenMatchesEnd /\ ResultAnnounced

(* A job that ended without being cancelled has reported it, by value or   *)
(* by on_failure: the channel never just goes quiet.                       *)
EndIsReported ==
    \A j \in Jobs :
        (/\ end[j] \in {"Returned", "Panicked"}
         /\ handle[j] = "held"
         /\ \A w \in Workers : ~WorksOn(w, j))
        => chan[j] # "empty" \/ seen[j] # "nothing"

(* A cancelled job's child stops costing a core: whatever the moment of    *)
(* the drop, it is killed and reaped, unless it ended by itself first.     *)
CancelStopsChild ==
    \A j \in Jobs :
        (flag[j] /\ proc[j] = "running") ~> (proc[j] \in Reaped)

(* A job left in its queue is taken once the jobs of its own class end,    *)
(* whatever the closures of the other class do.                            *)
NotShutOut ==
    \A j \in Jobs :
        (\E i \in DOMAIN queue["background"] : queue["background"][i] = j)
            ~> (\E w \in Workers : task[w] = j)

(* A panic or a value reaches an owner that keeps the handle.              *)
ResultSeen ==
    \A j \in Jobs :
        (end[j] \in {"Returned", "Panicked"} /\ handle[j] = "held")
            ~> (seen[j] # "nothing" \/ handle[j] # "held")

-----------------------------------------------------------------------------
(* What the pool promises the owners of its jobs.                          *)
Promise == INSTANCE JobPromise WITH
               owner <- [j \in Jobs |-> CASE handle[j] = "unborn" -> "none"
                                          [] handle[j] = "held" -> "keeps"
                                          [] OTHER -> "gone"]

ImplementsPromise == Promise!Spec
=============================================================================
