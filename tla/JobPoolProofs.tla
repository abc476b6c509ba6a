--------------------------- MODULE JobPoolProofs ---------------------------
(***************************************************************************)
(* Theorems of JobPool, for any set of jobs, any finite set of at least    *)
(* two workers and any number of children per job.                         *)
(***************************************************************************)
EXTENDS JobPool, FiniteSetTheorems, SequenceTheorems, TLAPS

(* A worker holds a job and a slot exactly while it is between taking the  *)
(* one and releasing the other.                                            *)
Posts ==
    \A w \in Workers :
        IF pc[w] \in BusyPoints THEN task[w] \in Jobs /\ slot[w] \in Classes
        ELSE task[w] = NoJob /\ slot[w] = "none"

Holders(c) == {w \in Workers : slot[w] = c}

SlotCount ==
    \A c \in Classes : running[c] = Cardinality(Holders(c)) /\ running[c] < NumWorkers

(* First layer: types, the workers' posts and the two counters.            *)
Core == TypeOK /\ Posts /\ SlotCount

(* Second layer: a job is in one place at a time.                          *)
Queued(j) == \E c \in Classes : \E i \in 1..Len(queue[c]) : queue[c][i] = j
Taken(j) == \E w \in Workers : task[w] = j

QueuedOnce ==
    \A c, d \in Classes : \A i \in 1..Len(queue[c]), k \in 1..Len(queue[d]) :
        queue[c][i] = queue[d][k] => c = d /\ i = k

Placed ==
    /\ QueuedOnce
    /\ \A v, w \in Workers : task[v] = task[w] /\ task[v] # NoJob => v = w
    /\ \A j \in Jobs : Queued(j) => ~Taken(j)
    /\ \A j \in Jobs : handle[j] = "unborn" => ~Queued(j) /\ ~Taken(j)

(* Third layer: the child, its registration, the flag and the worker that  *)
(* answers for it.                                                         *)
ChildOf(w) ==
    LET j == task[w] IN
    /\ pc[w] = "spawned" => ~registered[j] /\ proc[j] \in {"running", "exited"}
    /\ pc[w] \in {"recheck", "wait"} =>
          registered[j] /\ (proc[j] \in {"dying", "killed"} => flag[j])
    /\ pc[w] = "collect" => ~registered[j]

Attended(j) ==
    (registered[j] \/ proc[j] \in Alive \cup Ended)
        => \E w \in Workers : task[w] = j /\ pc[w] \in ChildPoints

Children ==
    /\ \A w \in Workers : ChildOf(w)
    /\ \A j \in Jobs : Attended(j)
    /\ \A j \in Jobs : flag[j] <=> handle[j] \in {"flagged", "dropped"}
    /\ CancelReachesChild

(* Fourth layer: what was settled, sent and seen.                          *)
BeforeEnd == {"check", "run"} \cup ChildPoints

Quiet(j) == chan[j] = "empty" /\ seen[j] = "nothing"

ReportOf(w) ==
    LET j == task[w] IN
    /\ pc[w] \in BeforeEnd => Quiet(j) /\ end[j] \in {"none", "Cancelled"}
    /\ pc[w] = "settled" => Quiet(j) /\ end[j] \in {"Returned", "Cancelled"}
    /\ pc[w] = "failing" => Quiet(j) /\ end[j] \in {"Panicked", "Cancelled"}
    /\ pc[w] \in {"wake", "release"} /\ handle[j] = "held" => ~Quiet(j)

Waiting(j) == handle[j] = "unborn" \/ Queued(j)

Reports ==
    /\ \A w \in Workers : ReportOf(w)
    /\ \A j \in Jobs : Waiting(j) => Quiet(j) /\ end[j] \in {"none", "Cancelled"}
    /\ \A j \in Jobs : end[j] = "Cancelled" => handle[j] \notin {"unborn", "held"}
    /\ \A j \in Jobs : chan[j] # "empty" => seen[j] = "nothing"
    /\ \A j \in Jobs : handle[j] = "held" /\ chan[j] # "empty" =>
          end[j] = IF chan[j] = "value" THEN "Returned" ELSE "Panicked"
    /\ SeenMatchesEnd
    /\ EndIsReported
    /\ ResultAnnounced

IInv == Core /\ Placed /\ Children /\ Reports

-----------------------------------------------------------------------------
(* First layer.                                                            *)

(* Only Take and Release touch a counter or a slot.                        *)
LEMMA SlotsSteady ==
    ASSUME SlotCount, UNCHANGED <<running, slot>>
    PROVE  SlotCount'
BY DEF SlotCount, Holders

LEMMA HoldersFinite ==
    ASSUME NEW c \in Classes
    PROVE  IsFiniteSet(Holders(c)) /\ Cardinality(Holders(c)) \in Nat
<1>1. IsFiniteSet(Workers) BY PoolAssumption
<1>2. Holders(c) \in SUBSET Workers BY DEF Holders
<1>3. IsFiniteSet(Holders(c)) BY <1>1, <1>2, FS_Subset
<1>4. QED BY <1>3, FS_CardinalityType

LEMMA CoreInit == Init => Core
<1> SUFFICES ASSUME Init PROVE Core OBVIOUS
<1>1. TypeOK
  <2>1. queue \in [Classes -> Seq(Jobs)] BY EmptySeq DEF Init
  <2>2. 0 \in 0..MaxChildren BY PoolAssumption
  <2>3. QED BY <2>1, <2>2 DEF Init, TypeOK, Points
<1>2. Posts BY DEF Init, Posts, BusyPoints, ChildPoints, EndPoints
<1>3. SlotCount
  <2>1. \A c \in Classes : Holders(c) = {} BY DEF Init, Holders, Classes
  <2>2. NumWorkers \in Nat /\ NumWorkers >= 2
    BY PoolAssumption, FS_CardinalityType DEF NumWorkers
  <2>3. Cardinality({}) = 0 BY FS_EmptySet
  <2>4. \A c \in Classes : Cardinality(Holders(c)) = 0 BY <2>1, <2>3
  <2>5. \A c \in Classes : running[c] = 0 BY DEF Init
  <2>6. QED BY <2>2, <2>4, <2>5 DEF SlotCount
<1>4. QED BY <1>1, <1>2, <1>3 DEF Core

LEMMA CoreStep == Core /\ [Next]_vars => Core'
<1> SUFFICES ASSUME Core, [Next]_vars PROVE Core' OBVIOUS
<1> USE DEF Core, TypeOK, Posts, Points, BusyPoints, ChildPoints, EndPoints, Classes,
            Alive, Ended, Reaped, poolVars, workVars, childVars, readVars, Goto
<1>1. ASSUME NEW j \in Jobs, NEW c \in Classes, Spawn(j, c) PROVE Core'
  BY <1>1, SlotsSteady DEF Spawn
<1>2. ASSUME NotifyOne PROVE Core'
  <2>1. unnotified \in Nat /\ unnotified' = unnotified - 1 /\ unnotified > 0
    BY <1>2 DEF NotifyOne
  <2>2. unnotified' \in Nat BY <2>1
  <2>3. CASE UNCHANGED pc BY <1>2, <2>2, <2>3, SlotsSteady DEF NotifyOne
  <2>4. ASSUME NEW w \in Workers, pc[w] = "asleep", pc' = [pc EXCEPT ![w] = "scan"]
        PROVE  Core'
    BY <1>2, <2>2, <2>4, SlotsSteady DEF NotifyOne
  <2>5. QED BY <1>2, <2>3, <2>4 DEF NotifyOne
<1>3. ASSUME NEW w \in Workers, Take(w) PROVE Core'
  <2> USE DEF Take
  <2>1. PICK c \in Classes :
          /\ CanTake(c) /\ ~Refused(c)
          /\ queue' = [queue EXCEPT ![c] = Tail(@)]
          /\ running' = [running EXCEPT ![c] = @ + 1]
          /\ task' = [task EXCEPT ![w] = Head(queue[c])]
          /\ slot' = [slot EXCEPT ![w] = c]
    BY <1>3
  <2>2. /\ queue[c] \in Seq(Jobs) /\ queue[c] # <<>>
        /\ running[c] \in Nat /\ running[c] + 1 < NumWorkers
    BY <2>1 DEF CanTake
  <2>3. Head(queue[c]) \in Jobs /\ Tail(queue[c]) \in Seq(Jobs)
    BY <2>2, HeadTailProperties
  <2>4. TypeOK' /\ Posts' BY <1>3, <2>1, <2>2, <2>3
  <2>5. SlotCount'
    <3>1. slot[w] = "none" BY <1>3
    <3>2. Holders(c)' = Holders(c) \cup {w} /\ w \notin Holders(c)
      BY <2>1, <3>1 DEF Holders
    <3>3. \A d \in Classes : d # c => Holders(d)' = Holders(d)
      BY <2>1, <3>1 DEF Holders
    <3>4. IsFiniteSet(Holders(c)) BY HoldersFinite
    <3>5. Cardinality(Holders(c) \cup {w}) = Cardinality(Holders(c)) + 1
      BY <3>2, <3>4, FS_AddElement
    <3>6. Cardinality(Holders(c)') = Cardinality(Holders(c)) + 1 BY <3>2, <3>5
    <3>7. NumWorkers' = NumWorkers BY DEF NumWorkers
    <3>8. running'[c] = Cardinality(Holders(c)') /\ running'[c] < NumWorkers
      BY <2>1, <2>2, <3>6 DEF SlotCount
    <3>9. ASSUME NEW d \in Classes, d # c
          PROVE  running'[d] = Cardinality(Holders(d)') /\ running'[d] < NumWorkers
      <4>1. running'[d] = running[d] BY <2>1, <3>9
      <4>2. Cardinality(Holders(d)') = Cardinality(Holders(d)) BY <3>3, <3>9
      <4>3. QED BY <4>1, <4>2 DEF SlotCount
    <3>10. QED BY <3>7, <3>8, <3>9 DEF SlotCount
  <2>6. QED BY <2>4, <2>5
<1>4. ASSUME NEW w \in Workers, Sleep(w) PROVE Core'
  BY <1>4, SlotsSteady DEF Sleep
<1>5. ASSUME NEW w \in Workers, SpuriousWake(w) PROVE Core'
  BY <1>5, SlotsSteady DEF SpuriousWake
<1>6. ASSUME NEW w \in Workers, CheckCancelled(w) PROVE Core'
  BY <1>6, SlotsSteady DEF CheckCancelled
<1>7. ASSUME NEW w \in Workers, StepDone(w) PROVE Core'
  BY <1>7, SlotsSteady DEF StepDone
<1>8. ASSUME NEW w \in Workers, Return(w) PROVE Core'
  BY <1>8, SlotsSteady DEF Return, Settle, Settled
<1>9. ASSUME NEW w \in Workers, Panic(w) PROVE Core'
  BY <1>9, SlotsSteady DEF Panic, Settle, Settled
<1>10. ASSUME NEW w \in Workers, Send(w) PROVE Core'
  BY <1>10, SlotsSteady DEF Send
<1>11. ASSUME NEW w \in Workers, WakeUI(w) PROVE Core'
  BY <1>11, SlotsSteady DEF WakeUI
<1>12. ASSUME NEW w \in Workers, Release(w) PROVE Core'
  <2> USE DEF Release
  <2>0. PICK c \in Classes : c = slot[w] BY <1>12
  <2>1. /\ slot[w] = c /\ running[c] \in Nat
        /\ running' = [running EXCEPT ![c] = @ - 1]
        /\ slot' = [slot EXCEPT ![w] = "none"]
    BY <1>12, <2>0
  <2>2. Holders(c)' = Holders(c) \ {w} /\ w \in Holders(c)
    BY <2>1 DEF Holders
  <2>3. ASSUME NEW d \in Classes, d # c
        PROVE  Holders(d)' = Holders(d)
    <3>1. d # "none" /\ slot[w] # d BY <2>1, <2>3
    <3>2. \A v \in Workers : slot'[v] = d <=> slot[v] = d BY <2>1, <3>1
    <3>3. QED BY <3>2 DEF Holders
  <2>4. IsFiniteSet(Holders(c)) /\ Cardinality(Holders(c)) \in Nat
    BY <2>1, HoldersFinite
  <2>5. Cardinality(Holders(c)') = Cardinality(Holders(c)) - 1
    <3>1. Cardinality(Holders(c) \ {w}) = Cardinality(Holders(c)) - 1
      BY <2>2, <2>4, FS_RemoveElement
    <3>2. QED BY <2>2, <3>1
  <2>6. Cardinality(Holders(c)) # 0 BY <2>2, <2>4, FS_EmptySet
  <2>7. NumWorkers \in Nat BY PoolAssumption, FS_CardinalityType DEF NumWorkers
  <2>8. running[c] > 0 /\ running[c] - 1 \in Nat BY <2>1, <2>4, <2>6 DEF SlotCount
  <2>9. SlotCount'
    <3>1. running'[c] = Cardinality(Holders(c)') BY <2>1, <2>5 DEF SlotCount
    <3>2. running'[c] < NumWorkers BY <2>1, <2>7, <2>8 DEF SlotCount
    <3>3. ASSUME NEW d \in Classes, d # c
          PROVE  running'[d] = Cardinality(Holders(d)') /\ running'[d] < NumWorkers
      <4>1. running'[d] = running[d] BY <2>1, <3>3
      <4>2. Cardinality(Holders(d)') = Cardinality(Holders(d)) BY <2>3, <3>3
      <4>3. QED BY <4>1, <4>2 DEF SlotCount
    <3>4. NumWorkers' = NumWorkers BY DEF NumWorkers
    <3>5. QED BY <3>1, <3>2, <3>3, <3>4 DEF SlotCount
  <2>10. running' \in [Classes -> Nat] BY <2>1, <2>8
  <2>11. TypeOK' /\ Posts' BY <1>12, <2>10
  <2>12. QED BY <2>9, <2>11
<1>13. ASSUME NEW w \in Workers, NotifyAll(w) PROVE Core'
  BY <1>13, SlotsSteady DEF NotifyAll
<1>14. ASSUME NEW w \in Workers, SpawnChild(w) PROVE Core'
  <2>1. children' \in [Jobs -> 0..MaxChildren] BY <1>14, PoolAssumption DEF SpawnChild
  <2>2. QED BY <1>14, <2>1, SlotsSteady DEF SpawnChild
<1>15. ASSUME NEW w \in Workers, Register(w) PROVE Core'
  BY <1>15, SlotsSteady DEF Register
<1>16. ASSUME NEW w \in Workers, Recheck(w) PROVE Core'
  <2> DEFINE Procs == {"none"} \cup Alive \cup Ended \cup Reaped
  <2>1. proc' \in [Jobs -> Procs]
    <3>1. CASE flag[task[w]]
      <4>1. AfterKill(proc[task[w]]) \in Procs BY <1>16 DEF Recheck, AfterKill
      <4>2. KillRegistered(task[w]) BY <1>16, <3>1 DEF Recheck
      <4>3. QED BY <4>1, <4>2 DEF KillRegistered
    <3>2. CASE ~flag[task[w]] BY <1>16, <3>2 DEF Recheck
    <3>3. QED BY <3>1, <3>2
  <2>2. QED BY <1>16, <2>1, SlotsSteady DEF Recheck
<1>17. ASSUME NEW w \in Workers, WaitExited(w) PROVE Core'
  BY <1>17, SlotsSteady DEF WaitExited
<1>18. ASSUME NEW w \in Workers, WaitGaveUp(w) PROVE Core'
  BY <1>18, SlotsSteady DEF WaitGaveUp, AfterKill
<1>19. ASSUME NEW w \in Workers, Collect(w) PROVE Core'
  BY <1>19, SlotsSteady DEF Collect
<1>20. ASSUME NEW j \in Jobs, ChildExits(j) PROVE Core'
  BY <1>20, SlotsSteady DEF ChildExits
<1>21. ASSUME NEW j \in Jobs, KillLands(j) PROVE Core'
  BY <1>21, SlotsSteady DEF KillLands
<1>22. ASSUME NEW j \in Jobs, DropSettle(j) PROVE Core'
  BY <1>22, SlotsSteady DEF DropSettle, Settle, Settled
<1>23. ASSUME NEW j \in Jobs, DropFlag(j) PROVE Core'
  BY <1>23, SlotsSteady DEF DropFlag
<1>24. ASSUME NEW j \in Jobs, DropKill(j) PROVE Core'
  BY <1>24, SlotsSteady DEF DropKill, KillRegistered, AfterKill
<1>25. ASSUME Frame PROVE Core'
  BY <1>25, SlotsSteady DEF Frame
<1>26. CASE UNCHANGED vars
  BY <1>26, SlotsSteady DEF vars
<1>27. QED
  <2> HIDE DEF Core, TypeOK, Posts, Points, BusyPoints, ChildPoints, EndPoints, Classes, Alive,
              Ended, Reaped, poolVars, workVars, childVars, readVars, Goto
  <2>1. QED
    BY <1>1, <1>2, <1>3, <1>4, <1>5, <1>6, <1>7, <1>8, <1>9, <1>10, <1>11, <1>12, <1>13, <1>14,
       <1>15, <1>16, <1>17, <1>18, <1>19, <1>20, <1>21, <1>22, <1>23, <1>24, <1>25, <1>26
       DEF Next, WorkerStep, ClosureStep, OwnerStep

LEMMA CoreInvariant == Spec => []Core
BY CoreInit, CoreStep, PTL DEF Spec

(* Every variable keeps its type; the hard part is that neither counter    *)
(* ever goes below zero, whatever mix of skipped, returning and panicking  *)
(* tasks release their slots.                                              *)
THEOREM TypeCorrect == Spec => []TypeOK
<1>1. Core => TypeOK BY DEF Core
<1>2. QED BY <1>1, CoreInvariant, PTL

(* Both counters are exact and neither class ever holds every worker, for  *)
(* any number of workers: the promise of the comment on take.              *)
THEOREM SlotsExact == Spec => []SlotAccounting
<1>1. Core => SlotAccounting
  <2> SUFFICES ASSUME Core, NEW c \in Classes
               PROVE  running[c] = Cardinality(Busy(c)) /\ running[c] < NumWorkers
    BY DEF SlotAccounting
  <2>1. Busy(c) = Holders(c)
    BY DEF Core, Posts, Busy, Holders, Classes
  <2>2. QED BY <2>1 DEF Core, SlotCount
<1>2. QED BY <1>1, CoreInvariant, PTL

-----------------------------------------------------------------------------
(* Second layer.                                                           *)

LEMMA PlacedInit == Init => Placed
<1> SUFFICES ASSUME Init PROVE Placed OBVIOUS
<1>1. \A c \in Classes : Len(queue[c]) = 0 BY DEF Init
<1>2. \A c \in Classes : 1..Len(queue[c]) = {} BY <1>1
<1>3. \A j \in Jobs : ~Queued(j) /\ ~Taken(j)
  BY <1>2, PoolAssumption DEF Init, Queued, Taken
<1>4. QED BY <1>2, <1>3 DEF Init, Placed, QueuedOnce

(* Only Spawn, Take and Release move a job.                                *)
LEMMA PlacedSteady ==
    ASSUME Placed, UNCHANGED <<queue, task>>,
           \A j \in Jobs : handle'[j] = "unborn" => handle[j] = "unborn"
    PROVE  Placed'
BY DEF Placed, QueuedOnce, Queued, Taken

LEMMA OncePair ==
    ASSUME QueuedOnce, NEW c \in Classes, NEW d \in Classes,
           NEW i \in 1..Len(queue[c]), NEW k \in 1..Len(queue[d]),
           queue[c][i] = queue[d][k]
    PROVE  c = d /\ i = k
BY DEF QueuedOnce

LEMMA SpawnPlaces ==
    ASSUME Core, Placed, NEW j \in Jobs, NEW c \in Classes, Spawn(j, c)
    PROVE  Placed' /\ \A i \in Jobs : Queued(i)' => Queued(i) \/ i = j
<1>0. QueuedOnce BY DEF Placed
<1> USE DEF Core, TypeOK
<1>1. /\ queue' = [queue EXCEPT ![c] = Append(queue[c], j)]
      /\ handle' = [handle EXCEPT ![j] = "held"]
      /\ task' = task /\ handle[j] = "unborn"
  BY DEF Spawn, workVars
<1>2. ~Queued(j) /\ ~Taken(j) BY <1>1 DEF Placed
<1>3. /\ queue[c] \in Seq(Jobs) /\ Len(queue[c]) \in Nat
      /\ queue'[c] = Append(queue[c], j)
  BY <1>1
<1>4. /\ Len(queue'[c]) = Len(queue[c]) + 1
      /\ queue'[c][Len(queue[c]) + 1] = j
      /\ \A i \in 1..Len(queue[c]) : queue'[c][i] = queue[c][i]
  BY <1>3
<1>5. \A d \in Classes : d # c => queue'[d] = queue[d] BY <1>1
<1> DEFINE Old(d, i) == i \in 1..Len(queue[d]) /\ queue'[d][i] = queue[d][i]
                         /\ queue'[d][i] # j
           New(d, i) == d = c /\ i = Len(queue[c]) + 1 /\ queue'[d][i] = j
<1>6. ASSUME NEW d \in Classes, NEW i \in 1..Len(queue'[d])
      PROVE  Old(d, i) \/ New(d, i)
  <2>1. CASE d # c BY <1>2, <1>5, <2>1 DEF Queued
  <2>2. CASE d = c
    <3>1. i \in 1..Len(queue[c]) + 1 BY <1>4, <2>2
    <3>2. CASE i = Len(queue[c]) + 1 BY <1>4, <2>2, <3>2
    <3>3. CASE i \in 1..Len(queue[c]) BY <1>2, <1>4, <2>2, <3>3 DEF Queued
    <3>4. QED BY <1>3, <3>1, <3>2, <3>3
  <2>3. QED BY <2>1, <2>2
<1>7. QueuedOnce'
  <2> SUFFICES ASSUME NEW d \in Classes, NEW e \in Classes,
                      NEW i \in 1..Len(queue'[d]), NEW k \in 1..Len(queue'[e]),
                      queue'[d][i] = queue'[e][k]
               PROVE  d = e /\ i = k
    BY DEF QueuedOnce
  <2>1. (Old(d, i) \/ New(d, i)) /\ (Old(e, k) \/ New(e, k)) BY <1>6
  <2>2. CASE Old(d, i) /\ Old(e, k)
    <3>1. /\ i \in 1..Len(queue[d]) /\ k \in 1..Len(queue[e])
          /\ queue[d][i] = queue[e][k]
      BY <2>2
    <3> HIDE DEF Core, TypeOK
    <3>2. QED BY <3>1, <1>0, OncePair
  <2>3. CASE New(d, i) /\ New(e, k) BY <2>3
  <2>4. QED BY <2>1, <2>2, <2>3
<1>8. \A m \in Jobs : Queued(m)' => Queued(m) \/ m = j
  <2> SUFFICES ASSUME NEW m \in Jobs, NEW d \in Classes,
                      NEW i \in 1..Len(queue'[d]), queue'[d][i] = m
               PROVE  Queued(m) \/ m = j
    BY DEF Queued
  <2>1. Old(d, i) \/ New(d, i) BY <1>6
  <2>2. QED BY <2>1 DEF Queued
<1>9. \A m \in Jobs : Taken(m)' <=> Taken(m) BY <1>1 DEF Taken
<1>10. Placed' BY <1>1, <1>2, <1>7, <1>8, <1>9 DEF Placed
<1>11. QED BY <1>8, <1>10

LEMMA TakePlaces ==
    ASSUME Core, Placed, NEW w \in Workers, Take(w)
    PROVE  /\ Placed'
           /\ \E j \in Jobs : Queued(j) /\ ~Taken(j) /\ task' = [task EXCEPT ![w] = j]
           /\ \A j \in Jobs : Queued(j)' => Queued(j)
<1>0. QueuedOnce BY DEF Placed
<1> USE DEF Core, TypeOK
<1>1. PICK c \in Classes :
        /\ CanTake(c)
        /\ queue' = [queue EXCEPT ![c] = Tail(queue[c])]
        /\ task' = [task EXCEPT ![w] = Head(queue[c])]
  BY DEF Take
<1>2. handle' = handle /\ task[w] = NoJob
  BY DEF Take, Posts, BusyPoints, ChildPoints, EndPoints
<1> DEFINE q == queue[c]
<1>3. /\ q \in Seq(Jobs) /\ q # <<>> /\ Len(q) \in Nat /\ Len(q) >= 1
  BY <1>1, LenProperties, EmptySeq DEF CanTake
<1>4. /\ Head(q) = q[1] /\ Head(q) \in Jobs
      /\ Len(Tail(q)) = Len(q) - 1
      /\ \A i \in 1..Len(q) - 1 : Tail(q)[i] = q[i + 1]
  BY <1>3, HeadTailProperties
<1>5. queue'[c] = Tail(q) /\ (\A d \in Classes : d # c => queue'[d] = queue[d])
  BY <1>1
<1> DEFINE Stay(d, i) == d # c /\ i \in 1..Len(queue[d]) /\ queue'[d][i] = queue[d][i]
           Moved(d, i) == d = c /\ i + 1 \in 1..Len(queue[d])
                          /\ queue'[d][i] = queue[d][i + 1]
<1>6. ASSUME NEW d \in Classes, NEW i \in 1..Len(queue'[d])
      PROVE  Stay(d, i) \/ Moved(d, i)
  <2>1. CASE d # c BY <1>5, <2>1
  <2>2. CASE d = c
    <3>1. i \in 1..Len(q) - 1 BY <1>4, <1>5, <2>2
    <3>2. i + 1 \in 1..Len(q) BY <1>3, <3>1
    <3>3. QED BY <1>4, <1>5, <2>2, <3>1, <3>2
  <2>3. QED BY <2>1, <2>2
<1>7. 1 \in 1..Len(queue[c]) /\ Queued(Head(q)) /\ ~Taken(Head(q))
  BY <1>3, <1>4 DEF Queued, Placed
<1>8. QueuedOnce'
  <2> SUFFICES ASSUME NEW d \in Classes, NEW e \in Classes,
                      NEW i \in 1..Len(queue'[d]), NEW k \in 1..Len(queue'[e]),
                      queue'[d][i] = queue'[e][k]
               PROVE  d = e /\ i = k
    BY DEF QueuedOnce
  <2>1. (Stay(d, i) \/ Moved(d, i)) /\ (Stay(e, k) \/ Moved(e, k)) BY <1>6
  <2>2. CASE Stay(d, i) /\ Stay(e, k)
    <3>1. /\ i \in 1..Len(queue[d]) /\ k \in 1..Len(queue[e])
          /\ queue[d][i] = queue[e][k]
      BY <2>2
    <3> HIDE DEF Core, TypeOK
    <3>2. QED BY <3>1, <1>0, OncePair
  <2>3. CASE Moved(d, i) /\ Moved(e, k)
    <3>1. i + 1 = k + 1 BY <2>3, <1>0, OncePair
    <3>2. QED BY <2>3, <3>1
  <2>4. CASE Stay(d, i) /\ Moved(e, k)
    <3>1. /\ i \in 1..Len(queue[d]) /\ k + 1 \in 1..Len(queue[e])
          /\ queue[d][i] = queue[e][k + 1] /\ d # e
      BY <2>4
    <3> HIDE DEF Core, TypeOK
    <3>2. QED BY <3>1, <1>0, OncePair
  <2>5. CASE Moved(d, i) /\ Stay(e, k)
    <3>1. /\ i + 1 \in 1..Len(queue[d]) /\ k \in 1..Len(queue[e])
          /\ queue[d][i + 1] = queue[e][k] /\ d # e
      BY <2>5
    <3> HIDE DEF Core, TypeOK
    <3>2. QED BY <3>1, <1>0, OncePair
  <2>6. QED BY <2>1, <2>2, <2>3, <2>4, <2>5
<1>9. \A m \in Jobs : Queued(m)' => Queued(m) /\ m # Head(q)
  <2> SUFFICES ASSUME NEW m \in Jobs, Queued(m)' PROVE Queued(m) /\ m # Head(q)
    OBVIOUS
  <2>1. PICK d \in Classes : \E i \in 1..Len(queue'[d]) : queue'[d][i] = m
    BY DEF Queued
  <2>2. PICK i \in 1..Len(queue'[d]) : queue'[d][i] = m BY <2>1
  <2>3. Stay(d, i) \/ Moved(d, i) BY <1>6
  <2>4. PICK k \in 1..Len(queue[d]) : queue[d][k] = m /\ (d = c => k # 1)
    <3>1. CASE Stay(d, i) BY <2>2, <3>1
    <3>2. CASE Moved(d, i)
      <4>1. i + 1 # 1 OBVIOUS
      <4>2. QED BY <2>2, <3>2, <4>1
    <3>3. QED BY <2>3, <3>1, <3>2
  <2>5. QED BY <1>4, <1>7, <2>4 DEF Queued, Placed, QueuedOnce
<1>10. task \in [Workers -> Jobs \cup {NoJob}] /\ NoJob \notin Jobs
  BY PoolAssumption
<1>11. \A m \in Jobs : Taken(m)' <=> Taken(m) \/ m = Head(q)
  BY <1>1, <1>2, <1>10 DEF Taken
<1>12. \A v, u \in Workers : task'[v] = task'[u] /\ task'[v] # NoJob => v = u
  BY <1>1, <1>7, <1>10 DEF Placed, Taken
<1>13. \A m \in Jobs : Queued(m)' => ~Taken(m)' BY <1>9, <1>11 DEF Placed
<1>14. \A m \in Jobs : handle'[m] = "unborn" => ~Queued(m)' /\ ~Taken(m)'
  BY <1>2, <1>4, <1>7, <1>9, <1>11 DEF Placed
<1>15. Placed' BY <1>8, <1>12, <1>13, <1>14 DEF Placed
<1>16. QED BY <1>1, <1>4, <1>7, <1>9, <1>15

LEMMA ReleasePlaces ==
    ASSUME Core, Placed, NEW w \in Workers, Release(w)
    PROVE  Placed'
<1>1. /\ task' = [task EXCEPT ![w] = NoJob]
      /\ queue' = queue /\ handle' = handle
      /\ task \in [Workers -> Jobs \cup {NoJob}]
  BY DEF Release, Core, TypeOK
<1>2. \A v \in Workers : task'[v] = task[v] \/ task'[v] = NoJob BY <1>1
<1>3. \A j \in Jobs : (Queued(j)' <=> Queued(j)) /\ (Taken(j)' => Taken(j))
  BY <1>1, <1>2, PoolAssumption DEF Queued, Taken
<1>4. \A v, u \in Workers : task'[v] = task'[u] /\ task'[v] # NoJob => v = u
  BY <1>2 DEF Placed
<1>5. QueuedOnce' BY <1>1 DEF Placed, QueuedOnce
<1>6. QED BY <1>1, <1>3, <1>4, <1>5 DEF Placed

LEMMA PlacedStep == Core /\ Placed /\ [Next]_vars => Placed'
<1> SUFFICES ASSUME Core, Placed, [Next]_vars PROVE Placed' OBVIOUS
<1> USE DEF poolVars, workVars
<1>1. ASSUME NEW j \in Jobs, NEW c \in Classes, Spawn(j, c) PROVE Placed'
  BY <1>1, SpawnPlaces
<1>2. ASSUME NotifyOne PROVE Placed'
  BY <1>2, PlacedSteady DEF NotifyOne
<1>3. ASSUME NEW w \in Workers, Take(w) PROVE Placed'
  BY <1>3, TakePlaces
<1>4. ASSUME NEW w \in Workers, Sleep(w) PROVE Placed'
  BY <1>4, PlacedSteady DEF Sleep
<1>5. ASSUME NEW w \in Workers, SpuriousWake(w) PROVE Placed'
  BY <1>5, PlacedSteady DEF SpuriousWake
<1>6. ASSUME NEW w \in Workers, CheckCancelled(w) PROVE Placed'
  BY <1>6, PlacedSteady DEF CheckCancelled
<1>7. ASSUME NEW w \in Workers, StepDone(w) PROVE Placed'
  BY <1>7, PlacedSteady DEF StepDone
<1>8. ASSUME NEW w \in Workers, Return(w) PROVE Placed'
  BY <1>8, PlacedSteady DEF Return
<1>9. ASSUME NEW w \in Workers, Panic(w) PROVE Placed'
  BY <1>9, PlacedSteady DEF Panic
<1>10. ASSUME NEW w \in Workers, Send(w) PROVE Placed'
  BY <1>10, PlacedSteady DEF Send
<1>11. ASSUME NEW w \in Workers, WakeUI(w) PROVE Placed'
  BY <1>11, PlacedSteady DEF WakeUI
<1>12. ASSUME NEW w \in Workers, Release(w) PROVE Placed'
  BY <1>12, ReleasePlaces
<1>13. ASSUME NEW w \in Workers, NotifyAll(w) PROVE Placed'
  BY <1>13, PlacedSteady DEF NotifyAll
<1>14. ASSUME NEW w \in Workers, SpawnChild(w) PROVE Placed'
  BY <1>14, PlacedSteady DEF SpawnChild
<1>15. ASSUME NEW w \in Workers, Register(w) PROVE Placed'
  BY <1>15, PlacedSteady DEF Register
<1>16. ASSUME NEW w \in Workers, Recheck(w) PROVE Placed'
  BY <1>16, PlacedSteady DEF Recheck
<1>17. ASSUME NEW w \in Workers, WaitExited(w) PROVE Placed'
  BY <1>17, PlacedSteady DEF WaitExited
<1>18. ASSUME NEW w \in Workers, WaitGaveUp(w) PROVE Placed'
  BY <1>18, PlacedSteady DEF WaitGaveUp
<1>19. ASSUME NEW w \in Workers, Collect(w) PROVE Placed'
  BY <1>19, PlacedSteady DEF Collect
<1>20. ASSUME NEW j \in Jobs, ChildExits(j) PROVE Placed'
  BY <1>20, PlacedSteady DEF ChildExits
<1>21. ASSUME NEW j \in Jobs, KillLands(j) PROVE Placed'
  BY <1>21, PlacedSteady DEF KillLands
<1>22. ASSUME NEW j \in Jobs, DropSettle(j) PROVE Placed'
  BY <1>22, PlacedSteady DEF DropSettle, Core, TypeOK
<1>23. ASSUME NEW j \in Jobs, DropFlag(j) PROVE Placed'
  BY <1>23, PlacedSteady DEF DropFlag, Core, TypeOK
<1>24. ASSUME NEW j \in Jobs, DropKill(j) PROVE Placed'
  BY <1>24, PlacedSteady DEF DropKill, Core, TypeOK
<1>25. ASSUME Frame PROVE Placed'
  BY <1>25, PlacedSteady DEF Frame
<1>26. CASE UNCHANGED vars
  BY <1>26, PlacedSteady DEF vars
<1>27. QED
  BY <1>1, <1>2, <1>3, <1>4, <1>5, <1>6, <1>7, <1>8, <1>9, <1>10, <1>11, <1>12, <1>13, <1>14,
     <1>15, <1>16, <1>17, <1>18, <1>19, <1>20, <1>21, <1>22, <1>23, <1>24, <1>25, <1>26
     DEF Next, WorkerStep, ClosureStep, OwnerStep

-----------------------------------------------------------------------------
(* Third layer.                                                            *)

LEMMA ChildrenInit == Init => Children
<1> SUFFICES ASSUME Init PROVE Children OBVIOUS
<1>1. \A w \in Workers : ChildOf(w) BY DEF Init, ChildOf
<1>2. \A j \in Jobs : Attended(j) BY DEF Init, Attended, Alive, Ended
<1>3. \A j \in Jobs : flag[j] <=> handle[j] \in {"flagged", "dropped"} BY DEF Init
<1>4. CancelReachesChild BY DEF Init, CancelReachesChild
<1>5. QED BY <1>1, <1>2, <1>3, <1>4 DEF Children

(* A step that moves no worker into or out of a child's care and touches   *)
(* neither a child nor a cancel keeps the layer.                           *)
LEMMA ChildrenSteady ==
    ASSUME Children, UNCHANGED <<registered, proc, flag>>,
           \A w \in Workers : pc[w] \in ChildPoints \/ pc'[w] \in ChildPoints =>
               pc'[w] = pc[w] /\ task'[w] = task[w],
           \A j \in Jobs : /\ handle[j] = "flagged" => handle'[j] = "flagged"
                           /\ handle'[j] \in {"flagged", "dropped"}
                                <=> handle[j] \in {"flagged", "dropped"}
    PROVE  Children'
<1>1. \A w \in Workers : ChildOf(w)' BY DEF Children, ChildOf, ChildPoints
<1>2. \A j \in Jobs : Attended(j)' BY DEF Children, Attended
<1>3. CancelReachesChild' BY DEF Children, CancelReachesChild, ChildPoints
<1>4. QED BY <1>1, <1>2, <1>3 DEF Children

(* At most one worker answers for a job, and a worker at a child's point   *)
(* has a job.                                                              *)
LEMMA OneCarer ==
    ASSUME Core, Placed, NEW w \in Workers, pc[w] \in BusyPoints
    PROVE  /\ task[w] \in Jobs
           /\ \A v \in Workers : task[v] = task[w] => v = w
BY PoolAssumption DEF Core, Posts, Placed

LEMMA SpawnChildChildren ==
    ASSUME Core, Placed, Children, NEW w \in Workers, SpawnChild(w)
    PROVE  Children'
<1> USE DEF Core, TypeOK
<1>1. PICK j \in Jobs : task[w] = j BY OneCarer DEF SpawnChild, BusyPoints
<1>2. \A v \in Workers : v # w => task[v] # j
  BY <1>1, OneCarer DEF SpawnChild, BusyPoints
<1>3. /\ pc[w] = "run" /\ pc' = [pc EXCEPT ![w] = "spawned"]
      /\ proc' = [proc EXCEPT ![j] = "running"]
      /\ UNCHANGED <<task, handle, flag, registered>>
  BY <1>1 DEF SpawnChild, Goto
<1>4. ~registered[j]
  BY <1>1, <1>2, <1>3 DEF Children, Attended, ChildPoints
<1>5. \A v \in Workers : ChildOf(v)'
  <2>1. ChildOf(w)' BY <1>1, <1>3, <1>4 DEF ChildOf
  <2>2. ASSUME NEW v \in Workers, v # w PROVE ChildOf(v)'
    <3>1. pc'[v] = pc[v] /\ proc'[task[v]] = proc[task[v]] BY <1>2, <1>3, <2>2
    <3>2. QED BY <1>3, <3>1 DEF Children, ChildOf
  <2>3. QED BY <2>1, <2>2
<1>6. \A i \in Jobs : Attended(i)'
  <2>1. Attended(j)' BY <1>1, <1>3 DEF Attended, ChildPoints
  <2>2. ASSUME NEW i \in Jobs, i # j PROVE Attended(i)'
    BY <1>1, <1>3, <2>2 DEF Children, Attended, ChildPoints
  <2>3. QED BY <2>1, <2>2
<1>7. CancelReachesChild'
  <2>1. ASSUME NEW i \in Jobs, flag'[i], registered'[i], proc'[i] = "running"
        PROVE  handle'[i] = "flagged" \/ \E v \in Workers : task'[v] = i /\ pc'[v] = "recheck"
    <3>1. i # j /\ proc[i] = "running" BY <1>3, <1>4, <2>1
    <3>2. QED BY <1>3, <2>1, <3>1 DEF Children, CancelReachesChild
  <2>2. QED BY <2>1 DEF CancelReachesChild
<1>8. QED BY <1>3, <1>5, <1>6, <1>7 DEF Children

LEMMA RegisterChildren ==
    ASSUME Core, Placed, Children, NEW w \in Workers, Register(w)
    PROVE  Children'
<1> USE DEF Core, TypeOK, Register, Goto
<1>1. PICK j \in Jobs : task[w] = j BY OneCarer DEF BusyPoints, ChildPoints
<1>2. \A v \in Workers : v # w => task[v] # j /\ pc'[v] = pc[v]
  BY <1>1, OneCarer DEF BusyPoints, ChildPoints
<1>3. task' = task /\ handle' = handle /\ flag' = flag /\ pc'[w] \in Points
  BY DEF Points, BusyPoints, ChildPoints
<1>4. \A v \in Workers : ChildOf(v)'
  BY <1>1, <1>2, <1>3 DEF Children, ChildOf, Attended, Alive, Ended, Reaped, ChildPoints
<1>5. \A i \in Jobs : Attended(i)'
  BY <1>1, <1>2, <1>3 DEF Children, ChildOf, Attended, Alive, Ended, Reaped, ChildPoints
<1>6. CancelReachesChild'
  BY <1>1, <1>2, <1>3 DEF Children, ChildOf, CancelReachesChild, Alive, Ended, Reaped
<1>7. QED BY <1>3, <1>4, <1>5, <1>6 DEF Children

LEMMA RecheckChildren ==
    ASSUME Core, Placed, Children, NEW w \in Workers, Recheck(w)
    PROVE  Children'
<1> USE DEF Core, TypeOK, Recheck, Goto, KillRegistered, AfterKill
<1>1. PICK j \in Jobs : task[w] = j BY OneCarer DEF BusyPoints, ChildPoints
<1>2. \A v \in Workers : v # w => task[v] # j /\ pc'[v] = pc[v]
  BY <1>1, OneCarer DEF BusyPoints, ChildPoints
<1>3. task' = task /\ handle' = handle /\ flag' = flag /\ pc'[w] \in Points
  BY DEF Points, BusyPoints, ChildPoints
<1>4. \A v \in Workers : ChildOf(v)'
  <2>1. /\ registered[j] /\ registered' = registered
        /\ proc'[j] \in {"dying", "killed"} => flag[j]
    BY <1>1 DEF Children, ChildOf
  <2>2. ChildOf(w)' BY <1>1, <1>3, <2>1 DEF ChildOf
  <2>3. ASSUME NEW v \in Workers, v # w PROVE ChildOf(v)'
    <3>1. CASE pc[v] \in ChildPoints
      <4>1. task[v] \in Jobs /\ task[v] # j
        BY <1>2, <2>3, <3>1, OneCarer DEF BusyPoints
      <4>2. pc'[v] = pc[v] /\ proc'[task[v]] = proc[task[v]]
        BY <1>1, <1>2, <2>3, <4>1
      <4>3. QED BY <1>3, <2>1, <4>2 DEF Children, ChildOf
    <3>2. CASE pc[v] \notin ChildPoints
      BY <1>2, <2>3, <3>2 DEF ChildOf, ChildPoints
    <3>3. QED BY <3>1, <3>2
  <2>4. QED BY <2>2, <2>3
<1>5. \A i \in Jobs : Attended(i)'
  <2>1. Attended(j)' BY <1>1, <1>2, <1>3 DEF Attended, ChildPoints
  <2>2. ASSUME NEW i \in Jobs, i # j PROVE Attended(i)'
    <3>1. registered'[i] = registered[i] /\ proc'[i] = proc[i] BY <1>1, <2>2
    <3>2. QED BY <1>1, <1>3, <2>2, <3>1 DEF Children, Attended, ChildPoints
  <2>3. QED BY <2>1, <2>2
<1>6. CancelReachesChild'
  BY <1>1, <1>2, <1>3 DEF Children, ChildOf, CancelReachesChild, Alive, Ended, Reaped
<1>7. QED BY <1>3, <1>4, <1>5, <1>6 DEF Children

LEMMA WaitExitedChildren ==
    ASSUME Core, Placed, Children, NEW w \in Workers, WaitExited(w)
    PROVE  Children'
<1> USE DEF Core, TypeOK, WaitExited, Goto
<1>1. PICK j \in Jobs : task[w] = j BY OneCarer DEF BusyPoints, ChildPoints
<1>2. \A v \in Workers : v # w => task[v] # j /\ pc'[v] = pc[v]
  BY <1>1, OneCarer DEF BusyPoints, ChildPoints
<1>3. task' = task /\ handle' = handle /\ flag' = flag /\ pc'[w] \in Points
  BY DEF Points, BusyPoints, ChildPoints
<1>4. \A v \in Workers : ChildOf(v)'
  BY <1>1, <1>2, <1>3 DEF Children, ChildOf, Attended, Alive, Ended, Reaped, ChildPoints
<1>5. \A i \in Jobs : Attended(i)'
  BY <1>1, <1>2, <1>3 DEF Children, ChildOf, Attended, Alive, Ended, Reaped, ChildPoints
<1>6. CancelReachesChild'
  BY <1>1, <1>2, <1>3 DEF Children, ChildOf, CancelReachesChild, Alive, Ended, Reaped
<1>7. QED BY <1>3, <1>4, <1>5, <1>6 DEF Children

LEMMA WaitGaveUpChildren ==
    ASSUME Core, Placed, Children, NEW w \in Workers, WaitGaveUp(w)
    PROVE  Children'
<1> USE DEF Core, TypeOK, WaitGaveUp, Goto, AfterKill
<1>1. PICK j \in Jobs : task[w] = j BY OneCarer DEF BusyPoints, ChildPoints
<1>2. \A v \in Workers : v # w => task[v] # j /\ pc'[v] = pc[v]
  BY <1>1, OneCarer DEF BusyPoints, ChildPoints
<1>3. task' = task /\ handle' = handle /\ flag' = flag /\ pc'[w] \in Points
  BY DEF Points, BusyPoints, ChildPoints
<1>4. \A v \in Workers : ChildOf(v)'
  BY <1>1, <1>2, <1>3 DEF Children, ChildOf, Attended, Alive, Ended, Reaped, ChildPoints
<1>5. \A i \in Jobs : Attended(i)'
  BY <1>1, <1>2, <1>3 DEF Children, ChildOf, Attended, Alive, Ended, Reaped, ChildPoints
<1>6. CancelReachesChild'
  BY <1>1, <1>2, <1>3 DEF Children, ChildOf, CancelReachesChild, Alive, Ended, Reaped
<1>7. QED BY <1>3, <1>4, <1>5, <1>6 DEF Children

LEMMA CollectChildren ==
    ASSUME Core, Placed, Children, NEW w \in Workers, Collect(w)
    PROVE  Children'
<1> USE DEF Core, TypeOK, Collect, Goto
<1>1. PICK j \in Jobs : task[w] = j BY OneCarer DEF BusyPoints, ChildPoints
<1>2. \A v \in Workers : v # w => task[v] # j /\ pc'[v] = pc[v]
  BY <1>1, OneCarer DEF BusyPoints, ChildPoints
<1>3. task' = task /\ handle' = handle /\ flag' = flag /\ pc'[w] \in Points
  BY DEF Points, BusyPoints, ChildPoints
<1>4. \A v \in Workers : ChildOf(v)'
  BY <1>1, <1>2, <1>3 DEF Children, ChildOf, Attended, Alive, Ended, Reaped, ChildPoints
<1>5. \A i \in Jobs : Attended(i)'
  BY <1>1, <1>2, <1>3 DEF Children, ChildOf, Attended, Alive, Ended, Reaped, ChildPoints
<1>6. CancelReachesChild'
  BY <1>1, <1>2, <1>3 DEF Children, ChildOf, CancelReachesChild, Alive, Ended, Reaped
<1>7. QED BY <1>3, <1>4, <1>5, <1>6 DEF Children

LEMMA ChildExitsChildren ==
    ASSUME Core, Placed, Children, NEW j \in Jobs, ChildExits(j)
    PROVE  Children'
<1> USE DEF Core, TypeOK, ChildExits, workVars, childVars
<1>1. pc' = pc /\ task' = task OBVIOUS
<1>2. \A v \in Workers : ChildOf(v)'
  BY <1>1, OneCarer DEF Children, ChildOf, Alive, Ended, ChildPoints, BusyPoints
<1>3. \A i \in Jobs : Attended(i)'
  BY <1>1 DEF Children, Attended, Alive, Ended
<1>4. CancelReachesChild'
  BY <1>1 DEF Children, CancelReachesChild
<1>5. \A i \in Jobs : flag'[i] <=> handle'[i] \in {"flagged", "dropped"}
  BY DEF Children
<1>6. QED BY <1>2, <1>3, <1>4, <1>5 DEF Children

LEMMA KillLandsChildren ==
    ASSUME Core, Placed, Children, NEW j \in Jobs, KillLands(j)
    PROVE  Children'
<1> USE DEF Core, TypeOK, KillLands, workVars, childVars
<1>1. pc' = pc /\ task' = task OBVIOUS
<1>2. \A v \in Workers : ChildOf(v)'
  BY <1>1, OneCarer DEF Children, ChildOf, Alive, Ended, ChildPoints, BusyPoints
<1>3. \A i \in Jobs : Attended(i)'
  BY <1>1 DEF Children, Attended, Alive, Ended
<1>4. CancelReachesChild'
  BY <1>1 DEF Children, CancelReachesChild
<1>5. \A i \in Jobs : flag'[i] <=> handle'[i] \in {"flagged", "dropped"}
  BY DEF Children
<1>6. QED BY <1>2, <1>3, <1>4, <1>5 DEF Children

LEMMA DropFlagChildren ==
    ASSUME Core, Placed, Children, NEW j \in Jobs, DropFlag(j)
    PROVE  Children'
<1> USE DEF Core, TypeOK, DropFlag, workVars, childVars
<1>1. pc' = pc /\ task' = task OBVIOUS
<1>2. \A v \in Workers : ChildOf(v)'
  BY <1>1, OneCarer DEF Children, ChildOf, Alive, Ended, ChildPoints, BusyPoints
<1>3. \A i \in Jobs : Attended(i)'
  BY <1>1 DEF Children, Attended, Alive, Ended
<1>4. CancelReachesChild'
  BY <1>1 DEF Children, CancelReachesChild
<1>5. \A i \in Jobs : flag'[i] <=> handle'[i] \in {"flagged", "dropped"}
  BY DEF Children
<1>6. QED BY <1>2, <1>3, <1>4, <1>5 DEF Children

LEMMA DropKillChildren ==
    ASSUME Core, Placed, Children, NEW j \in Jobs, DropKill(j)
    PROVE  Children'
<1> USE DEF Core, TypeOK, DropKill, workVars, childVars, KillRegistered, AfterKill
<1>1. pc' = pc /\ task' = task OBVIOUS
<1>2. \A v \in Workers : ChildOf(v)'
  BY <1>1, OneCarer DEF Children, ChildOf, Alive, Ended, ChildPoints, BusyPoints
<1>3. \A i \in Jobs : Attended(i)'
  BY <1>1 DEF Children, Attended, Alive, Ended
<1>4. CancelReachesChild'
  BY <1>1 DEF Children, CancelReachesChild
<1>5. \A i \in Jobs : flag'[i] <=> handle'[i] \in {"flagged", "dropped"}
  BY DEF Children
<1>6. QED BY <1>2, <1>3, <1>4, <1>5 DEF Children

LEMMA ChildrenStep == Core /\ Placed /\ Children /\ [Next]_vars => Children'
<1> SUFFICES ASSUME Core, Placed, Children, [Next]_vars PROVE Children' OBVIOUS
<1> USE DEF poolVars, workVars, childVars, ChildPoints
<1>1. ASSUME NEW j \in Jobs, NEW c \in Classes, Spawn(j, c) PROVE Children'
  BY <1>1, ChildrenSteady DEF Spawn, Goto, Core, TypeOK
<1>2. ASSUME NotifyOne PROVE Children'
  BY <1>2, ChildrenSteady DEF NotifyOne, Goto, Core, TypeOK
<1>3. ASSUME NEW w \in Workers, Take(w) PROVE Children'
  BY <1>3, ChildrenSteady DEF Take, Goto, Core, TypeOK, Posts, BusyPoints
<1>4. ASSUME NEW w \in Workers, Sleep(w) PROVE Children'
  BY <1>4, ChildrenSteady DEF Sleep, Goto, Core, TypeOK
<1>5. ASSUME NEW w \in Workers, SpuriousWake(w) PROVE Children'
  BY <1>5, ChildrenSteady DEF SpuriousWake, Goto, Core, TypeOK
<1>6. ASSUME NEW w \in Workers, CheckCancelled(w) PROVE Children'
  BY <1>6, ChildrenSteady DEF CheckCancelled, Goto, Core, TypeOK
<1>7. ASSUME NEW w \in Workers, StepDone(w) PROVE Children'
  BY <1>7, ChildrenSteady DEF StepDone, Goto, Core, TypeOK
<1>8. ASSUME NEW w \in Workers, Return(w) PROVE Children'
  BY <1>8, ChildrenSteady DEF Return, Goto, Core, TypeOK
<1>9. ASSUME NEW w \in Workers, Panic(w) PROVE Children'
  BY <1>9, ChildrenSteady DEF Panic, Goto, Core, TypeOK
<1>10. ASSUME NEW w \in Workers, Send(w) PROVE Children'
  BY <1>10, ChildrenSteady DEF Send, Goto, Core, TypeOK
<1>11. ASSUME NEW w \in Workers, WakeUI(w) PROVE Children'
  BY <1>11, ChildrenSteady DEF WakeUI, Goto, Core, TypeOK
<1>12. ASSUME NEW w \in Workers, Release(w) PROVE Children'
  BY <1>12, ChildrenSteady DEF Release, Goto, Core, TypeOK, Posts, BusyPoints
<1>13. ASSUME NEW w \in Workers, NotifyAll(w) PROVE Children'
  BY <1>13, ChildrenSteady DEF NotifyAll, Goto, Core, TypeOK
<1>14. ASSUME NEW w \in Workers, SpawnChild(w) PROVE Children'
  BY <1>14, SpawnChildChildren
<1>15. ASSUME NEW w \in Workers, Register(w) PROVE Children'
  BY <1>15, RegisterChildren
<1>16. ASSUME NEW w \in Workers, Recheck(w) PROVE Children'
  BY <1>16, RecheckChildren
<1>17. ASSUME NEW w \in Workers, WaitExited(w) PROVE Children'
  BY <1>17, WaitExitedChildren
<1>18. ASSUME NEW w \in Workers, WaitGaveUp(w) PROVE Children'
  BY <1>18, WaitGaveUpChildren
<1>19. ASSUME NEW w \in Workers, Collect(w) PROVE Children'
  BY <1>19, CollectChildren
<1>20. ASSUME NEW j \in Jobs, ChildExits(j) PROVE Children'
  BY <1>20, ChildExitsChildren
<1>21. ASSUME NEW j \in Jobs, KillLands(j) PROVE Children'
  BY <1>21, KillLandsChildren
<1>22. ASSUME NEW j \in Jobs, DropSettle(j) PROVE Children'
  BY <1>22, ChildrenSteady DEF DropSettle, Goto, Core, TypeOK
<1>23. ASSUME NEW j \in Jobs, DropFlag(j) PROVE Children'
  BY <1>23, DropFlagChildren
<1>24. ASSUME NEW j \in Jobs, DropKill(j) PROVE Children'
  BY <1>24, DropKillChildren
<1>25. ASSUME Frame PROVE Children'
  BY <1>25, ChildrenSteady DEF Frame, Goto, Core, TypeOK
<1>26. CASE UNCHANGED vars
  BY <1>26, ChildrenSteady DEF vars
<1>27. QED
  BY <1>1, <1>2, <1>3, <1>4, <1>5, <1>6, <1>7, <1>8, <1>9, <1>10, <1>11, <1>12, <1>13, <1>14,
     <1>15, <1>16, <1>17, <1>18, <1>19, <1>20, <1>21, <1>22, <1>23, <1>24, <1>25, <1>26
     DEF Next, WorkerStep, ClosureStep, OwnerStep

-----------------------------------------------------------------------------
(* Fourth layer.                                                           *)

LEMMA ReportsInit == Init => Reports
<1> SUFFICES ASSUME Init PROVE Reports OBVIOUS
<1>1. \A w \in Workers : ReportOf(w) BY DEF Init, ReportOf, BeforeEnd, ChildPoints
<1>2. \A j \in Jobs : Quiet(j) /\ end[j] = "none" BY DEF Init, Quiet
<1>3. QED
  BY <1>1, <1>2 DEF Init, Reports, Quiet, SeenMatchesEnd, EndIsReported, ResultAnnounced

(* A step that keeps ends, messages and places, and moves workers only     *)
(* before the end or only outside a job, keeps the layer.                  *)
LEMMA ReportsSteady ==
    ASSUME Core, Reports, UNCHANGED <<queue, task, chan, seen, end>>, frame => frame',
           \A j \in Jobs : \A h \in {"unborn", "held"} : handle'[j] = h <=> handle[j] = h,
           \A w \in Workers : \/ pc'[w] = pc[w]
                              \/ pc[w] \in BeforeEnd /\ pc'[w] \in BeforeEnd
                              \/ pc[w] \notin BusyPoints /\ pc'[w] \notin BusyPoints
    PROVE  Reports'
<1> USE DEF BeforeEnd, ChildPoints, BusyPoints, EndPoints
<1>1. ASSUME NEW w \in Workers PROVE ReportOf(w)'
  <2>1. ReportOf(w) BY DEF Reports
  <2>2. pc[w] \in BusyPoints => task[w] \in Jobs BY DEF Core, Posts
  <2>3. CASE pc'[w] = pc[w] BY <2>1, <2>2, <2>3 DEF ReportOf, Quiet
  <2>4. CASE pc[w] \in BeforeEnd /\ pc'[w] \in BeforeEnd BY <2>1, <2>4 DEF ReportOf, Quiet
  <2>5. CASE pc'[w] \notin BusyPoints BY <2>5 DEF ReportOf
  <2>6. QED BY <2>3, <2>4, <2>5
<1>2. \A j \in Jobs : Waiting(j)' => Waiting(j) BY DEF Waiting, Queued
<1>3. \A j \in Jobs, w \in Workers : WorksOn(w, j)' <=> WorksOn(w, j) BY DEF WorksOn
<1>4. \A j \in Jobs, w \in Workers : task[w] = j /\ pc[w] = "wake" =>
                                     task'[w] = j /\ pc'[w] = "wake"
  OBVIOUS
<1>5. SeenMatchesEnd' BY DEF Reports, SeenMatchesEnd
<1>6. EndIsReported' BY <1>3 DEF Reports, EndIsReported
<1>7. ResultAnnounced' BY <1>4 DEF Reports, ResultAnnounced
<1>8. QED BY <1>1, <1>2, <1>5, <1>6, <1>7 DEF Reports, Quiet

LEMMA ReturnReports ==
    ASSUME Core, Placed, Children, Reports, NEW w \in Workers, Return(w)
    PROVE  Reports'
<1> USE DEF Core, TypeOK
<1>1. PICK j \in Jobs : task[w] = j
  BY OneCarer DEF Return, BusyPoints, EndPoints
<1>2. \A v \in Workers : v # w => task[v] # j
  BY <1>1, OneCarer DEF Return, BusyPoints, EndPoints
<1>3. /\ pc[w] = "run" /\ pc' = [pc EXCEPT ![w] = "settled"]
      /\ end' = [end EXCEPT ![j] = IF @ = "none" THEN "Returned" ELSE @]
      /\ UNCHANGED <<queue, task, handle, chan, seen, frame>>
  BY <1>1 DEF Return, Goto, Settle, Settled, poolVars
<1>4. Quiet(j) /\ end[j] \in {"none", "Cancelled"} /\ ~Waiting(j)
  BY <1>1, <1>3 DEF Reports, ReportOf, BeforeEnd, Placed, Taken, Waiting
<1>5. \A v \in Workers : ReportOf(v)'
  BY <1>1, <1>2, <1>3, <1>4 DEF Reports, ReportOf, Quiet, BeforeEnd, ChildPoints
<1>6. \A i \in Jobs : Waiting(i)' => Quiet(i)' /\ end'[i] \in {"none", "Cancelled"}
  BY <1>1, <1>2, <1>3, <1>4 DEF Reports, Waiting, Queued, Quiet
<1>7. \A i \in Jobs : end'[i] = "Cancelled" => handle'[i] \notin {"unborn", "held"}
  BY <1>1, <1>2, <1>3, <1>4 DEF Reports
<1>8. \A i \in Jobs : chan'[i] # "empty" => seen'[i] = "nothing"
  BY <1>1, <1>2, <1>3, <1>4 DEF Reports, Quiet
<1>9. \A i \in Jobs : handle'[i] = "held" /\ chan'[i] # "empty" =>
        end'[i] = IF chan'[i] = "value" THEN "Returned" ELSE "Panicked"
  BY <1>1, <1>2, <1>3, <1>4 DEF Reports, Quiet
<1>10. SeenMatchesEnd'
  BY <1>1, <1>2, <1>3, <1>4 DEF Reports, SeenMatchesEnd
<1>11. EndIsReported'
  BY <1>1, <1>2, <1>3, <1>4
     DEF Reports, EndIsReported, WorksOn, BusyPoints, ChildPoints, EndPoints, Quiet
<1>12. ResultAnnounced'
  BY <1>1, <1>2, <1>3, <1>4 DEF Reports, ResultAnnounced, Quiet
<1>13. QED BY <1>5, <1>6, <1>7, <1>8, <1>9, <1>10, <1>11, <1>12 DEF Reports

LEMMA PanicReports ==
    ASSUME Core, Placed, Children, Reports, NEW w \in Workers, Panic(w)
    PROVE  Reports'
<1> USE DEF Core, TypeOK
<1>1. PICK j \in Jobs : task[w] = j
  BY OneCarer DEF Panic, BusyPoints, EndPoints
<1>2. \A v \in Workers : v # w => task[v] # j
  BY <1>1, OneCarer DEF Panic, BusyPoints, EndPoints
<1>3. /\ pc[w] = "run" /\ pc' = [pc EXCEPT ![w] = "failing"]
      /\ end' = [end EXCEPT ![j] = IF @ = "none" THEN "Panicked" ELSE @]
      /\ UNCHANGED <<queue, task, handle, chan, seen, frame>>
  BY <1>1 DEF Panic, Goto, Settle, Settled, poolVars
<1>4. Quiet(j) /\ end[j] \in {"none", "Cancelled"} /\ ~Waiting(j)
  BY <1>1, <1>3 DEF Reports, ReportOf, BeforeEnd, Placed, Taken, Waiting
<1>5. \A v \in Workers : ReportOf(v)'
  BY <1>1, <1>2, <1>3, <1>4 DEF Reports, ReportOf, Quiet, BeforeEnd, ChildPoints
<1>6. \A i \in Jobs : Waiting(i)' => Quiet(i)' /\ end'[i] \in {"none", "Cancelled"}
  BY <1>1, <1>2, <1>3, <1>4 DEF Reports, Waiting, Queued, Quiet
<1>7. \A i \in Jobs : end'[i] = "Cancelled" => handle'[i] \notin {"unborn", "held"}
  BY <1>1, <1>2, <1>3, <1>4 DEF Reports
<1>8. \A i \in Jobs : chan'[i] # "empty" => seen'[i] = "nothing"
  BY <1>1, <1>2, <1>3, <1>4 DEF Reports, Quiet
<1>9. \A i \in Jobs : handle'[i] = "held" /\ chan'[i] # "empty" =>
        end'[i] = IF chan'[i] = "value" THEN "Returned" ELSE "Panicked"
  BY <1>1, <1>2, <1>3, <1>4 DEF Reports, Quiet
<1>10. SeenMatchesEnd'
  BY <1>1, <1>2, <1>3, <1>4 DEF Reports, SeenMatchesEnd
<1>11. EndIsReported'
  BY <1>1, <1>2, <1>3, <1>4
     DEF Reports, EndIsReported, WorksOn, BusyPoints, ChildPoints, EndPoints, Quiet
<1>12. ResultAnnounced'
  BY <1>1, <1>2, <1>3, <1>4 DEF Reports, ResultAnnounced, Quiet
<1>13. QED BY <1>5, <1>6, <1>7, <1>8, <1>9, <1>10, <1>11, <1>12 DEF Reports

LEMMA SendReports ==
    ASSUME Core, Placed, Children, Reports, NEW w \in Workers, Send(w)
    PROVE  Reports'
<1> USE DEF Core, TypeOK
<1>1. PICK j \in Jobs : task[w] = j
  BY OneCarer DEF Send, BusyPoints, EndPoints
<1>2. \A v \in Workers : v # w => task[v] # j
  BY <1>1, OneCarer DEF Send, BusyPoints, EndPoints
<1>3. /\ pc[w] \in {"settled", "failing"} /\ pc' = [pc EXCEPT ![w] = "wake"]
      /\ chan' = [chan EXCEPT ![j] = IF handle[j] = "dropped" THEN @
                                    ELSE IF pc[w] = "settled" THEN "value" ELSE "failure"]
      /\ UNCHANGED <<queue, task, handle, seen, end, frame>>
  BY <1>1 DEF Send, Goto, poolVars
<1>4. /\ Quiet(j) /\ ~Waiting(j)
      /\ handle[j] = "held" => end[j] = IF pc[w] = "settled" THEN "Returned" ELSE "Panicked"
  BY <1>1, <1>3 DEF Reports, ReportOf, Placed, Taken, Waiting
<1>5. \A v \in Workers : ReportOf(v)'
  BY <1>1, <1>2, <1>3, <1>4 DEF Reports, ReportOf, Quiet, BeforeEnd, ChildPoints
<1>6. \A i \in Jobs : Waiting(i)' => Quiet(i)' /\ end'[i] \in {"none", "Cancelled"}
  BY <1>1, <1>2, <1>3, <1>4 DEF Reports, Waiting, Queued, Quiet
<1>7. \A i \in Jobs : end'[i] = "Cancelled" => handle'[i] \notin {"unborn", "held"}
  BY <1>1, <1>2, <1>3, <1>4 DEF Reports
<1>8. \A i \in Jobs : chan'[i] # "empty" => seen'[i] = "nothing"
  BY <1>1, <1>2, <1>3, <1>4 DEF Reports, Quiet
<1>9. \A i \in Jobs : handle'[i] = "held" /\ chan'[i] # "empty" =>
        end'[i] = IF chan'[i] = "value" THEN "Returned" ELSE "Panicked"
  BY <1>1, <1>2, <1>3, <1>4 DEF Reports, Quiet
<1>10. SeenMatchesEnd'
  BY <1>1, <1>2, <1>3, <1>4 DEF Reports, SeenMatchesEnd
<1>11. EndIsReported'
  BY <1>1, <1>2, <1>3, <1>4
     DEF Reports, EndIsReported, WorksOn, BusyPoints, ChildPoints, EndPoints, Quiet
<1>12. ResultAnnounced'
  BY <1>1, <1>2, <1>3, <1>4 DEF Reports, ResultAnnounced, Quiet
<1>13. QED BY <1>5, <1>6, <1>7, <1>8, <1>9, <1>10, <1>11, <1>12 DEF Reports

LEMMA WakeUIReports ==
    ASSUME Core, Placed, Children, Reports, NEW w \in Workers, WakeUI(w)
    PROVE  Reports'
<1> USE DEF Core, TypeOK
<1>1. PICK j \in Jobs : task[w] = j
  BY OneCarer DEF WakeUI, BusyPoints, EndPoints
<1>2. \A v \in Workers : v # w => task[v] # j
  BY <1>1, OneCarer DEF WakeUI, BusyPoints, EndPoints
<1>3. /\ pc[w] = "wake" /\ pc' = [pc EXCEPT ![w] = "release"] /\ frame' = TRUE
      /\ UNCHANGED <<queue, task, handle, chan, seen, end>>
  BY <1>1 DEF WakeUI, Goto, poolVars, readVars
<1>4. \A v \in Workers : ReportOf(v)'
  BY <1>1, <1>2, <1>3 DEF Reports, ReportOf, Quiet, BeforeEnd, ChildPoints
<1>5. \A i \in Jobs : Waiting(i)' => Quiet(i)' /\ end'[i] \in {"none", "Cancelled"}
  BY <1>1, <1>2, <1>3 DEF Reports, Waiting, Queued, Quiet
<1>6. \A i \in Jobs : end'[i] = "Cancelled" => handle'[i] \notin {"unborn", "held"}
  BY <1>1, <1>2, <1>3 DEF Reports
<1>7. \A i \in Jobs : chan'[i] # "empty" => seen'[i] = "nothing"
  BY <1>1, <1>2, <1>3 DEF Reports, Quiet
<1>8. \A i \in Jobs : handle'[i] = "held" /\ chan'[i] # "empty" =>
        end'[i] = IF chan'[i] = "value" THEN "Returned" ELSE "Panicked"
  BY <1>1, <1>2, <1>3 DEF Reports, Quiet
<1>9. SeenMatchesEnd'
  BY <1>1, <1>2, <1>3 DEF Reports, SeenMatchesEnd
<1>10. EndIsReported'
  BY <1>1, <1>2, <1>3 DEF Reports, EndIsReported, WorksOn, BusyPoints, ChildPoints, EndPoints, Quiet
<1>11. ResultAnnounced'
  BY <1>1, <1>2, <1>3 DEF Reports, ResultAnnounced, Quiet
<1>12. QED BY <1>4, <1>5, <1>6, <1>7, <1>8, <1>9, <1>10, <1>11 DEF Reports

LEMMA ReleaseReports ==
    ASSUME Core, Placed, Children, Reports, NEW w \in Workers, Release(w)
    PROVE  Reports'
<1> USE DEF Core, TypeOK
<1>1. PICK j \in Jobs : task[w] = j
  BY OneCarer DEF Release, BusyPoints, EndPoints
<1>2. \A v \in Workers : v # w => task[v] # j
  BY <1>1, OneCarer DEF Release, BusyPoints, EndPoints
<1>3. /\ pc[w] = "release" /\ pc' = [pc EXCEPT ![w] = "notify"]
      /\ task' = [task EXCEPT ![w] = NoJob]
      /\ UNCHANGED <<queue, handle, chan, seen, end, frame>>
  BY <1>1 DEF Release, Goto, readVars
<1>4. \A v \in Workers : ReportOf(v)'
  BY <1>1, <1>2, <1>3 DEF Reports, ReportOf, Quiet, BeforeEnd, ChildPoints
<1>5. \A i \in Jobs : Waiting(i)' => Quiet(i)' /\ end'[i] \in {"none", "Cancelled"}
  BY <1>1, <1>2, <1>3 DEF Reports, Waiting, Queued, Quiet
<1>6. \A i \in Jobs : end'[i] = "Cancelled" => handle'[i] \notin {"unborn", "held"}
  BY <1>1, <1>2, <1>3 DEF Reports
<1>7. \A i \in Jobs : chan'[i] # "empty" => seen'[i] = "nothing"
  BY <1>1, <1>2, <1>3 DEF Reports, Quiet
<1>8. \A i \in Jobs : handle'[i] = "held" /\ chan'[i] # "empty" =>
        end'[i] = IF chan'[i] = "value" THEN "Returned" ELSE "Panicked"
  BY <1>1, <1>2, <1>3 DEF Reports, Quiet
<1>9. SeenMatchesEnd'
  BY <1>1, <1>2, <1>3 DEF Reports, SeenMatchesEnd
<1>10. EndIsReported'
  <2> SUFFICES ASSUME NEW i \in Jobs, end[i] \in {"Returned", "Panicked"},
                      handle[i] = "held", \A v \in Workers : ~WorksOn(v, i)'
               PROVE  ~Quiet(i)
    BY <1>1, <1>2, <1>3 DEF EndIsReported, Quiet
  <2>1. CASE i = j BY <1>1, <1>2, <1>3, <2>1 DEF Reports, ReportOf
  <2>2. CASE i # j
    <3>1. \A v \in Workers : WorksOn(v, i) => WorksOn(v, i)'
      BY <1>1, <1>2, <1>3, <2>2 DEF WorksOn
    <3>2. QED BY <3>1 DEF Reports, EndIsReported, Quiet
  <2>3. QED BY <2>1, <2>2
<1>11. ResultAnnounced'
  BY <1>1, <1>2, <1>3 DEF Reports, ResultAnnounced, Quiet
<1>12. QED BY <1>4, <1>5, <1>6, <1>7, <1>8, <1>9, <1>10, <1>11 DEF Reports

LEMMA CheckCancelledReports ==
    ASSUME Core, Placed, Children, Reports, NEW w \in Workers, CheckCancelled(w)
    PROVE  Reports'
<1> USE DEF Core, TypeOK
<1>1. PICK j \in Jobs : task[w] = j
  BY OneCarer DEF CheckCancelled, BusyPoints, EndPoints
<1>2. \A v \in Workers : v # w => task[v] # j
  BY <1>1, OneCarer DEF CheckCancelled, BusyPoints, EndPoints
<1>3. /\ pc[w] = "check" /\ pc' = [pc EXCEPT ![w] = IF flag[j] THEN "release" ELSE "run"]
      /\ UNCHANGED <<queue, task, handle, chan, seen, end, frame>>
  BY <1>1 DEF CheckCancelled, Goto, poolVars, readVars
<1>4. /\ flag[j] => handle[j] # "held"
      /\ Quiet(j) /\ end[j] \in {"none", "Cancelled"}
  BY <1>1, <1>3 DEF Children, Reports, ReportOf, BeforeEnd
<1>5. \A v \in Workers : ReportOf(v)'
  BY <1>1, <1>2, <1>3, <1>4 DEF Reports, ReportOf, Quiet, BeforeEnd, ChildPoints
<1>6. \A i \in Jobs : Waiting(i)' => Quiet(i)' /\ end'[i] \in {"none", "Cancelled"}
  BY <1>1, <1>2, <1>3, <1>4 DEF Reports, Waiting, Queued, Quiet
<1>7. \A i \in Jobs : end'[i] = "Cancelled" => handle'[i] \notin {"unborn", "held"}
  BY <1>1, <1>2, <1>3, <1>4 DEF Reports
<1>8. \A i \in Jobs : chan'[i] # "empty" => seen'[i] = "nothing"
  BY <1>1, <1>2, <1>3, <1>4 DEF Reports, Quiet
<1>9. \A i \in Jobs : handle'[i] = "held" /\ chan'[i] # "empty" =>
        end'[i] = IF chan'[i] = "value" THEN "Returned" ELSE "Panicked"
  BY <1>1, <1>2, <1>3, <1>4 DEF Reports, Quiet
<1>10. SeenMatchesEnd'
  BY <1>1, <1>2, <1>3, <1>4 DEF Reports, SeenMatchesEnd
<1>11. EndIsReported'
  BY <1>1, <1>2, <1>3, <1>4
     DEF Reports, EndIsReported, WorksOn, BusyPoints, ChildPoints, EndPoints, Quiet
<1>12. ResultAnnounced'
  BY <1>1, <1>2, <1>3, <1>4 DEF Reports, ResultAnnounced, Quiet
<1>13. QED BY <1>5, <1>6, <1>7, <1>8, <1>9, <1>10, <1>11, <1>12 DEF Reports

LEMMA SpawnReports ==
    ASSUME Core, Placed, Children, Reports, NEW j \in Jobs, NEW c \in Classes, Spawn(j, c)
    PROVE  Reports'
<1> USE DEF Core, TypeOK
<1>1. /\ handle[j] = "unborn" /\ handle' = [handle EXCEPT ![j] = "held"]
      /\ UNCHANGED <<pc, task, chan, seen, end, frame>>
  BY DEF Spawn, workVars, readVars
<1>2. Quiet(j) /\ end[j] = "none" /\ ~Taken(j)
  BY <1>1 DEF Reports, Waiting, Placed
<1>3. \A i \in Jobs : Queued(i)' => Queued(i) \/ i = j
  BY SpawnPlaces
<1>4. \A v \in Workers : ReportOf(v)'
  <2> SUFFICES ASSUME NEW v \in Workers PROVE ReportOf(v)' OBVIOUS
  <2>1. ReportOf(v) BY DEF Reports
  <2>2. CASE pc[v] \in BusyPoints
    <3>1. task[v] \in Jobs BY <2>2 DEF Posts
    <3>2. QED BY <1>1, <1>2, <1>3, <2>1, <3>1 DEF ReportOf, Quiet, Taken
  <2>3. CASE pc[v] \notin BusyPoints
    BY <1>1, <1>2, <1>3, <2>3 DEF ReportOf, BusyPoints, BeforeEnd, EndPoints
  <2>4. QED BY <2>2, <2>3
<1>5. \A i \in Jobs : Waiting(i)' => Quiet(i)' /\ end'[i] \in {"none", "Cancelled"}
  BY <1>1, <1>2, <1>3 DEF Reports, Waiting, Queued, Quiet
<1>6. \A i \in Jobs : end'[i] = "Cancelled" => handle'[i] \notin {"unborn", "held"}
  BY <1>1, <1>2, <1>3 DEF Reports
<1>7. \A i \in Jobs : chan'[i] # "empty" => seen'[i] = "nothing"
  BY <1>1, <1>2, <1>3 DEF Reports, Quiet
<1>8. \A i \in Jobs : handle'[i] = "held" /\ chan'[i] # "empty" =>
        end'[i] = IF chan'[i] = "value" THEN "Returned" ELSE "Panicked"
  BY <1>1, <1>2, <1>3 DEF Reports, Quiet
<1>9. SeenMatchesEnd'
  BY <1>1, <1>2, <1>3 DEF Reports, SeenMatchesEnd
<1>10. EndIsReported'
  BY <1>1, <1>2, <1>3 DEF Reports, EndIsReported, WorksOn, BusyPoints, ChildPoints, EndPoints, Quiet
<1>11. ResultAnnounced'
  BY <1>1, <1>2, <1>3 DEF Reports, ResultAnnounced, Quiet
<1>12. QED BY <1>4, <1>5, <1>6, <1>7, <1>8, <1>9, <1>10, <1>11 DEF Reports

LEMMA TakeReports ==
    ASSUME Core, Placed, Children, Reports, NEW w \in Workers, Take(w)
    PROVE  Reports'
<1> USE DEF Core, TypeOK
<1>1. PICK j \in Jobs : /\ Queued(j) /\ ~Taken(j)
                    /\ task' = [task EXCEPT ![w] = j]
  BY TakePlaces
<1>2. /\ pc[w] = "scan" /\ pc' = [pc EXCEPT ![w] = "check"]
      /\ UNCHANGED <<handle, chan, seen, end, frame>>
  BY DEF Take, Goto, readVars
<1>3. Quiet(j) /\ end[j] \in {"none", "Cancelled"} /\ \A v \in Workers : task[v] # j
  BY <1>1 DEF Reports, Waiting, Taken
<1>4. \A i \in Jobs : Queued(i)' => Queued(i)
  BY TakePlaces
<1>5. \A v \in Workers : ReportOf(v)'
  BY <1>1, <1>2, <1>3, <1>4 DEF Reports, ReportOf, Quiet, BeforeEnd, ChildPoints
<1>6. \A i \in Jobs : Waiting(i)' => Quiet(i)' /\ end'[i] \in {"none", "Cancelled"}
  BY <1>1, <1>2, <1>3, <1>4 DEF Reports, Waiting, Queued, Quiet
<1>7. \A i \in Jobs : end'[i] = "Cancelled" => handle'[i] \notin {"unborn", "held"}
  BY <1>1, <1>2, <1>3, <1>4 DEF Reports
<1>8. \A i \in Jobs : chan'[i] # "empty" => seen'[i] = "nothing"
  BY <1>1, <1>2, <1>3, <1>4 DEF Reports, Quiet
<1>9. \A i \in Jobs : handle'[i] = "held" /\ chan'[i] # "empty" =>
        end'[i] = IF chan'[i] = "value" THEN "Returned" ELSE "Panicked"
  BY <1>1, <1>2, <1>3, <1>4 DEF Reports, Quiet
<1>10. SeenMatchesEnd'
  BY <1>1, <1>2, <1>3, <1>4 DEF Reports, SeenMatchesEnd
<1>11. EndIsReported'
  BY <1>1, <1>2, <1>3, <1>4
     DEF Reports, EndIsReported, WorksOn, BusyPoints, ChildPoints, EndPoints, Quiet
<1>12. ResultAnnounced'
  BY <1>1, <1>2, <1>3, <1>4 DEF Reports, ResultAnnounced, Quiet
<1>13. QED BY <1>5, <1>6, <1>7, <1>8, <1>9, <1>10, <1>11, <1>12 DEF Reports

LEMMA DropSettleReports ==
    ASSUME Core, Placed, Children, Reports, NEW j \in Jobs, DropSettle(j)
    PROVE  Reports'
<1> USE DEF Core, TypeOK
<1>1. /\ handle[j] = "held" /\ handle' = [handle EXCEPT ![j] = "settled"]
      /\ end' = [end EXCEPT ![j] = IF @ = "none" THEN "Cancelled" ELSE @]
      /\ UNCHANGED <<queue, pc, task, chan, seen, frame>>
  BY DEF DropSettle, Settle, Settled, poolVars, workVars
<1>2. \A v \in Workers : ReportOf(v)'
  BY <1>1 DEF Reports, ReportOf, Quiet, BeforeEnd, ChildPoints
<1>3. \A i \in Jobs : Waiting(i)' => Quiet(i)' /\ end'[i] \in {"none", "Cancelled"}
  BY <1>1 DEF Reports, Waiting, Queued, Quiet
<1>4. \A i \in Jobs : end'[i] = "Cancelled" => handle'[i] \notin {"unborn", "held"}
  BY <1>1 DEF Reports
<1>5. \A i \in Jobs : chan'[i] # "empty" => seen'[i] = "nothing"
  BY <1>1 DEF Reports, Quiet
<1>6. \A i \in Jobs : handle'[i] = "held" /\ chan'[i] # "empty" =>
        end'[i] = IF chan'[i] = "value" THEN "Returned" ELSE "Panicked"
  BY <1>1 DEF Reports, Quiet
<1>7. SeenMatchesEnd'
  BY <1>1 DEF Reports, SeenMatchesEnd
<1>8. EndIsReported'
  BY <1>1 DEF Reports, EndIsReported, WorksOn, BusyPoints, ChildPoints, EndPoints, Quiet
<1>9. ResultAnnounced'
  BY <1>1 DEF Reports, ResultAnnounced, Quiet
<1>10. QED BY <1>2, <1>3, <1>4, <1>5, <1>6, <1>7, <1>8, <1>9 DEF Reports

LEMMA FrameReports ==
    ASSUME Core, Placed, Children, Reports, Frame
    PROVE  Reports'
<1> USE DEF Core, TypeOK
<1>1. /\ seen' = [i \in Jobs |-> IF handle[i] = "held" /\ chan[i] # "empty"
                             THEN IF chan[i] = "value" THEN "value" ELSE "failed"
                             ELSE seen[i]]
      /\ chan' = [i \in Jobs |-> IF handle[i] = "held" /\ chan[i] # "empty"
                                THEN "empty" ELSE chan[i]]
      /\ UNCHANGED <<queue, pc, task, handle, end>>
  BY DEF Frame, poolVars, workVars
<1>2. \A i \in Jobs : Quiet(i)' <=> Quiet(i)
  BY <1>1 DEF Quiet
<1>3. \A v \in Workers : ReportOf(v)'
  <2> SUFFICES ASSUME NEW v \in Workers PROVE ReportOf(v)' OBVIOUS
  <2>1. ReportOf(v) BY DEF Reports
  <2>2. CASE pc[v] \in BusyPoints
    <3>1. task[v] \in Jobs BY <2>2 DEF Posts
    <3>2. QED BY <1>1, <1>2, <2>1, <3>1 DEF ReportOf, Quiet, Taken
  <2>3. CASE pc[v] \notin BusyPoints
    BY <1>1, <1>2, <2>3 DEF ReportOf, BusyPoints, BeforeEnd, EndPoints
  <2>4. QED BY <2>2, <2>3
<1>4. \A i \in Jobs : Waiting(i)' => Quiet(i)' /\ end'[i] \in {"none", "Cancelled"}
  BY <1>1, <1>2 DEF Reports, Waiting, Queued, Quiet
<1>5. \A i \in Jobs : end'[i] = "Cancelled" => handle'[i] \notin {"unborn", "held"}
  BY <1>1, <1>2 DEF Reports
<1>6. \A i \in Jobs : chan'[i] # "empty" => seen'[i] = "nothing"
  BY <1>1, <1>2 DEF Reports, Quiet
<1>7. \A i \in Jobs : handle'[i] = "held" /\ chan'[i] # "empty" =>
        end'[i] = IF chan'[i] = "value" THEN "Returned" ELSE "Panicked"
  BY <1>1, <1>2 DEF Reports, Quiet
<1>8. SeenMatchesEnd'
  BY <1>1, <1>2 DEF Reports, SeenMatchesEnd
<1>9. EndIsReported'
  BY <1>1, <1>2 DEF Reports, EndIsReported, WorksOn, BusyPoints, ChildPoints, EndPoints, Quiet
<1>10. ResultAnnounced'
  BY <1>1, <1>2 DEF Reports, ResultAnnounced, Quiet
<1>11. QED BY <1>3, <1>4, <1>5, <1>6, <1>7, <1>8, <1>9, <1>10 DEF Reports

LEMMA ReportsStep == Core /\ Placed /\ Children /\ Reports /\ [Next]_vars => Reports'
<1> SUFFICES ASSUME Core, Placed, Children, Reports, [Next]_vars PROVE Reports' OBVIOUS
<1> USE DEF Goto, poolVars, workVars, readVars, BeforeEnd, BusyPoints, ChildPoints, EndPoints
<1>1. ASSUME NEW j \in Jobs, NEW c \in Classes, Spawn(j, c) PROVE Reports'
  BY <1>1, SpawnReports
<1>2. ASSUME NotifyOne PROVE Reports'
  BY <1>2, ReportsSteady DEF NotifyOne, Core, TypeOK
<1>3. ASSUME NEW w \in Workers, Take(w) PROVE Reports'
  BY <1>3, TakeReports
<1>4. ASSUME NEW w \in Workers, Sleep(w) PROVE Reports'
  BY <1>4, ReportsSteady DEF Sleep, Core, TypeOK
<1>5. ASSUME NEW w \in Workers, SpuriousWake(w) PROVE Reports'
  BY <1>5, ReportsSteady DEF SpuriousWake, Core, TypeOK
<1>6. ASSUME NEW w \in Workers, CheckCancelled(w) PROVE Reports'
  BY <1>6, CheckCancelledReports
<1>7. ASSUME NEW w \in Workers, StepDone(w) PROVE Reports'
  BY <1>7, ReportsSteady DEF StepDone, Core, TypeOK
<1>8. ASSUME NEW w \in Workers, Return(w) PROVE Reports'
  BY <1>8, ReturnReports
<1>9. ASSUME NEW w \in Workers, Panic(w) PROVE Reports'
  BY <1>9, PanicReports
<1>10. ASSUME NEW w \in Workers, Send(w) PROVE Reports'
  BY <1>10, SendReports
<1>11. ASSUME NEW w \in Workers, WakeUI(w) PROVE Reports'
  BY <1>11, WakeUIReports
<1>12. ASSUME NEW w \in Workers, Release(w) PROVE Reports'
  BY <1>12, ReleaseReports
<1>13. ASSUME NEW w \in Workers, NotifyAll(w) PROVE Reports'
  BY <1>13, ReportsSteady DEF NotifyAll, Core, TypeOK
<1>14. ASSUME NEW w \in Workers, SpawnChild(w) PROVE Reports'
  BY <1>14, ReportsSteady DEF SpawnChild, Core, TypeOK
<1>15. ASSUME NEW w \in Workers, Register(w) PROVE Reports'
  BY <1>15, ReportsSteady DEF Register, Core, TypeOK
<1>16. ASSUME NEW w \in Workers, Recheck(w) PROVE Reports'
  BY <1>16, ReportsSteady DEF Recheck, Core, TypeOK
<1>17. ASSUME NEW w \in Workers, WaitExited(w) PROVE Reports'
  BY <1>17, ReportsSteady DEF WaitExited, Core, TypeOK
<1>18. ASSUME NEW w \in Workers, WaitGaveUp(w) PROVE Reports'
  BY <1>18, ReportsSteady DEF WaitGaveUp, Core, TypeOK
<1>19. ASSUME NEW w \in Workers, Collect(w) PROVE Reports'
  BY <1>19, ReportsSteady DEF Collect, Core, TypeOK
<1>20. ASSUME NEW j \in Jobs, ChildExits(j) PROVE Reports'
  BY <1>20, ReportsSteady DEF ChildExits, Core, TypeOK
<1>21. ASSUME NEW j \in Jobs, KillLands(j) PROVE Reports'
  BY <1>21, ReportsSteady DEF KillLands, Core, TypeOK
<1>22. ASSUME NEW j \in Jobs, DropSettle(j) PROVE Reports'
  BY <1>22, DropSettleReports
<1>23. ASSUME NEW j \in Jobs, DropFlag(j) PROVE Reports'
  BY <1>23, ReportsSteady DEF DropFlag, Core, TypeOK
<1>24. ASSUME NEW j \in Jobs, DropKill(j) PROVE Reports'
  BY <1>24, ReportsSteady DEF DropKill, Core, TypeOK
<1>25. ASSUME Frame PROVE Reports'
  BY <1>25, FrameReports
<1>26. CASE UNCHANGED vars
  BY <1>26, ReportsSteady DEF vars
<1>27. QED
  BY <1>1, <1>2, <1>3, <1>4, <1>5, <1>6, <1>7, <1>8, <1>9, <1>10, <1>11, <1>12, <1>13, <1>14,
     <1>15, <1>16, <1>17, <1>18, <1>19, <1>20, <1>21, <1>22, <1>23, <1>24, <1>25, <1>26
     DEF Next, WorkerStep, ClosureStep, OwnerStep

-----------------------------------------------------------------------------
(* The inductive invariant and what follows from it.                       *)

LEMMA Inductive == Spec => []IInv
<1>1. Init => IInv
  BY CoreInit, PlacedInit, ChildrenInit, ReportsInit DEF IInv
<1>2. IInv /\ [Next]_vars => IInv'
  BY CoreStep, PlacedStep, ChildrenStep, ReportsStep DEF IInv
<1>3. QED BY <1>1, <1>2, PTL DEF Spec

(* However the drop of a handle interleaves with the spawn, the            *)
(* registration and the wait of its child, a child that outlives the       *)
(* cancel's flag is about to be killed.                                    *)
THEOREM CancelAlwaysReaches == Spec => []CancelReachesChild
<1>1. IInv => CancelReachesChild BY DEF IInv, Children
<1>2. QED BY <1>1, Inductive, PTL

(* Every child that was started and not reaped has exactly the worker that *)
(* started it to reap it.                                                  *)
THEOREM ChildrenAreReaped == Spec => []NoOrphanChild
<1>1. IInv => NoOrphanChild BY DEF IInv, Children, Attended, NoOrphanChild
<1>2. QED BY <1>1, Inductive, PTL

(* A process killed by a cancel is never reported as one that finished.    *)
THEOREM KillsReadAsCancelled == Spec => KillReadsAsCancelled
<1>1. IInv /\ [Next]_vars => [\A j \in Jobs : proc[j] = "killed" => proc'[j] # "ok"]_vars
  <2> SUFFICES ASSUME IInv, Next, NEW j \in Jobs, proc[j] = "killed", proc'[j] = "ok"
               PROVE  FALSE
    BY DEF IInv
  <2> USE DEF poolVars, workVars, childVars, readVars
  <2>1. PICK w \in Workers : WaitExited(w) /\ task[w] = j
    <3>1. proc'[j] # proc[j] OBVIOUS
    <3>2. proc \in [Jobs -> {"none"} \cup Alive \cup Ended \cup Reaped]
      BY DEF IInv, Core, TypeOK
    <3>3. ASSUME NEW i \in Jobs, OwnerStep(i) \/ ChildExits(i) \/ KillLands(i)
          PROVE  FALSE
      BY <3>1, <3>2, <3>3
         DEF OwnerStep, DropSettle, DropFlag, DropKill, KillRegistered, AfterKill,
             ChildExits, KillLands
    <3>4. ASSUME NEW w \in Workers, WorkerStep(w) \/ ClosureStep(w) \/ SpuriousWake(w)
          PROVE  WaitExited(w) /\ task[w] = j
      BY <3>1, <3>2, <3>4
         DEF WorkerStep, ClosureStep, SpuriousWake, Take, Sleep, CheckCancelled, Register,
             Recheck, WaitExited, Collect, Send, WakeUI, Release, NotifyAll, StepDone,
             Return, Panic, SpawnChild, WaitGaveUp, KillRegistered, AfterKill
    <3>5. QED BY <3>1, <3>3, <3>4 DEF Next, Spawn, NotifyOne, Frame
  <2>2. pc[w] = "wait" /\ ~flag[j] BY <2>1 DEF WaitExited, IInv, Core, TypeOK
  <2>3. flag[j] BY <2>1, <2>2 DEF IInv, Children, ChildOf
  <2>4. QED BY <2>2, <2>3
<1>2. QED BY <1>1, Inductive, PTL DEF Spec, KillReadsAsCancelled

(* What the owner takes off the channel and what a progress reader shows   *)
(* never disagree.                                                         *)
THEOREM OwnerAndReaderAgree == Spec => []SeenMatchesEnd
<1>1. IInv => SeenMatchesEnd BY DEF IInv, Reports
<1>2. QED BY <1>1, Inductive, PTL

(* A result in a held handle's channel is announced to the UI.             *)
THEOREM ResultsAreAnnounced == Spec => []ResultAnnounced
<1>1. IInv => ResultAnnounced BY DEF IInv, Reports
<1>2. QED BY <1>1, Inductive, PTL

(* An owner that keeps its handle is told the truth, with a frame to read  *)
(* it.                                                                     *)
THEOREM OwnersAreTold == Spec => []OwnerTold
<1>1. SeenMatchesEnd /\ ResultAnnounced => OwnerTold BY DEF OwnerTold
<1>2. QED BY <1>1, OwnerAndReaderAgree, ResultsAreAnnounced, PTL

(* A job that returned or panicked under a held handle has reported it.    *)
THEOREM EndsAreReported == Spec => []EndIsReported
<1>1. IInv => EndIsReported BY DEF IInv, Reports
<1>2. QED BY <1>1, Inductive, PTL

(* No step rewrites an end that was recorded.                              *)
THEOREM EndsAreFinal == Spec => EndIsFinal
<1>1. TypeOK /\ [Next]_vars => [\A j \in Jobs : end[j] # "none" => end'[j] = end[j]]_vars
  <2> SUFFICES ASSUME TypeOK, Next, NEW j \in Jobs, end[j] # "none"
               PROVE  end'[j] = end[j]
    OBVIOUS
  <2> USE DEF TypeOK, poolVars, workVars, readVars
  <2>1. ASSUME NEW i \in Jobs, OwnerStep(i) \/ ChildExits(i) \/ KillLands(i)
        PROVE  end'[j] = end[j]
    BY <2>1 DEF OwnerStep, DropSettle, DropFlag, DropKill, ChildExits, KillLands,
                Settle, Settled
  <2>2. ASSUME NEW w \in Workers, WorkerStep(w) \/ ClosureStep(w) \/ SpuriousWake(w)
        PROVE  end'[j] = end[j]
    BY <2>2 DEF WorkerStep, ClosureStep, SpuriousWake, Take, Sleep, CheckCancelled,
                Register, Recheck, WaitExited, Collect, Send, WakeUI, Release, NotifyAll,
                StepDone, Return, Panic, SpawnChild, WaitGaveUp, Settle, Settled
  <2>3. QED BY <2>1, <2>2 DEF Next, Spawn, NotifyOne, Frame
<1>2. QED BY <1>1, TypeCorrect, PTL DEF Spec, EndIsFinal

-----------------------------------------------------------------------------
(* Sleepers.                                                               *)

(* While a worker sleeps and none is about to wake them all, every job     *)
(* that could be taken has a worker about to look, or a notification still *)
(* to come.  NoLostWakeup is this for one job; it takes the count to show  *)
(* that a look which takes one job leaves a look for each of the others.   *)
Scanning == {w \in Workers : pc[w] = "scan"}
Room(c) == NumWorkers - (running[c] + 1)
Takeable(c) == IF Len(queue[c]) < Room(c) THEN Len(queue[c]) ELSE Room(c)

Wakes ==
    (\E w \in Workers : pc[w] = "asleep") /\ (\A w \in Workers : pc[w] # "notify") =>
        Takeable("interactive") + Takeable("background") <= unnotified + Cardinality(Scanning)

LEMMA ScanningFinite == IsFiniteSet(Scanning) /\ Cardinality(Scanning) \in Nat
<1>1. IsFiniteSet(Workers) BY PoolAssumption
<1>2. Scanning \in SUBSET Workers BY DEF Scanning
<1>3. IsFiniteSet(Scanning) BY <1>1, <1>2, FS_Subset
<1>4. QED BY <1>3, FS_CardinalityType

LEMMA OneMoreScans ==
    ASSUME TypeOK, NEW w \in Workers, pc[w] # "scan", pc' = [pc EXCEPT ![w] = "scan"]
    PROVE  Cardinality(Scanning)' = Cardinality(Scanning) + 1
<1>1. Scanning' = Scanning \cup {w} BY DEF TypeOK, Scanning
<1>2. w \notin Scanning BY DEF Scanning
<1> HIDE DEF Scanning
<1>3. Cardinality(Scanning \cup {w}) = Cardinality(Scanning) + 1
  BY <1>2, ScanningFinite, FS_AddElement
<1>4. QED BY <1>1, <1>3

LEMMA OneLessScans ==
    ASSUME TypeOK, NEW w \in Workers, NEW p, pc[w] = "scan", p # "scan",
           pc' = [pc EXCEPT ![w] = p]
    PROVE  Cardinality(Scanning)' = Cardinality(Scanning) - 1
<1>1. Scanning' = Scanning \ {w} BY DEF TypeOK, Scanning
<1>2. w \in Scanning BY DEF Scanning
<1> HIDE DEF Scanning
<1>3. Cardinality(Scanning \ {w}) = Cardinality(Scanning) - 1
  BY <1>2, ScanningFinite, FS_RemoveElement
<1>4. QED BY <1>1, <1>3

LEMMA TakeableCounts ==
    ASSUME Core, NEW c \in Classes
    PROVE  /\ NumWorkers \in Nat /\ Room(c) \in Nat /\ Len(queue[c]) \in Nat
           /\ Takeable(c) \in Nat
           /\ CanTake(c) <=> Takeable(c) > 0
<1>1. NumWorkers \in Nat BY PoolAssumption, FS_CardinalityType DEF NumWorkers
<1>2. running[c] \in Nat /\ running[c] < NumWorkers BY DEF Core, SlotCount, TypeOK
<1>3. queue[c] \in Seq(Jobs) /\ Len(queue[c]) \in Nat /\ (queue[c] # <<>> <=> Len(queue[c]) > 0)
  BY DEF Core, TypeOK
<1>4. Room(c) \in Nat BY <1>1, <1>2 DEF Room
<1>5. Takeable(c) \in Nat BY <1>3, <1>4 DEF Takeable
<1>6. CanTake(c) <=> Takeable(c) > 0 BY <1>1, <1>2, <1>3 DEF CanTake, Takeable, Room
<1>7. QED BY <1>1, <1>3, <1>4, <1>5, <1>6

LEMMA WakesInit == Init => Wakes
BY DEF Init, Wakes

LEMMA WakesQuiet ==
    ASSUME Wakes, UNCHANGED poolVars,
           \A w \in Workers : \A p \in {"scan", "asleep", "notify"} : pc'[w] = p <=> pc[w] = p
    PROVE  Wakes'
<1>1. Scanning' = Scanning BY DEF Scanning
<1>2. Takeable("interactive")' = Takeable("interactive")
      /\ Takeable("background")' = Takeable("background")
  BY DEF Takeable, Room, poolVars
<1>3. QED BY <1>1, <1>2 DEF Wakes, poolVars

LEMMA SpawnWakes ==
    ASSUME Core, Core', Wakes, NEW j \in Jobs, NEW c \in Classes, Spawn(j, c)
    PROVE  Wakes'
<1>1. \A d \in Classes : /\ Takeable(d)' <= Takeable(d) + (IF d = c THEN 1 ELSE 0)
                          /\ Takeable(d)' \in Nat
  <2>1. SUFFICES ASSUME NEW d \in Classes
                 PROVE  /\ Takeable(d)' <= Takeable(d) + (IF d = c THEN 1 ELSE 0)
                        /\ Takeable(d)' \in Nat
    OBVIOUS
  <2>2. /\ queue[d] \in Seq(Jobs) /\ running' = running
        /\ queue' = [queue EXCEPT ![c] = Append(@, j)] /\ queue \in [Classes -> Seq(Jobs)]
    BY DEF Core, TypeOK, Spawn
  <2>6. Len(queue'[d]) = Len(queue[d]) + (IF d = c THEN 1 ELSE 0) BY <2>2
  <2>3. Room(d)' = Room(d) BY <2>2 DEF Room
  <2>4. Room(d) \in Nat /\ Len(queue[d]) \in Nat BY TakeableCounts
  <2>5. Takeable(d)' = IF Len(queue'[d]) < Room(d) THEN Len(queue'[d]) ELSE Room(d)
    BY <2>3 DEF Takeable
  <2>7. Takeable(d) = IF Len(queue[d]) < Room(d) THEN Len(queue[d]) ELSE Room(d)
    BY DEF Takeable
  <2> HIDE DEF Room, Takeable
  <2>8. CASE d = c BY <2>4, <2>5, <2>6, <2>7, <2>8
  <2>9. CASE d # c BY <2>4, <2>5, <2>6, <2>7, <2>9
  <2>10. QED BY <2>8, <2>9
<1>2. Scanning' = Scanning BY DEF Scanning, Spawn, workVars
<1>3. /\ unnotified \in Nat /\ unnotified' = unnotified + 1 /\ pc' = pc
  BY DEF Core, TypeOK, Spawn, workVars
<1>4. \A d \in Classes : Takeable(d) \in Nat BY TakeableCounts
<1>5. "interactive" \in Classes /\ "background" \in Classes BY DEF Classes
<1>6. c = "interactive" \/ c = "background" BY DEF Classes
<1>7. QED BY <1>1, <1>2, <1>3, <1>4, <1>5, <1>6, ScanningFinite DEF Wakes

LEMMA TakeWakes ==
    ASSUME Core, Core', Wakes, NEW w \in Workers, Take(w)
    PROVE  Wakes'
<1>1. PICK c \in Classes :
        /\ CanTake(c)
        /\ queue' = [queue EXCEPT ![c] = Tail(@)]
        /\ running' = [running EXCEPT ![c] = @ + 1]
  BY DEF Take
<1>2. /\ pc[w] = "scan" /\ pc' = [pc EXCEPT ![w] = "check"] /\ UNCHANGED unnotified
      /\ TypeOK /\ unnotified \in Nat
  BY DEF Take, Goto, Core, TypeOK
<1>3. Cardinality(Scanning)' = Cardinality(Scanning) - 1 BY <1>2, OneLessScans
<1>4. \A d \in Classes : Takeable(d)' = Takeable(d) - (IF d = c THEN 1 ELSE 0)
  <2>1. SUFFICES ASSUME NEW d \in Classes
                 PROVE  Takeable(d)' = Takeable(d) - (IF d = c THEN 1 ELSE 0)
    OBVIOUS
  <2>2. Room(d) \in Nat /\ Len(queue[d]) \in Nat /\ NumWorkers \in Nat BY TakeableCounts
  <2>3. CASE d = c
    <3>1. Len(queue'[d]) = Len(queue[d]) - 1 /\ running'[d] = running[d] + 1
      BY <1>1, <2>3 DEF Core, TypeOK, CanTake
    <3>2. Room(d)' = Room(d) - 1 BY <3>1, <2>2 DEF Room, Core, TypeOK
    <3>3. QED BY <2>2, <2>3, <3>1, <3>2 DEF Takeable
  <2>4. CASE d # c
    <3>1. queue'[d] = queue[d] /\ running'[d] = running[d] BY <1>1, <2>4 DEF Core, TypeOK
    <3>2. Takeable(d)' = Takeable(d) /\ Takeable(d) \in Nat
      BY <3>1, TakeableCounts DEF Takeable, Room
    <3>3. QED BY <2>4, <3>2
  <2>5. QED BY <2>3, <2>4
<1>5. /\ (\E v \in Workers : pc'[v] = "asleep") => \E v \in Workers : pc[v] = "asleep"
      /\ (\A v \in Workers : pc'[v] # "notify") => \A v \in Workers : pc[v] # "notify"
  BY <1>2 DEF TypeOK
<1>6. \A d \in Classes : Takeable(d) \in Nat BY TakeableCounts
<1>7. "interactive" \in Classes /\ "background" \in Classes BY DEF Classes
<1>8. c = "interactive" \/ c = "background" BY DEF Classes
<1>9. QED BY <1>2, <1>3, <1>4, <1>5, <1>6, <1>7, <1>8, ScanningFinite DEF Wakes

LEMMA SleepWakes ==
    ASSUME Core, Core', NEW w \in Workers, Sleep(w)
    PROVE  Wakes'
<1>1. \A c \in Classes : Takeable(c) = 0 BY TakeableCounts DEF Sleep
<1>2. \A c \in Classes : Takeable(c)' = 0
  BY <1>1 DEF Sleep, Takeable, Room, poolVars
<1>3. "interactive" \in Classes /\ "background" \in Classes BY DEF Classes
<1>4. unnotified' \in Nat BY DEF Core, TypeOK
<1>5. Cardinality(Scanning)' \in Nat
  <2>1. Scanning' \in SUBSET Workers BY DEF Scanning
  <2>2. IsFiniteSet(Workers) BY PoolAssumption
  <2> HIDE DEF Scanning
  <2>3. QED BY <2>1, <2>2, FS_Subset, FS_CardinalityType
<1>6. QED BY <1>2, <1>3, <1>4, <1>5 DEF Wakes

LEMMA WakeUpWakes ==
    ASSUME Core, Core', Wakes, NEW w \in Workers, pc[w] = "asleep",
           pc' = [pc EXCEPT ![w] = "scan"], UNCHANGED <<queue, running>>,
           unnotified' = unnotified \/ unnotified' = unnotified - 1
    PROVE  Wakes'
<1>1. Cardinality(Scanning)' = Cardinality(Scanning) + 1 BY OneMoreScans DEF Core
<1>2. \A c \in Classes : Takeable(c)' = Takeable(c) /\ Takeable(c) \in Nat
  BY TakeableCounts DEF Takeable, Room
<1>3. "interactive" \in Classes /\ "background" \in Classes BY DEF Classes
<1>4. unnotified \in Nat /\ unnotified' \in Nat BY DEF Core, TypeOK
<1>5. (\A v \in Workers : pc'[v] # "notify") => \A v \in Workers : pc[v] # "notify"
  BY DEF Core, TypeOK
<1>6. QED BY <1>1, <1>2, <1>3, <1>4, <1>5, ScanningFinite DEF Wakes

LEMMA WakesStep == Core /\ Core' /\ Wakes /\ [Next]_vars => Wakes'
<1> SUFFICES ASSUME Core, Core', Wakes, [Next]_vars PROVE Wakes' OBVIOUS
<1> USE DEF Goto, poolVars, workVars, childVars, readVars
<1>1. ASSUME NEW j \in Jobs, NEW c \in Classes, Spawn(j, c) PROVE Wakes'
  BY <1>1, SpawnWakes
<1>2. CASE NotifyOne
  <2>1. ASSUME NEW w \in Workers, pc[w] = "asleep", Goto(w, "scan") PROVE Wakes'
    BY <1>2, <2>1, WakeUpWakes DEF NotifyOne
  <2>2. CASE (\A w \in Workers : pc[w] # "asleep") /\ UNCHANGED pc
    BY <2>2 DEF Wakes
  <2>3. QED BY <1>2, <2>1, <2>2 DEF NotifyOne
<1>3. ASSUME NEW w \in Workers, Take(w) PROVE Wakes'
  BY <1>3, TakeWakes
<1>4. ASSUME NEW w \in Workers, Sleep(w) PROVE Wakes'
  BY <1>4, SleepWakes
<1>5. ASSUME NEW w \in Workers, SpuriousWake(w) PROVE Wakes'
  BY <1>5, WakeUpWakes DEF SpuriousWake
<1>6. ASSUME NEW w \in Workers, Release(w) PROVE Wakes'
  <2>1. pc'[w] = "notify" BY <1>6 DEF Release, Core, TypeOK
  <2>2. QED BY <2>1 DEF Wakes
<1>7. ASSUME NEW w \in Workers, NotifyAll(w) PROVE Wakes'
  <2>1. \A v \in Workers : pc'[v] # "asleep" BY <1>7 DEF NotifyAll
  <2>2. QED BY <2>1 DEF Wakes
<1>8. ASSUME NEW w \in Workers, NEW p, pc' = [pc EXCEPT ![w] = p], UNCHANGED poolVars,
             pc[w] \notin {"scan", "asleep", "notify"}, p \notin {"scan", "asleep", "notify"}
      PROVE  Wakes'
  BY <1>8, WakesQuiet DEF Core, TypeOK
<1>9. ASSUME NEW w \in Workers, CheckCancelled(w) \/ Register(w) \/ Recheck(w)
                                \/ WaitExited(w) \/ Collect(w) \/ Send(w) \/ WakeUI(w)
      PROVE  Wakes'
  BY <1>8, <1>9 DEF CheckCancelled, Register, Recheck, WaitExited, Collect, Send, WakeUI
<1>10. ASSUME NEW w \in Workers, ClosureStep(w) PROVE Wakes'
  <2>1. CASE StepDone(w) BY <2>1, WakesQuiet DEF StepDone
  <2>2. CASE Return(w) \/ Panic(w) \/ SpawnChild(w) \/ WaitGaveUp(w)
    BY <1>8, <2>2 DEF Return, Panic, SpawnChild, WaitGaveUp
  <2>3. QED BY <1>10, <2>1, <2>2 DEF ClosureStep
<1>11. ASSUME NEW j \in Jobs, OwnerStep(j) \/ ChildExits(j) \/ KillLands(j) PROVE Wakes'
  BY <1>11, WakesQuiet DEF OwnerStep, DropSettle, DropFlag, DropKill, ChildExits, KillLands
<1>12. CASE Frame
  BY <1>12, WakesQuiet DEF Frame
<1>13. CASE UNCHANGED vars
  BY <1>13, WakesQuiet DEF vars
<1>14. QED
  BY <1>1, <1>2, <1>3, <1>4, <1>5, <1>6, <1>7, <1>9, <1>10, <1>11, <1>12, <1>13
     DEF Next, WorkerStep

(* No wake-up is lost: the notification of a push comes after the push     *)
(* (spawn), and those of a finished job after its slot is given back       *)
(* (SlotGuard), so a worker that went to sleep before either is woken.     *)
THEOREM NoWakeupIsLost == Spec => []NoLostWakeup
<1>1. Init => Wakes BY WakesInit
<1>2. Core /\ Core' /\ Wakes /\ [Next]_vars => Wakes' BY WakesStep
<1>3. Core /\ Wakes => NoLostWakeup
  <2>1. SUFFICES ASSUME Core, Wakes, NEW c \in Classes, CanTake(c),
                        NEW w \in Workers, pc[w] = "asleep", ~(unnotified > 0),
                        \A v \in Workers : pc[v] \notin {"scan", "notify"}
                 PROVE  FALSE
    BY DEF NoLostWakeup
  <2>2. Scanning = {} BY <2>1 DEF Scanning
  <2>3. Cardinality({}) = 0 BY FS_EmptySet
  <2>4. unnotified = 0 BY <2>1 DEF Core, TypeOK
  <2>5. Takeable("interactive") + Takeable("background") <= 0
    BY <2>1, <2>2, <2>3, <2>4 DEF Wakes
  <2>6. \A d \in Classes : Takeable(d) \in Nat /\ (CanTake(d) <=> Takeable(d) > 0)
    BY <2>1, TakeableCounts
  <2>7. QED BY <2>1, <2>5, <2>6 DEF Classes
<1>4. QED BY <1>1, <1>2, <1>3, CoreInvariant, PTL DEF Spec

-----------------------------------------------------------------------------
(* The pool keeps the promise: every step is a step of JobPromise or       *)
(* leaves what the owners see alone.                                       *)

LEMMA PromiseSteady ==
    ASSUME UNCHANGED <<handle, end, seen>>
    PROVE  UNCHANGED Promise!vars
BY DEF Promise!vars

LEMMA PromiseStep == IInv /\ [Next]_vars => [Promise!Next]_(Promise!vars)
<1> SUFFICES ASSUME IInv, [Next]_vars
             PROVE  Promise!Next \/ UNCHANGED Promise!vars
  OBVIOUS
<1> USE DEF IInv, Core, TypeOK, poolVars, workVars, readVars
<1> DEFINE Goal == Promise!Next \/ UNCHANGED Promise!vars
<1>1. ASSUME NEW j \in Jobs, NEW c \in Classes, Spawn(j, c) PROVE Goal
  <2>1. /\ handle[j] = "unborn" /\ handle' = [handle EXCEPT ![j] = "held"]
        /\ UNCHANGED <<end, seen>>
    BY <1>1 DEF Spawn
  <2>2. Promise!Submit(j) BY <2>1 DEF Promise!Submit
  <2>3. QED BY <2>2 DEF Promise!Next
<1>2. ASSUME NotifyOne PROVE Goal
  BY <1>2, PromiseSteady DEF NotifyOne
<1>3. ASSUME NEW w \in Workers, Take(w) PROVE Goal
  BY <1>3, PromiseSteady DEF Take
<1>4. ASSUME NEW w \in Workers, Sleep(w) PROVE Goal
  BY <1>4, PromiseSteady DEF Sleep
<1>5. ASSUME NEW w \in Workers, SpuriousWake(w) PROVE Goal
  BY <1>5, PromiseSteady DEF SpuriousWake
<1>6. ASSUME NEW w \in Workers, CheckCancelled(w) PROVE Goal
  BY <1>6, PromiseSteady DEF CheckCancelled
<1>7. ASSUME NEW w \in Workers, StepDone(w) PROVE Goal
  BY <1>7, PromiseSteady DEF StepDone
<1>8. ASSUME NEW w \in Workers, Return(w) PROVE Goal
  <2>1. PICK j \in Jobs : task[w] = j BY <1>8, OneCarer DEF Return, BusyPoints
  <2>2. handle[j] # "unborn" BY <2>1 DEF Placed, Taken
  <2>3. end' = [end EXCEPT ![j] = IF @ = "none" THEN "Returned" ELSE @]
        /\ UNCHANGED <<handle, seen>>
    BY <1>8, <2>1 DEF Return, Settle, Settled
  <2>4. CASE end[j] = "none"
    <3>1. Promise!Finish(j, "Returned") BY <2>2, <2>3, <2>4 DEF Promise!Finish
    <3>2. QED BY <3>1 DEF Promise!Next
  <2>5. CASE end[j] # "none"
    <3>1. end' = end BY <2>3, <2>5
    <3>2. QED BY <2>3, <3>1, PromiseSteady
  <2>6. QED BY <2>4, <2>5
<1>9. ASSUME NEW w \in Workers, Panic(w) PROVE Goal
  <2>1. PICK j \in Jobs : task[w] = j BY <1>9, OneCarer DEF Panic, BusyPoints
  <2>2. handle[j] # "unborn" BY <2>1 DEF Placed, Taken
  <2>3. end' = [end EXCEPT ![j] = IF @ = "none" THEN "Panicked" ELSE @]
        /\ UNCHANGED <<handle, seen>>
    BY <1>9, <2>1 DEF Panic, Settle, Settled
  <2>4. CASE end[j] = "none"
    <3>1. Promise!Finish(j, "Panicked") BY <2>2, <2>3, <2>4 DEF Promise!Finish
    <3>2. QED BY <3>1 DEF Promise!Next
  <2>5. CASE end[j] # "none"
    <3>1. end' = end BY <2>3, <2>5
    <3>2. QED BY <2>3, <3>1, PromiseSteady
  <2>6. QED BY <2>4, <2>5
<1>10. ASSUME NEW w \in Workers, Send(w) PROVE Goal
  BY <1>10, PromiseSteady DEF Send
<1>11. ASSUME NEW w \in Workers, WakeUI(w) PROVE Goal
  BY <1>11, PromiseSteady DEF WakeUI
<1>12. ASSUME NEW w \in Workers, Release(w) PROVE Goal
  BY <1>12, PromiseSteady DEF Release
<1>13. ASSUME NEW w \in Workers, NotifyAll(w) PROVE Goal
  BY <1>13, PromiseSteady DEF NotifyAll
<1>14. ASSUME NEW w \in Workers, SpawnChild(w) PROVE Goal
  BY <1>14, PromiseSteady DEF SpawnChild
<1>15. ASSUME NEW w \in Workers, Register(w) PROVE Goal
  BY <1>15, PromiseSteady DEF Register
<1>16. ASSUME NEW w \in Workers, Recheck(w) PROVE Goal
  BY <1>16, PromiseSteady DEF Recheck
<1>17. ASSUME NEW w \in Workers, WaitExited(w) PROVE Goal
  BY <1>17, PromiseSteady DEF WaitExited
<1>18. ASSUME NEW w \in Workers, WaitGaveUp(w) PROVE Goal
  BY <1>18, PromiseSteady DEF WaitGaveUp
<1>19. ASSUME NEW w \in Workers, Collect(w) PROVE Goal
  BY <1>19, PromiseSteady DEF Collect
<1>20. ASSUME NEW j \in Jobs, ChildExits(j) PROVE Goal
  BY <1>20, PromiseSteady DEF ChildExits
<1>21. ASSUME NEW j \in Jobs, KillLands(j) PROVE Goal
  BY <1>21, PromiseSteady DEF KillLands
<1>22. ASSUME NEW j \in Jobs, DropSettle(j) PROVE Goal
  <2>1. /\ handle[j] = "held" /\ handle' = [handle EXCEPT ![j] = "settled"]
        /\ end' = [end EXCEPT ![j] = IF @ = "none" THEN "Cancelled" ELSE @]
        /\ seen' = seen
    BY <1>22 DEF DropSettle, Settle, Settled
  <2>2. Promise!GiveUp(j) BY <2>1 DEF Promise!GiveUp
  <2>3. QED BY <2>2 DEF Promise!Next
<1>23. ASSUME NEW j \in Jobs, DropFlag(j) PROVE Goal
  <2>1. /\ handle[j] = "settled" /\ handle' = [handle EXCEPT ![j] = "flagged"]
        /\ UNCHANGED <<end, seen>>
    BY <1>23 DEF DropFlag
  <2>2. QED BY <2>1 DEF Promise!vars
<1>24. ASSUME NEW j \in Jobs, DropKill(j) PROVE Goal
  <2>1. /\ handle[j] = "flagged" /\ handle' = [handle EXCEPT ![j] = "dropped"]
        /\ UNCHANGED <<end, seen>>
    BY <1>24 DEF DropKill
  <2>2. QED BY <2>1 DEF Promise!vars
<1>25. ASSUME Frame PROVE Goal
  <2> DEFINE taken == {j \in Jobs : handle[j] = "held" /\ chan[j] # "empty"}
  <2>1. /\ seen' = [j \in Jobs |-> IF j \notin taken THEN seen[j]
                                   ELSE IF chan[j] = "value" THEN "value" ELSE "failed"]
        /\ UNCHANGED <<handle, end>>
    BY <1>25 DEF Frame
  <2>2. \A j \in taken : /\ seen[j] = "nothing" /\ handle[j] = "held"
                         /\ end[j] = IF chan[j] = "value" THEN "Returned" ELSE "Panicked"
    BY DEF Reports
  <2>3. seen' = [j \in Jobs |-> IF j \in taken THEN Promise!Outcome(j) ELSE seen[j]]
    BY <2>1, <2>2 DEF Promise!Outcome
  <2>4. Promise!Look(taken) BY <2>1, <2>2, <2>3 DEF Promise!Look
  <2>5. taken \in SUBSET Jobs OBVIOUS
  <2>6. QED BY <2>4, <2>5 DEF Promise!Next
<1>26. CASE UNCHANGED vars
  BY <1>26, PromiseSteady DEF vars
<1>27. QED
  BY <1>1, <1>2, <1>3, <1>4, <1>5, <1>6, <1>7, <1>8, <1>9, <1>10, <1>11, <1>12, <1>13, <1>14,
     <1>15, <1>16, <1>17, <1>18, <1>19, <1>20, <1>21, <1>22, <1>23, <1>24, <1>25, <1>26
     DEF Next, WorkerStep, ClosureStep, OwnerStep

(* JobPool implements JobPromise under the refinement mapping of JobPool's *)
(* Promise: what an owner and a reader of a job can see is decided by that *)
(* small specification, with the threads, the locks and the child left out. *)
THEOREM PoolKeepsPromise == Spec => ImplementsPromise
<1>1. Init => Promise!Init BY DEF Init, Promise!Init
<1>2. QED BY <1>1, PromiseStep, Inductive, PTL DEF Spec, ImplementsPromise, Promise!Spec
=============================================================================
