------------------------------ MODULE Lookups ------------------------------
(***************************************************************************)
(* The two caches a frame asks about worktrees: the pull requests of the   *)
(* branches in the sidebar (alacritree/src/pr_status.rs) and the status of *)
(* the current workspace's checkout (alacritree/src/status_cache.rs).      *)
(*                                                                         *)
(* They feed each other: the branch the status read last is the one whose  *)
(* pull request is looked up, and that pull request's base is what the     *)
(* next status is computed against.  Neither lookup ever blocks a frame:   *)
(* jobs run on the pool, and a frame is painted only when something asked  *)
(* for one, so every answer has to bring the frame that adopts it.         *)
(*                                                                         *)
(* A frame is one step.  The workers touch nothing a frame reads twice, so *)
(* a job that ends during a frame is one that ends before or after it.     *)
(***************************************************************************)
EXTENDS Naturals, FiniteSets

CONSTANTS
    Paths,        \* worktrees the sidebar lists
    Panel,        \* the current workspace, whose status the git panel shows
    Branches,     \* branch names; Init checks one of them out everywhere
    NoBranch,     \* a detached head; no branch known
    Unread,       \* no status has read a head
    NoPr,         \* no pull request known
    Concurrency,  \* requests in flight at once
    MaxEvents,    \* bound: branch switches, folds of the sidebar, TTLs that pass
                  \* and statuses that fail
    MaxRefreshes  \* bound: refreshes the user asks for

ASSUME LookupsAssumption ==
    /\ Panel \in Paths
    /\ Branches # {} /\ NoBranch \notin Branches /\ Unread \notin Branches /\ NoPr \notin Branches
    /\ NoBranch # Unread
    /\ Concurrency \in Nat \ {0}
    /\ MaxEvents \in Nat /\ MaxRefreshes \in Nat

Heads == Branches \cup {NoBranch}

VARIABLES
    woken,      \* a repaint was requested
    rows,       \* the projects sidebar paints its rows
    head,       \* what is checked out in each worktree
    events,     \* how much of that bound is used
    known,      \* the branch discovery last recorded
    entries,    \* PrCache.entries
    due,        \* PrCache.due
    batches,    \* PrCache.batches
    triggered,  \* PrCache.triggered: the status row's refresh runs
    painted,    \* PrCache.painted_since_trigger
    refreshes,  \* refreshes asked for so far
    owed,       \* painted paths no lookup begun after the last refresh ended for
    status,     \* StatusCache: what the panel shows
    compute     \* StatusCache.pending

treeVars == <<rows, head, events, known>>
prVars == <<entries, due, batches, triggered, painted, owed>>
statusVars == <<status, compute>>
vars == <<woken, treeVars, prVars, refreshes, statusVars>>

(* Entry.current: queried_at is within the TTL.  Batch.late: started after *)
(* the last refresh.                                                       *)
Entry == [branch : Heads, info : Branches \cup {NoPr}, current : BOOLEAN,
          pending : BOOLEAN, again : BOOLEAN]
Member == [path : Paths, branch : Branches]
Batch == [members : SUBSET Member, job : {"runs", "overdue", "landed", "panicked"},
          late : BOOLEAN]

(* A base is a pull request's, named by its branch, or the default.        *)
Bases == Branches \cup {NoPr}
Status == [head : Heads \cup {Unread}, hint : Bases, current : BOOLEAN]
Compute == [job : {"none", "runs", "ended"}, hint : Bases, head : Heads \cup {Unread}]

TypeOK ==
    /\ woken \in BOOLEAN /\ rows \in BOOLEAN
    /\ head \in [Paths -> Heads] /\ known \in [Paths -> Heads]
    /\ events \in 0..MaxEvents /\ refreshes \in 0..MaxRefreshes
    /\ entries \in [Paths -> Entry]
    /\ due \in SUBSET Member
    /\ batches \in SUBSET Batch
    /\ triggered \in BOOLEAN /\ painted \in BOOLEAN
    /\ owed \in SUBSET Paths
    /\ status \in Status /\ compute \in Compute

NewEntry == [branch |-> NoBranch, info |-> NoPr, current |-> FALSE,
             pending |-> FALSE, again |-> FALSE]
NoCompute == [job |-> "none", hint |-> NoPr, head |-> Unread]

Init ==
    /\ woken = TRUE /\ rows = TRUE
    /\ head = [p \in Paths |-> CHOOSE b \in Branches : TRUE] /\ known = head
    /\ events = 0 /\ refreshes = 0
    /\ entries = [p \in Paths |-> NewEntry]
    /\ due = {} /\ batches = {}
    /\ triggered = FALSE /\ painted = FALSE /\ owed = {}
    /\ status = [head |-> Unread, hint |-> NoPr, current |-> FALSE]
    /\ compute = NoCompute

-----------------------------------------------------------------------------
(* Pull requests, before the paint: drain_completed.                       *)

PathsOf(b) == {m.path : m \in b.members}
MaySpawn(running) == Cardinality(running) < Concurrency

Reported(b) == b.job = "landed"

(* Nothing to bank: the job panicked, or is past the TTL.                  *)
GivenUp(b) == b.job \in {"panicked", "overdue"}

(* A variant that stamps the answer over a refresh that came meanwhile.    *)
SettleStamped(e, m) ==
    [branch |-> m.branch, info |-> m.branch, current |-> TRUE,
     pending |-> FALSE, again |-> FALSE]

(* settle.  Every branch has a pull request of its own.                    *)
Settle(e, m) ==
    [branch |-> m.branch, info |-> m.branch, current |-> ~e.again,
     pending |-> FALSE, again |-> FALSE]

BackOff(e) == [e EXCEPT !.current = TRUE, !.again = FALSE, !.pending = FALSE]

(* A variant that leaves the entry queued.                                 *)
RefusePending(e) == [e EXCEPT !.current = FALSE]

(* spawn_due over the cap: the entry is as it was before it was polled.    *)
Refuse(e) == [e EXCEPT !.pending = FALSE, !.current = FALSE]

MemberIn(b, p) == CHOOSE m \in b.members : m.path = p

(* Every entry as the ended requests leave it.                             *)
Banked(ended) ==
    [p \in Paths |->
        IF \E b \in ended : p \in PathsOf(b)
          THEN LET b == CHOOSE x \in ended : p \in PathsOf(x) IN
               IF Reported(b) THEN Settle(entries[p], MemberIn(b, p))
                              ELSE BackOff(entries[p])
          ELSE entries[p]]

(* The refresh has settled once a drain after a paint finds nothing.       *)
Drops(wasPainted, running) == wasPainted /\ running = {}

(* The effects of the drain, as one record.                                *)
Drained ==
    LET ended == {b \in batches : Reported(b) \/ GivenUp(b)}
        landed == {b \in ended : Reported(b)}
        running == batches \ ended
        starts == due # {} /\ MaySpawn(running)
        request == [members |-> due, job |-> "runs", late |-> TRUE]
        flying == IF starts THEN running \cup {request} ELSE running
        asked == \E b \in landed : \E p \in PathsOf(b) : entries[p].again
        wasPainted == painted /\ ~(triggered /\ asked)
        settled == Banked(ended)
        refused == IF starts THEN {} ELSE {m.path : m \in due}
        told == UNION {PathsOf(b) : b \in {x \in ended : x.late \/ ~Reported(x)}} IN
    [entries   |-> [p \in Paths |-> IF p \in refused THEN Refuse(settled[p]) ELSE settled[p]],
     batches   |-> flying,
     painted   |-> wasPainted,
     triggered |-> triggered /\ ~Drops(wasPainted, flying),
     owed      |-> owed \ told]

-----------------------------------------------------------------------------
(* What the user asks for: RefreshPrStatus.                                *)

(* invalidate_all.                                                         *)
Invalidated(es) ==
    [p \in Paths |-> [es[p] EXCEPT !.current = FALSE, !.again = @ \/ es[p].pending]]

(* The cache d after invalidate_all and trigger.  What was started before  *)
(* does not answer the refresh.                                            *)
Asked(d) ==
    [d EXCEPT !.entries = Invalidated(d.entries), !.triggered = TRUE, !.painted = FALSE,
              !.batches = {[b EXCEPT !.late = FALSE] : b \in d.batches},
              !.owed = Paths]

-----------------------------------------------------------------------------
(* Pull requests, while the sidebars paint: poll and mark_painted.         *)

(* effective_branch: the live head where there is one.                     *)
EffectiveBranch(p) == IF p = Panel /\ status.head # Unread THEN status.head ELSE known[p]

(* The branch a path is polled with in this frame.  The git sidebar has    *)
(* only the live head, and polls after the rows.                           *)
PolledBranch(p) ==
    IF rows THEN EffectiveBranch(p)
    ELSE IF p = Panel /\ status.head # Unread THEN status.head
    ELSE NoBranch

ShouldSpawn(e, b) == ~e.pending /\ (e.branch # b \/ ~e.current)

(* A switch drops the previous branch's answer at once.                    *)
Poll(e, b) == [e EXCEPT !.branch = b, !.pending = TRUE,
                        !.info = IF e.branch # b THEN NoPr ELSE @]

(* A variant that asks for a frame however full the cap is.                *)
WakesForAny(queued, running) == queued # {}

(* A queued lookup is started by the next frame's drain, if there is room. *)
WakesForQueued(queued, running) == queued # {} /\ MaySpawn(running)

(* A variant that leaves the flag for a frame nobody asks for.             *)
WakesForNobody(d, queued) == FALSE

(* mark_painted: nothing else brings the drain that drops the flag.        *)
WakesForFlag(d, queued) == d.triggered /\ d.batches = {} /\ queued = {}

-----------------------------------------------------------------------------
(* Status: StatusCache::poll.                                              *)

(* The compute that ended is the status, filed under the base it was       *)
(* started with.  One that failed or panicked has read no head.            *)
Held == IF compute.job = "ended"
          THEN [head |-> compute.head, hint |-> compute.hint, current |-> TRUE]
          ELSE status

(* A variant that decides on the status before it adopts a result.         *)
NeedsBefore(wanted) == status.hint # wanted \/ ~status.current

NeedsRefresh(wanted) == Held.hint # wanted \/ ~Held.current

(* The base: the pull request's, or the default.                           *)
EffectiveBase(es) == es[Panel].info

PollStatus(wanted) ==
    /\ status' = Held
    /\ compute' = IF compute.job = "runs" THEN compute
                  ELSE IF NeedsRefresh(wanted)
                    THEN [job |-> "runs", hint |-> wanted, head |-> Unread]
                    ELSE NoCompute

-----------------------------------------------------------------------------
(* A frame: the drain, a key that asks for a refresh, the paint, and a     *)
(* palette command that does.                                              *)

Paint(d) ==
    LET asks == {p \in Paths : PolledBranch(p) # NoBranch
                               /\ ShouldSpawn(d.entries[p], PolledBranch(p))}
        queued == {[path |-> p, branch |-> PolledBranch(p)] : p \in asks} IN
    [entries   |-> [p \in Paths |-> IF p \in asks
                      THEN Poll(d.entries[p], PolledBranch(p)) ELSE d.entries[p]],
     due       |-> queued,
     batches   |-> d.batches,
     painted   |-> d.painted \/ d.triggered,
     triggered |-> d.triggered,
     owed      |-> {p \in d.owed : PolledBranch(p) # NoBranch},
     wakes     |-> WakesForQueued(queued, d.batches) \/ WakesForFlag(d, queued)]

Frame(ask) ==
    \E keyed \in {IF ask = "key" THEN Asked(Drained) ELSE Drained} :
    \E drawn \in {Paint(keyed)} :
    \E final \in {IF ask = "palette" THEN Asked(drawn) ELSE drawn} :
        /\ ask # "no" => refreshes < MaxRefreshes
        /\ refreshes' = IF ask = "no" THEN refreshes ELSE refreshes + 1
        /\ entries' = final.entries /\ due' = final.due /\ batches' = final.batches
        /\ triggered' = final.triggered /\ painted' = final.painted
        /\ owed' = final.owed
        /\ PollStatus(EffectiveBase(drawn.entries))
        /\ woken' = (drawn.wakes \/ ask # "no")
        /\ UNCHANGED treeVars

-----------------------------------------------------------------------------
Event == events < MaxEvents /\ events' = events + 1

(* Workers.  The pool asks for a frame when a job has ended, after its     *)
(* result is there.                                                        *)

RequestEnds(b, how) ==
    /\ b \in batches /\ b.job \in {"runs", "overdue"}
    /\ batches' = (batches \ {b}) \cup {[b EXCEPT !.job = how]}
    /\ woken' = TRUE
    /\ UNCHANGED <<treeVars, entries, due, triggered, painted, owed, refreshes, statusVars>>

(* The status of what is checked out at that moment, or nothing, for an    *)
(* error and for a panic.                                                  *)
ComputeReads ==
    /\ compute.job = "runs"
    /\ compute' = [compute EXCEPT !.job = "ended", !.head = head[Panel]]
    /\ woken' = TRUE
    /\ UNCHANGED <<treeVars, prVars, refreshes, status>>

ComputeFails ==
    /\ compute.job = "runs"
    /\ Event
    /\ compute' = [compute EXCEPT !.job = "ended"]
    /\ woken' = TRUE
    /\ UNCHANGED <<rows, head, known, prVars, refreshes, status>>

-----------------------------------------------------------------------------
(* Time.  No deadline asks for a frame.                                    *)


EntryAges(p) ==
    /\ entries[p].current
    /\ Event
    /\ entries' = [entries EXCEPT ![p].current = FALSE]
    /\ UNCHANGED <<woken, rows, head, known, due, batches, triggered, painted, owed, refreshes,
                   statusVars>>

RequestAges(b) ==
    /\ b \in batches /\ b.job = "runs"
    /\ batches' = (batches \ {b}) \cup {[b EXCEPT !.job = "overdue"]}
    /\ UNCHANGED <<woken, treeVars, entries, due, triggered, painted, owed, refreshes,
                   statusVars>>

StatusAges ==
    /\ status.current
    /\ status' = [status EXCEPT !.current = FALSE]
    /\ UNCHANGED <<woken, treeVars, prVars, refreshes, compute>>

-----------------------------------------------------------------------------
(* The user and the world.                                                 *)

(* A checkout in some terminal.                                            *)
SwitchBranch(p, b) ==
    /\ b # head[p]
    /\ Event
    /\ head' = [head EXCEPT ![p] = b]
    /\ UNCHANGED <<woken, rows, known, prVars, refreshes, statusVars>>

(* A scan is adopted (Projects.tla).                                       *)
Rediscover(p) ==
    /\ known[p] # head[p]
    /\ known' = [known EXCEPT ![p] = head[p]]
    /\ woken' = TRUE
    /\ UNCHANGED <<rows, head, events, prVars, refreshes, statusVars>>

(* The projects sidebar, or the project in it, is folded away or brought   *)
(* back.                                                                   *)
ToggleSidebar ==
    /\ Event
    /\ rows' = ~rows
    /\ woken' = TRUE
    /\ UNCHANGED <<head, known, prVars, refreshes, statusVars>>

-----------------------------------------------------------------------------
Request == \E b \in batches, how \in {"landed", "panicked"} : RequestEnds(b, how)

Computing == ComputeReads \/ ComputeFails

Time == (\E p \in Paths : EntryAges(p)) \/ (\E b \in batches : RequestAges(b)) \/ StatusAges

World ==
    \/ \E p \in Paths, b \in Branches : SwitchBranch(p, b)
    \/ \E p \in Paths : Rediscover(p)
    \/ ToggleSidebar

Next ==
    \/ \E ask \in {"no", "key", "palette"} : Frame(ask)
    \/ Request \/ Computing \/ Time \/ World

Spec == Init /\ [][Next]_vars

(* A frame that was asked for is painted, and jobs end: the pool has a     *)
(* worker for each, and gh and git return.  Nothing is assumed of time,    *)
(* nor that a frame comes that nobody asked for.                           *)
FairSpec ==
    /\ Spec
    /\ WF_vars(woken /\ Frame("no"))
    /\ WF_vars(Request) /\ WF_vars(Computing)

-----------------------------------------------------------------------------
(* Properties.                                                             *)

(* A lookup an entry waits for is queued or in flight, exactly once, under *)
(* the branch the entry is keyed to: an entry left pending without one     *)
(* would never be looked up again, since should_spawn refuses it (poll,    *)
(* settle, back_off, spawn_due).                                           *)
WaitsForOneLookup ==
    \A p \in Paths :
        LET queued == {m \in due : m.path = p}
            flying == {b \in batches : p \in PathsOf(b)} IN
        /\ Cardinality(queued) + Cardinality(flying) = IF entries[p].pending THEN 1 ELSE 0
        /\ \A m \in queued \cup UNION {b.members : b \in flying} :
              m.path = p => m.branch = entries[p].branch

(* What state() answers for a branch is that branch's pull request,        *)
(* through switches, late answers and failures.                            *)
InfoOfItsBranch == \A p \in Paths : entries[p].info \in {entries[p].branch, NoPr}

(* Type correctness, with the two facts above.                             *)
Inv == TypeOK /\ WaitsForOneLookup /\ InfoOfItsBranch

(* A frame that changes nothing does not ask for another: with the cap     *)
(* full, a refresh waiting or a lookup that hangs, the window does not     *)
(* paint at frame rate (poll, mark_painted, spawn_due).                    *)
IdleFrameSleeps ==
    LET frame == Paint(Drained)
        idle == /\ frame.entries = entries /\ frame.due = due /\ frame.batches = batches
                /\ frame.triggered = triggered /\ frame.painted = painted IN
    idle => ~frame.wakes

(* A refresh the user asked for ends: some frame drops its flag, and that  *)
(* frame is asked for (trigger, mark_painted, drain_completed).            *)
RefreshEnds == triggered ~> ~triggered

(* Every branch on screen when the user asks for a refresh gets an answer  *)
(* that was asked for afterwards, also when a lookup was already queued,   *)
(* running, or refused for want of a slot; a failed lookup and a row that  *)
(* leaves the screen excepted (invalidate_all, Entry::refresh_requested).  *)
RefreshReaches == owed # {} ~> owed = {}

(* The panel does not stay on a base that is not the one wanted: a pull    *)
(* request that arrives, goes or changes brings a status computed against  *)
(* its base, whatever was being computed when it did (StatusCache::poll).  *)
BaseCatchesUp ==
    (status.hint # EffectiveBase(entries)) ~> (status.hint = EffectiveBase(entries))
=============================================================================
