# alacritree in TLA+

A model of alacritree's concurrent core: specifications of the job pool, the
WSL helper, the sessions and their warm spares, the projects with their scans and
parked replies, the herdr endpoint, the pull request and git status caches, and the
session list with the sidebar's cursor; TLC configurations that check them on
small instances; and proofs, checked by TLAPS, of all their invariants: the job pool keeps its promises and loses no wake-up for any number of jobs
and workers, the WSL helper never runs a script twice or leaves a request behind, the
probe cache and the cell sizes stay true, no shell outlives its session and input arrives
in order, a client's call is answered once and from its own scan, the rows of herdr end on
what herdr shows, no pull request entry waits for a lookup nobody runs, and cursor and terminal
of the sidebar land together on a session that is there.

Paths below are relative to the repository: `common/` is
`crates/alacritree_common/src/`, `herdr/` is `crates/alacritree_herdr/src/`, `app/`
is `alacritree/src/app/`, and a bare file name is in `alacritree/src/`.

To check a module: `tlc -config MCJobPool.cfg MCJobPool.tla`; to check the proofs of one:
`tlapm JobPoolProofs.tla`, and likewise `WslProofs` (of WslHelper and WslProbes),
`SessionsProofs`, `ProjectsProofs`, `HerdrProofs`, `LookupsProofs`, `ViewsProofs` and the
lemmas they share, `SelectionLemmas`.

## 1. The system

alacritree is a terminal with a sidebar of projects and their worktrees. One
process, one UI thread (egui) that does everything visible in **frames**, and
everything slow on other threads whose results a later frame **adopts**. The UI
thread sleeps between frames; whatever happens while it sleeps must ask for a
frame or is not seen. That shape, work sent away and adopted later while the
state it was about moves on, is behind most of what can go wrong here.

| Component | State | Operations | Talks to |
|---|---|---|---|
| Job pool, `common/jobs.rs` | two queues, two running counters, per job a cancel flag, a registered child process, a one-shot channel, a recorded end | `spawn`, `take`, `Job::poll`, `failed`, `drop`; `Blocking::run` and its child | everything slow; the waker asks for frames |
| WSL helper, `common/wsl_helper.rs` | one client per distro: child, stdin, pending map, down flag; a registry with a cooldown | `run`, `probe`, `ping`, `mark_down`, the reader thread | `wsl.rs::run_batch`, the probe poller |
| Probes and cell sizes, `common/wsl_helper.rs` | probe cache, queue of sizes | register, unregister, the poller, the size writer, watcher scripts in the distro | sessions |
| Sessions, `session.rs`, `app.rs` | the record, typed-ahead input, the PTY's event loop | open, write, resize, drain, attach, close, quit | job pool, event loop, spares |
| Event loop, `alacritty_terminal/src/event_loop.rs` | a channel, a write list, the PTY | input, resize, shutdown, child exit | sessions, the shell |
| Spare WSL terminals, `wsl_spare.rs` | a slot per distro, closed or not | claim, replenish, launch, fill, abandon, close | sessions |
| Projects, `projects.rs`, `in_flight.rs`, `app.rs` | the list, the scan per root, replies parked on it, the activity row | add, remove, move, refresh, adopt | job pool, IPC |
| IPC, `ipc/`, `app/ipc_handler.rs` | calls in a channel, replies parked, a 10 s timeout | one request per line | projects, sessions |
| Worktrees, `worktree.rs`, `app/modals.rs` | dialogs, background creates and deletes | create, delete, force, prune | job pool, projects, hooks |
| herdr, `herdr/poll.rs`, `events.rs`, `view.rs`, `host.rs` | two event streams, a listing job, rows, a shared view | advance, apply, focus, follow | herdr's CLI and socket, sessions |
| Git status, PR status, `status_cache.rs`, `pr_status.rs` | a cached answer and a job for the next | poll, invalidate, drain | job pool, git, gh |
| Session list and focus, `app/session_list.rs`, `app/focus.rs`, `sidebar_focus.rs`, `sidebar_model.rs` | the sessions, the active one per workspace, the cursor, a verdict that waits | open, close, move, activate, delete, reconcile | sessions, projects, sidebar |
| Saved state, `state.rs` | `state.toml`, shared by all windows | re-read, change one thing, rename over | files |

The other parts (the terminal emulator, painting, configuration, git and forge
backends, task lists, graphics, diagnostics) are listed with what becomes of them
in PROJECT.json, "components".

What is hard in it, and what would make each part correct:

* **Job pool.** The handle drops at any moment relative to spawning, registering,
  waiting for and reaping a child. Correct when a cancel always reaches the
  child and no child is left unreaped, the value the owner gets and the end a
  progress reader shows agree, no class of work can starve the other, and no
  notification or result is lost.
* **WSL helper.** Anybody may find the helper dead, at the same time, in the middle
  of somebody's write. Correct when a script that may have run is not run again,
  nobody waits for a helper that is gone, a teardown ends, and there is one
  helper at a time.
* **Probes, sizes.** Threads work on snapshots of maps the UI edits. Correct when
  nothing of a closed session comes back, and the newest size wins.
* **Sessions, spares.** A session is closed while its PTY opens, typed into before
  there is a PTY, resized between the two. Correct when input arrives once and
  in order, at the size it was typed for, and no shell or spare outlives the
  one who would end it.
* **Projects.** A scan finishes for a project that was removed, re-added or moved; a
  job panics with a client parked on it. Correct when every call is answered
  once, after the scan it asked for, and rows never go back in time.
* **herdr.** Three sources describe the same panes with no common order, and our own
  focus moves come back as events. Correct when the rows end on what herdr
  shows and the view follows the user, not an echo.
* **Pull requests, git status.** The branch a status reads keys the lookup, whose base
  keys the next status; both answers arrive late, and no frame comes unasked.
  Correct when no entry waits for a lookup nobody runs, an answer is shown only for its
  own branch, a refresh reaches everything on screen and ends, the panel ends on
  the base that is wanted, and an idle window does not repaint.
* **Session list, focus.** Three rules decide what a close shows next: the list's
  landing, the verdict for an emptied workspace, and the repair of the cursor, which
  runs a pass later and may take the terminal along. Correct when they agree, the
  cursor stands on a row that is drawn, what is named active is there, and the
  view is not left on an empty pane.

## 2. The modules

Every action is one critical section, one atomic store or one system call where
threads interleave inside a function (JobPool, WslHelper, WslProbes), and one whole
handler where a function runs on the UI thread and nothing else writes its
state (Projects, HerdrEndpoint, Lookups, Views, the UI part of Sessions). Data is abstracted to
what the properties tell apart: a listing is the version of the repository that was
read, a size is a counter, a message is its kind. PROJECT.json, "map", has the
lines behind each definition.

| Module | Models | Check it with |
|---|---|---|
| `JobPool` | `Pool`, `Job`, `Cancel`, `Blocking::run` | `MCJobPool`, two configurations |
| `JobPromise` | what a job's owner may rely on; abstract | property of `JobPool` |
| `JobPoolProofs`, `WslProofs`, `SessionsProofs`, `ProjectsProofs`, `HerdrProofs`, `LookupsProofs`, `ViewsProofs` | theorems about those modules | `tlapm` |
| `Selections` | the members of a sequence that are in a set, in order (`retain`, `filter`) | with the modules that use it |
| `SelectionLemmas` | what a selection keeps; induction over numbers and sequences, stated with sets | `tlapm` |
| `WslHelper` | one distro's helper and its requests | `MCWslHelper` |
| `WslProbes` | the probe cache, the size queue, the watchers | `MCWslProbes` |
| `Sessions` | sessions, their event loops, the spare pool | `MCSessions` |
| `Projects` | the list, scans, parked replies, dialogs | `MCProjects`, three configurations |
| `HerdrEndpoint` | one herdr server's rows and the view | `MCHerdrEndpoint` |
| `Lookups` | the pull request cache and the git status cache | `MCLookups` |
| `Views` | the session list, the workspaces, the sidebar's cursor | `MCViews`, two configurations |

How they meet: JobPool is what the others assume of a job (it returns, fails or is
cancelled, once, and a frame is asked for when it ends: `ImplementsPromise`,
`OwnerTold`, `ResultSeen`). In Projects a scan is `queued`, has `read`, then
`landed` or `panicked`, which is JobPromise's life of a job whose handle is kept; in
Sessions the job's channel is explicit, since a dropped handle there drops an
attachment that must shut a shell down. WslProbes reduces WslHelper to a
connection that is up or not and a request that is answered, lost or never
written, the three outcomes `run` has. Lookups takes discovery (`Rediscover`) from
Projects: an adopted scan that changes what a worktree's branch is recorded as.
Views and Sessions describe one list of records from two sides: Sessions follows each
record's PTY and has no workspaces, Views places the records and has no PTYs; an open
that fails is `SpawnFails` there and an ended loop is `CloseSession`.

### JobPool

A worker's `pc` names the statement it is about to execute. `asleep`, `scan` and
`notify` are `worker`'s loop around the condition variable, with the
notification of a push pending in `unnotified` because `spawn` notifies after
unlocking. `spawned`, `recheck`, `wait`, `collect` are `Blocking::run` with
`wait_registered`: between any two of them the owner may run `DropFlag` and
`DropKill` (`Job::drop`: settle, set the flag, kill what is registered). `settled`,
`failing`, `wake` and `release` are the order in which an end is recorded, sent,
announced and its slot returned. Worker panics take `Panic`, the unwinding path
through `on_failure` and the guards. A child is `running`, `exited`, or `dying`
and `killed` after the kill; the operating system decides when.

### WslHelper

`pc[r]` walks `run` and `probe`: look up the registry, park a sender, take the
stdin lock, write, wait in slices (silence is counted, a ping is tried without
waiting for the lock), then the verdict: not written, no reply, or the reply.
`mark_down` is four steps (flag, kill, close stdin, clear the map), and any number
of threads may be inside it together. `FarRuns` executes a line that was
delivered, even after the relay died. `OneShot` is the fallback of `run_batch`.

### WslProbes

Keys are per session and never reused, as in the code. `todo` and `asking` are the
poller's snapshot; `batch` and `sending` are the writer's; a script that
started reaches its lock in any order (`Watch`).

### Sessions

`OpenSession` pushes the record and queues the open. The worker claims a spare
(`Claim`), asks for the next one (`Replenish`), starts the loop, and, out of a
spare, sends the line that tells it what to run before the attachment leaves
(`SendLine`, `Deliver`). `PollPendingSpawns` adopts it or drops it. `Write`, before
there is a loop, appends to `pending`; `Replay` is `attach_replay`. `CloseSession`
and `Quit` may come anywhere in between. The loop handles one message per step and
may end at any step, taking the PTY with it. A spare is named after the session
whose claim started it; there is one distro, since slots of two do not touch.

### Projects

A frame is a walk through `ui`'s phases in the order of `update` (`app.rs`): scans
adopted (`polls`), creates and deletes adopted (`tasks`), the user's keys (`input`),
the calls of clients (`calls`), `paint` and the dialogs. Connection threads, workers
and the repository move between any two phases. A
client's connection thread sends its call, waits, and gives up after its timeout.
`index[t]` is the project index a dialog keeps.

### HerdrEndpoint

`Frame` is `poll` in its order: streams first, then the listing, the patches that were
held for it, the deadlines, and at the end the view. `n` and `m` are how much of each
stream has arrived; `held` says that
the view does not act in this frame: its call is not back yet, or its user is
elsewhere. Times are kept as the comparisons made of them.

### Lookups

A `Frame` is one step: `Drained` (`drain_completed`: bank what ended, start what the
last paint queued, drop the refresh's flag), perhaps a refresh asked for by a key,
`Paint` (every row on screen polls its branch, the panel its checkout), perhaps
a refresh from the palette, and `PollStatus`. The frame runs when `woken`, or at any
time, as input may cause one; `FairSpec` promises only the first. Between frames
requests and computes end, time passes, and branches are switched in terminals
behind the cache's back. `owed` is the one history variable: the paths on screen when
the refresh was asked for that no lookup begun afterwards has answered.

### Views

What `AlacritreeApp` holds is one record, `app`, and every function of the code that
takes `&mut self` is an operator from that record to the next (`SetActive`, `Without`,
`MoveTo`, `Close`, `Ensure`, `ActivateWs`, `Apply`), so that a handler is the
composition the code makes. An action is one handler: a shell opened by a key, by
a row or by a client, a close, a failed open, a drop, a step of `reorder`, a client's
`MoveSession` (which reaches any listed checkout, one that is being deleted or missing
too, where the sidebar offers only `Reorderable`), a delete of the worktree, a collapse of the project, a move of the cursor. `Reconcile` is
`reconcile_sidebar_focus`: it compares the rows with those of the pass before
(`seen`), repairs the cursor, and under `follow` takes the terminal along or applies the
verdict that waited (`deferred`). Operations and passes interleave freely, except that
`SpawnFails` comes only while no verdict waits: a frame polls for opened shells before
anything else in it can close a session. Sessions open on a worker, so that an
operation that opens one always gets a record. `bare` is a history variable: the
workspaces the app tried and failed to open a shell in. `agreed` is another: the last
step closed one session while cursor and terminal agreed, no pass was due, and the rows
on screen were all there are (see the proof of `LandsTogether` for why).

## 3. What the runs check

Every property has at least one mutated operator in its module (named in PROJECT.json,
"mutants", and marked there as a variant or a mutated form) that breaks it: a dropped guard, a
swapped order, a missing reset.

| Run | What it shows | Instance |
|---|---|---|
| `job_pool_job` | A cancel reaches the child and stops it; nothing is left unreaped; owner, reader and abstract promise agree; a result is seen | 1 job, 2 workers, up to 2 children |
| `job_pool_share` | The counters are exact; no wake-up is lost; background work is not shut out | 3 jobs, 2 workers, handles kept |
| `wsl_helper` | At most one run of a script; no orphaned waiter; one helper; a teardown ends | a script and a probe, 2 helpers in a row |
| `wsl_probes` | No ghost keys; outages change nothing; the newest size arrives | 2 sessions, 2 sizes |
| `sessions` | Input once and in order; sizes arrive; no stray shell; one spare | 2 sessions, 2 templates, 2 inputs |
| `projects` | One answer per call, after its scan; rows never go back | 2 roots, 2 versions, 1 client |
| `projects_tasks` | Every call is answered and the activity ends, panics included | 1 root, a create, a delete, 1 client |
| `projects_index` | violated: see findings | 2 roots, a delete |
| `herdr_endpoint` | Rows end on what herdr shows; distrust ends | 2 panes, 2 events |
| `lookups` | No entry is stranded; an idle frame sleeps; a refresh ends and reaches every row; the base catches up | 2 worktrees, 2 branches, 1 request at a time, 2 events, 1 refresh |
| `views` | Active sessions are their workspace's; no close strands the view; the cursor stays on a row, lands with the terminal; a move keeps the screen | 3 layouts, 3 settings, 2 operations |
| `views_stranded` | violated: see findings | the same, one setting |

**Why these bounds.** *Workers:* two is the least the pool has, where one slot per
class is the whole capacity and an off-by-one shuts a class out; the theorems
cover the rest. *Children:* the second one shows state left by the first.
*Jobs:* three fill both slots and leave one queued. *Clients of the helper:* two
are needed for a respawn beside a teardown that still runs. *Slices:* two of each, so
that silence can reach its limit at the deadline, or be restarted and not reach it.
*Sessions:* two compete for one spare, with two templates so that a spare may be
the wrong one; *inputs:* two (keys, resizes or queries) are an order, and a key
against a resize is every pair of kinds. *Roots:* two make an index go stale.
*Versions:* two make a scan old. *herdr events:* two are a change and the fault
that hides it. *Lookups:* two worktrees compete for a cap of one; two
events are a switch and a switch back, or a switch and the fold of the sidebar that
changes who polls; one refresh meets a request in each of its states. *Views:* `Init`
ranges over every active map and cursor that a layout admits and over a worktree that is
listed, being deleted, missing or gone, so that a long history is not needed to reach a
state, and two operations with passes anywhere between them are a change and
what goes wrong with it. The layouts: three sessions in one workspace, so that the middle
one has a successor and a predecessor; one in each workspace, for the ring; two in the
worktree, for its deletion. The settings have each value of each option but `ring_global`,
which is what `ring_project` falls back to.
Bounds on counters are constants named `Max...` or, for JobPool,
`Kept`; they are guards of the environment's actions only, or of the action that
starts the bounded thing.

**Deadlock** is checked for WslProbes, whose helper comes and goes for ever. The
others may really stop: all sessions closed, all jobs done and all bounds used
up, nothing is left to do. Being stuck is
ruled out by the liveness properties (`ResultSeen`, `NotShutOut`, `TeardownEnds`,
`SizeArrives`, `CallsAnswered`, `ActivityEnds`, `CatchesUp`, `RefreshEnds`,
`RefreshReaches`, `BaseCatchesUp`) and by `NoLostWakeup` and `NoOrphanWaiter`.

**Fairness**, and why the code justifies it:

* JobPool: weak fairness of each worker's steps (threads run; the closure's own
  `Return` and `Panic` are not among them), of the dropping thread and the
  notifying thread inside their functions, of a kill landing, and of a frame
  that was asked for. `NotShutOut` adds only that *background* closures end:
  interactive ones may run for ever.
* WslHelper: a thread inside a teardown takes its next step, and a write on a pipe
  ends if the other end reads or is dead. A wedged helper is never assumed to read.
* WslProbes: the writer's loop and scripts already started. That the helper stays
  up is a premise of `SizeArrives`, not an assumption of the module.
* Projects: a due frame is painted and ends, workers run, connection threads time
  out. Nothing of the user.
* HerdrEndpoint: frames catch up (`[]<>~wake`), jobs and deadlines come to an end.
  herdr owes nothing: `CatchesUp` has a herdr that stays up as its premise.
* Lookups: a frame that was asked for is painted, and requests and computes end,
  since the pool has a worker for each and `gh` and `git` return. Nothing is assumed
  of time, of the user, or of a frame nobody asked for.
* Sessions and Views have safety properties only, and no fairness.

**Findings.** Two runs state what a comment of the code promises and show the
code departing from it.

1. `projects_index`: a delete (and a background create) keeps the *index* of its
   project across frames; after a removal or a move it refreshes another project, or
   indexes out of range (`app/modals.rs:601`).
2. `views_stranded`: under `follow` with a ring policy, the last session of the
   workspace on screen closes and the verdict "go to session 2" waits for the pass.
   Session 2 exits in the same frame (`reap_exited_sessions` closes all that exited in
   one loop); its own close has nothing to say, since its workspace is not on screen,
   so the pass applies a verdict that names nobody, and the view stays on the
   empty pane while other sessions live (`app.rs:1612`; the comment at
   `app.rs:1580-1581` says that this must not happen). With `respawn` and `navigate` the
   verdict is a workspace, which cannot end, and `NotStranded` holds (`views`).

More departures were met while modelling and are recorded as hazards, without a run:

* a patch of any field stamps all herdr rows as new, with a focus flag from before our
  own move, so that the view goes back to the pane the user left
  (`herdr/poll.rs:762`);
* a listing that answered before herdr stopped clears the deadline that would have
  blanked the rows, and nothing sets another (`herdr/poll.rs:632`);
* a cell size is dropped when the helper dies between `client()` and its write
  (`common/wsl_helper.rs:1067`; `SizeArrives` is stated around it);
* a ping may block on a full pipe, so that a single waiter on a wedged helper is not
  freed by its own timeout (`common/wsl_helper.rs:721`);
* replacing a diff pane takes the old one from the list without `close_sessions`
  (`app/git_panel.rs:526`), through which every close is said to go
  (`app.rs:1547-1548`);
* a verdict that waits is applied even if the user went elsewhere in between
  (`app/focus.rs:101`), and the worktree it hides stays hidden from the next pass's
  comparison although the user may be back in it (section 4, Views);
* the branch a status just read reaches the pull request cache only in the next frame,
  which is not asked for (`app/git_panel.rs:328`).

## 4. What is proved

### JobPool

`JobPoolProofs` proves, for all finite sets of at least two workers, any set of
jobs and any bound on children (`PoolAssumption`, which is `Pool::new`'s clamp),
that `Spec` of JobPool implies:

* `TypeCorrect`: every variable has its type; the content is that no running
  counter goes below zero;
* `SlotsExact`: the counters are exact and no class holds the last worker;
* `CancelAlwaysReaches`, `ChildrenAreReaped`, `KillsReadAsCancelled`: the
  child of a cancelled job is killed and collected, and never read as finished;
* `OwnersAreTold`, `EndsAreReported`, `EndsAreFinal`: one end per job, told to the owner, with a frame to read it;
* `NoWakeupIsLost`: no worker sleeps while there is a job it could take and nobody is
  about to look or to notify;
* `PoolKeepsPromise`: JobPool implements JobPromise under the mapping
  `owner <- handle` of `Promise`.

None of the invariants is inductive alone. `IInv` has four layers, each proved
with the ones before it, one step per action:

1. `Core`: types, `Posts` (a busy worker holds a job and a slot, an idle one
   neither) and `SlotCount` (a counter is the number of workers whose guard will
   decrement it). `Take` adds a holder and `Release` removes one, by the library's
   facts on cardinality.
2. `Placed`: a job is unborn, in one queue at one place, with one worker, or
   done. Without it two workers could have the same child.
3. `Children`: what the flag, the registration and the process may be at each
   point of the worker that runs the job. `CancelReachesChild` needs it at
   `recheck`: the worker that registered after the flag was set is still to look.
4. `Reports`: what the channel, the recorded end and the owner's view may be at each
   point. That a job still waiting can only have ended as `Cancelled` makes
   `EndIsFinal` hold.

The refinement uses the fourth layer: an end is recorded while the promise's
`end` is `none`, and `Look` takes only results that agree with the end.

`NoLostWakeup` speaks of one job and is not inductive: a worker that looks and takes
*one* job must leave a look for each of the others. `Wakes` counts: while a worker sleeps and
nobody notifies all, the jobs that could be taken, class by class and no more than the
slots left, are at most the notifications to come and the workers about to look.

### WslHelper

`WslProofs` proves, for any scripts and probes, any number of helpers in a row
and any timeouts (`HelperAssumption`: scripts and probes are apart, and the silence
limit is more than a slice), that `Spec` of WslHelper implies:

* `RunsAtMostOnce`: no script runs twice, at the far end and as a one-shot together;
* `NobodyOrphaned`: no request is left waiting on a client everyone has torn down;
* `OneHelper`: types, and one helper at a time.

The invariant has three layers:

1. `Core`: types with `OneClientUp`; `Registry` (no entry means no client yet, a
   cooldown means the newest is down, a client not launched has nobody about it), which
   makes `OneClientUp` inductive; `Assigned` and `Clocks`, without which the types are not.
2. `Runs`: a request that may still fall back has not run and is in no inbox, and a line
   in an inbox has not run. `AtMostOnce` alone says nothing of a line that was written
   and has not run, while its request could go to `OneShot`.
3. `Drops`: a thread at `clear` has closed stdin (`ClosedFirst`), so while stdin of a
   client that is down is open somebody will still clear it, and so a request that gets
   past an open stdin is cleared after it parked its sender (`Cleared`). The order of
   `mark_down`'s last two steps is what carries this.

`RequestMoves` and `StepOfTeardown` are the two lemmas of the third layer: what a request
may do, and what a step of `mark_down` may do, whichever thread takes it.

### WslProbes

`WslProofs` proves, for any set of keys and any number of sizes
(`ProbesAssumption`), that `ProbesSpec` of WslProbes implies:

* `CacheIsSound`: no ghost keys, and the cache holds the last reply (`ProbesInv`). The
  invariant adds `Registered`: a session that is not attached yet has left no trace
  with the poller, which needs that keys are never used again;
* `NewestSizeIsKept`. The invariant adds `QueueIsNewest`: what is queued is the newest
  size, and so is what the writer has in hand unless a newer one is queued. The drain
  happens only with empty hands, and this is why putting back never resurrects.

### Sessions

`SessionsProofs` proves, for any sessions, templates and number of inputs
(`SessionsAssumption`: session ids are no slot states, and the cold shell is no template),
that `Spec` of Sessions implies:

* `SpareInvariant`: types, and one spare at most parked or on its way before the pool closes;
* `NoShellStrays`: a live shell whose session is gone has somebody who will end it;
* `TypedInOrder`: each key once, in the order typed, what was typed before the PTY included;
* `PtySizeFollows`: an attached PTY has its session's size, or the resize that brings it
  comes last in the channel.

The invariant has a layer per party, each proved with the ones before it:

1. `Types` and `Lifecycle`: how far a session got, on the UI thread and in its worker: a
   record that is live, or an attachment in the job's channel, has a loop.
2. `Processes`: a shell is alive only while its worker is about to start a loop or its loop
   runs, and `NoStrayShell` with its cases spelled out. The shell that the claim hands over
   is why the worker's position is part of it.
3. `Launchers`: who may hold the slot. `closed` empties it, and a launch under way must find
   that out for itself.
4. `Ordered`: the keys in `pending`, the channel, the write list and what was read are, end
   to end, the keys typed, and what a spare was told to run goes before them. `WaitingOf`: until the
   attachment is adopted nothing but that line is on its way to the shell.
5. `Sized`: the last resize in the channel, or else the PTY, is the session's size.

### Projects

`ProjectsProofs` proves, for any roots, connections, creates, deletes and versions of a
repository (`ProjectsAssumption`), that `Spec` of Projects implies:

* `ProjectsInvariant`: types (a listed root is listed once), and one answer per call;
* `RefreshAnsweredFromScan`: rows are given for a refresh only after a scan adopted since;
* `RowsOnlyNewer`, an action property: rows are never replaced by an older state.

`replies[c] <= 1` says nothing of who could answer next, so `Placed` has every call in one
place: not made, in the channel, in the frame's batch, or parked on the scan of its root,
and unanswered while it is in any of them; a scan somebody is parked on exists. `Fresh`
orders the versions: the rows of a root are no newer than what its scan has read, which is no
newer than the repository. A removed project that is added again during its old scan is why
both are needed at once.

### HerdrEndpoint

`HerdrProofs` proves, for any panes and any number of changes, faults and picks
(`EndpointAssumption`), that `Spec` of HerdrEndpoint implies:

* `QuietRowsAreHerdrs`: types, and once the lifecycle stream is read and no listing runs or
  is owed, the rows are herdr's panes and the focused one is the one it shows.

That is about quiet states, which says nothing of the way there. `Good` says what the
cache holds at any time, relative to herdr's focus `f` and panes `E`:

* `Telling`: a message of the lifecycle stream that no later focus event overrides tells `f`;
* `Covered`: if no listing is owed, then with the messages still to be read, the rows end
  on `E` and `f`. While a listing is in flight it is the *held* events that must tell `f`
  unless a focus event is still to come; once it was answered, its snapshot with the
  held events applied is right. A change of the panes that is still to be read
  (`ChangeAfter`) or a listing that is owed excuses everything about `E`;
* `Linked`, `Greeted`, `StreamOf`: which streams exist in which state of the link, that
  a stream starts with `Started` and that its end comes last, so that nothing is read of a
  stream after it.

A frame is a pipeline over one record (`AdvanceLink`, `AdvanceStatus`, `AdvanceListing`,
`StartDue`, the view), and each stage keeps `Good` for the same `f` and `E`; a stage
reads a sequence of messages, so each has an invariant by the number read, and `ReadInduction`
carries it to the end. `ReceiveCovers` is the heart: a patch that is received is also
held, which is what makes `Covered` survive the reply; the distrusted focus event survives
because it makes a listing owed. Between frames `f` and `E` change and herdr tells:
`TellLife`.

### Lookups

`LookupsProofs` proves, for any worktrees, branches and cap on requests
(`LookupsAssumption`), that `Spec` of Lookups implies:

* `OneLookupEach`: types, no entry waits for a lookup nobody runs, and an answer is shown for
  its own branch only;
* `IdleSleeps`: in no state does a frame that would change nothing ask for another.

The invariant, `Sound`, makes the run's implication an equivalence: an entry is pending exactly while
*one* lookup of it is queued or in flight, and under the entry's branch. The other direction is needed since a second
lookup would settle an entry that has been asked again meanwhile. Drain, ask and paint each
keep `Sound` of the three parts they pass on, so the frame does. `IdleSleeps`
follows: a lookup that was queued by a poll has left an entry pending that was not.

### Views

`ViewsProofs` proves, for any settings, any number of sessions and operations and any layout a
window starts with (`ViewsAssumption`: the names are apart and no session ids), that `Spec` of
Views implies:

* `ActiveIsOwnAlways`: types, and the active session of a workspace is one of its own, or
  none where it has none;
* `NobodyStranded`: under every setting that does not ring under `follow`, `NotStranded`;
  `ViewsAreSound` is both for a build that has no such setting. The exception is the
  second finding, and the proof shows that it is the only one;
* `CursorIsOnRow`: a pass leaves the cursor on a row that is drawn;
* `MovesKeepScreen`: a move keeps what is on screen;
* `CursorLandsWithTerminal`: `LandsTogether`.

The invariant is `IInv`, four conjuncts:

1. `TypeOK`.
2. `Good`: ids are given once and in order, each workspace's active session is its own, and no
   session hands back to itself. `ActiveIsOwn` alone is not inductive: with an id given twice,
   what closes one session would take the other along, and a session that returns to
   itself would leave the map naming what was closed.
3. `Waits`: a verdict waits only under `follow`, and it is Home, Trunk, or, with a ring policy, a
   session.
4. `Roomed`, unless a ring policy is set under `follow`: the workspace in view has a session, or
   the app could not open one there, or a verdict waits. `Waits` is what makes the pass keep it:
   Home and Trunk cannot go, so applying the verdict always arrives.

Each operator has a lemma that says what it keeps (`SetActiveIs`, `WithoutIs`, `MoveToIs`,
`ReorderedIs`, `CloseIs`, `RepairIs`, ...), each handler one that composes them (`...Step`), and
`NextIs` collects these: a step keeps `Good`, `Roomed` and, if the sessions stay the same, the
screen.

`LandsTogether` needs an invariant of its own, `Landing`: after a close that counts and until
the pass, either the cursor is on what is on screen (or its workspace), or it is still on the
closed session and the terminal is where `CloseLanding` put it (`Slid`). `SlideIs` is the heart: the
list is split around the closed session, so its place among its siblings is one more than the
length of what is before it, and what then stands at that place, in the list without it, is the
head of what is after it. The second rule (the last of what is left) and a workspace
whose last two sessions became one, which lists no rows, are the other cases.

The attempt showed that the property was stated too broadly. A pass that takes a verdict of
a deletion hides the worktree from the rows it compares with, before the worktree is gone;
`agreed` did not say so. In six operations: delete the worktree, open two shells there before the
pass, let the pass hide it and go Home, go back (the rows' inputs are as they were, so that no
pass is due), put the cursor on the active shell and close it. The pass then has no
place to slide from, sends the cursor Home, and the terminal stays with the other shell.
`agreed` now asks that the last pass drew the rows as they are, which is what
`slide` is about; with two operations TLC could not tell the two apart, and it confirms
`Landing` on the same instance.

### Not proved

* Liveness: `CancelStopsChild`, `ResultSeen`, `NotShutOut`, `TeardownEnds`, `SizeArrives`,
  `ClosedSizesForgotten`, `CallsAnswered`, `ActivityEnds`, `CatchesUp`, `DistrustEnds`,
  `RefreshEnds`, `RefreshReaches`, `BaseCatchesUp`. Fairness is out of the provers' reach here.
* What the findings refute, and `NotStranded` under a setting that rings under `follow`.
* What a recursive definition computes for every input. Selections and folds are written as
  recursive functions (`Select` of `Selections`, `Removed`), not with `SelectSeq` and
  `FoldLeft`, which take an operator that no backend can instantiate.

Induction over data is done with sets: `SetInduction` and `SequenceInduction` of
`SelectionLemmas` say that a set with the first member and each one's successor has all of
them, which needs no operator as a parameter.

## 5. Not modelled

* Sessions: `async_session_spawn = false` (the open runs inside `open_session`; the
  same `open` with nothing in between), titles, bells and progress, holding an
  exited session, which sessions are visible. The read side of the event loop.
* WslHelper: the frame parser, capabilities, `set_enabled`.
* HerdrEndpoint: the attachment's second copy of the rows, settings, which WSL
  sides exist, a display that hides shells, the trail of `FollowFocus::Always`. egui
  paints a second frame after some wakes, which only adds frames.
* Lookups: setting the cap, which also starts what was refused; the filter of rows
  by pull request state; the warning about a status that takes long; a base the user
  overrides; switching the current workspace, whose status cache is dropped whole.
* Views: the filter and its anchor, multiplexer panes as rows, diff panes, opening a
  PTY inline (`async_session_spawn = false`), reorder scopes (they only refuse moves
  the model makes), reordering projects, focus of the panels, the rename of a row.
* Projects: labels, saving the list, the PR activity, a create a client asked for.
* JobPool: a step's label and timing, thread priorities, the draining of output.
* Whole components: see PROJECT.json. Rendering, configuration, parsers and
  backends have no concurrent state of their own.

## 6. Plan

Next modules, in this order:

1. `StateFile` (`state.rs`): windows that re-read, change and rename one file. What
   one window adds must survive another's write: the window between read and rename, and
   a temporary file with one name for all.
2. `WorktreeSteps` (`worktree.rs`, `checkout_hooks.rs`): a create or delete cancelled
   between any two steps; composed with Projects, whose tasks it refines.
3. `PtyReader` (`event_loop.rs`, `sync.rs`): the read side with its lease on the fair
   mutex, against a UI thread that locks it every frame.
4. `PaneBinding` (`app/herdr_pane.rs`, `herdr/host.rs`): which session shows which herdr
   pane, over HerdrEndpoint's rows and Views' list.
5. `ImageStore` (`crates/alacritree_graphics`): the quota and late decodes.
6. A composition of Sessions with JobPromise, so that its job is the promise's.

Next theorems: those of the modules above, each with its module. Of the modules there are, what is
left are the liveness properties, which need a prover for fairness.
