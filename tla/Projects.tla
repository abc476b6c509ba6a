------------------------------ MODULE Projects ------------------------------
(***************************************************************************)
(* The sidebar's projects, the scans that rediscover their worktrees, the  *)
(* replies parked on those scans, and the background creates and deletes   *)
(* that ask for one when they end (crates: alacritree/src/in_flight.rs,    *)
(* app.rs, app/ipc_handler.rs, app/modals.rs, ipc/server.rs, activity.rs). *)
(*                                                                         *)
(* A frame runs on the UI thread, step after step.  Connection threads,    *)
(* pool workers and the world outside run between any two of those steps.  *)
(* A worktree listing is abstracted to the version of the repository that  *)
(* was read.                                                               *)
(***************************************************************************)
EXTENDS Naturals, Sequences, SequencesExt, FiniteSets, Selections

CONSTANTS
    Roots,      \* project roots
    Clients,    \* IPC connections, each with one request
    Creates,    \* worktree creates, each begun at most once
    Deletes,    \* worktree deletes, likewise
    NoRoot,     \* no project
    Outcomes,   \* how a scan may end: "ok", "failed", "panicked"
    MaxVersion  \* bound: the versions of one repository

ASSUME ProjectsAssumption ==
    /\ NoRoot \notin Roots
    /\ Creates \cap Deletes = {}
    /\ Outcomes \subseteq {"ok", "failed", "panicked"}
    /\ MaxVersion \in Nat \ {0}

Versions == 1..MaxVersion
Places == 1..Cardinality(Roots)
Tasks == Creates \cup Deletes

VARIABLES
    ui,         \* where the frame is, or asleep, or crashed by a panic
    due,        \* a repaint was requested
    projects,   \* the sidebar, in order
    shown,      \* the version a root's rows show, 0 before its first scan
    disk,       \* the version of the repository itself
    scan,       \* project_refreshes.running: where the root's job is
    found,      \* the version a scan read, 0 when discovery failed
    parked,     \* Running.waiters
    activity,   \* the status row: none, or the roots it waits on
    inbox,      \* app_rx: calls sent and not taken
    batch,      \* calls taken and not answered or parked
    pc,         \* where each connection is
    call,       \* what it asked
    replies,    \* how many replies were sent to it
    verdict,    \* the reply it read: an error, or rows
    scanned,    \* connections whose root was scanned after their call was taken
    task,       \* where each create or delete is
    target,     \* the project it was started for
    index       \* project_idx: where that project was then

frameVars == <<ui, due>>
listVars == <<projects, shown>>
scanVars == <<scan, found, parked, activity>>
callVars == <<inbox, batch, pc, call, replies, verdict, scanned>>
taskVars == <<task, target, index>>
vars == <<frameVars, listVars, disk, scanVars, callVars, taskVars>>

Calls == [kind : {"refresh", "add", "remove"}, root : Roots]
NoCall == [kind |-> "none", root |-> NoRoot]
NoActivity == [running |-> FALSE, waits |-> {}]

TypeOK ==
    /\ ui \in {"asleep", "polls", "tasks", "input", "calls", "paint", "dialog", "crashed"}
    /\ due \in BOOLEAN
    /\ projects \in Seq(Roots) /\ IsInjective(projects)
    /\ shown \in [Roots -> 0..MaxVersion]
    /\ disk \in [Roots -> Versions]
    /\ scan \in [Roots -> {"none", "queued", "read", "landed", "panicked"}]
    /\ found \in [Roots -> 0..MaxVersion]
    /\ parked \in [Roots -> SUBSET Clients]
    /\ activity \in [running : BOOLEAN, waits : SUBSET Roots]
    /\ inbox \in Seq(Clients) /\ batch \in Seq(Clients)
    /\ pc \in [Clients -> {"idle", "sending", "waiting", "answered", "gaveup"}]
    /\ call \in [Clients -> Calls \cup {NoCall}]
    /\ replies \in [Clients -> 0..2]
    /\ verdict \in [Clients -> {"none", "error", "rows"}]
    /\ scanned \in SUBSET Clients
    /\ task \in [Tasks -> {"none", "prompt", "watched", "landed", "result", "running",
                         "done", "over"}]
    /\ target \in [Tasks -> Roots \cup {NoRoot}]
    /\ index \in [Tasks -> Places \cup {0}]

Init ==
    /\ ui = "asleep" /\ due = FALSE
    /\ projects = <<>>
    /\ shown = [r \in Roots |-> 0]
    /\ disk = [r \in Roots |-> 1]
    /\ scan = [r \in Roots |-> "none"]
    /\ found = [r \in Roots |-> 0]
    /\ parked = [r \in Roots |-> {}]
    /\ activity = NoActivity
    /\ inbox = <<>> /\ batch = <<>>
    /\ pc = [c \in Clients |-> "idle"]
    /\ call = [c \in Clients |-> NoCall]
    /\ replies = [c \in Clients |-> 0]
    /\ verdict = [c \in Clients |-> "none"]
    /\ scanned = {}
    /\ task = [t \in Tasks |-> "none"]
    /\ target = [t \in Tasks |-> NoRoot]
    /\ index = [t \in Tasks |-> 0]

-----------------------------------------------------------------------------
(* Helpers.                                                                *)

Listed(r) == r \in Range(projects)

(* A reply that was sent, and read unless its connection gave up.          *)
Answer(cs, v) ==
    /\ replies' = [c \in Clients |-> IF c \in cs THEN replies[c] + 1 ELSE replies[c]]
    /\ verdict' = [c \in Clients |-> IF c \in cs THEN v[c] ELSE verdict[c]]

AnswerOne(c, v) == Answer({c}, [x \in {c} |-> v])

(* refresh_project: InFlight::start runs a scan, or joins the one there.   *)
StartScans(rs) ==
    /\ scan' = [r \in Roots |-> IF r \in rs /\ scan[r] = "none" THEN "queued" ELSE scan[r]]
    /\ UNCHANGED found

StartScan(r) == StartScans({r})

-----------------------------------------------------------------------------
(* Connection threads: call_app.                                           *)

Send(c, q) ==
    /\ pc[c] = "idle"
    /\ call' = [call EXCEPT ![c] = q]
    /\ inbox' = Append(inbox, c)
    /\ pc' = [pc EXCEPT ![c] = "sending"]
    /\ UNCHANGED <<frameVars, listVars, disk, scanVars, batch, replies, verdict, scanned,
                   taskVars>>

Wake(c) ==
    /\ pc[c] = "sending"
    /\ due' = TRUE
    /\ pc' = [pc EXCEPT ![c] = "waiting"]
    /\ UNCHANGED <<ui, listVars, disk, scanVars, inbox, batch, call, replies, verdict, scanned,
                   taskVars>>

Receive(c) ==
    /\ pc[c] = "waiting" /\ replies[c] > 0
    /\ pc' = [pc EXCEPT ![c] = "answered"]
    /\ UNCHANGED <<frameVars, listVars, disk, scanVars, inbox, batch, call, replies, verdict,
                   scanned, taskVars>>

(* APP_REPLY_TIMEOUT passes.                                               *)
GiveUp(c) ==
    /\ pc[c] = "waiting" /\ replies[c] = 0
    /\ pc' = [pc EXCEPT ![c] = "gaveup"]
    /\ UNCHANGED <<frameVars, listVars, disk, scanVars, inbox, batch, call, replies, verdict,
                   scanned, taskVars>>

-----------------------------------------------------------------------------
(* Pool workers and the world.                                             *)

(* Discovery reads the listing.                                            *)
ScanReads(r) ==
    /\ scan[r] = "queued"
    /\ found' = [found EXCEPT ![r] = disk[r]]
    /\ scan' = [scan EXCEPT ![r] = "read"]
    /\ UNCHANGED <<frameVars, listVars, disk, parked, activity, callVars, taskVars>>

(* The job ends and the pool asks for a frame.  A failed discovery is not  *)
(* authoritative.                                                          *)
ScanEnds(r, outcome) ==
    /\ scan[r] = "read"
    /\ scan' = [scan EXCEPT ![r] = IF outcome = "panicked" THEN "panicked" ELSE "landed"]
    /\ found' = [found EXCEPT ![r] = IF outcome = "ok" THEN @ ELSE 0]
    /\ due' = TRUE
    /\ UNCHANGED <<ui, listVars, disk, parked, activity, callVars, taskVars>>

(* git run outside alacritree.                                             *)
RepositoryChanges(r) ==
    /\ disk[r] < MaxVersion
    /\ disk' = [disk EXCEPT ![r] = @ + 1]
    /\ UNCHANGED <<frameVars, listVars, scanVars, callVars, taskVars>>

(* A create or delete reports, or its worker panicked.                     *)
TaskEnds(t) ==
    /\ task[t] \in {"running", "watched"}
    /\ task' = [task EXCEPT ![t] = IF @ = "running" THEN "done" ELSE "landed"]
    /\ \E changed \in BOOLEAN :
          disk' = IF changed /\ disk[target[t]] < MaxVersion
                  THEN [disk EXCEPT ![target[t]] = @ + 1] ELSE disk
    /\ due' = TRUE
    /\ UNCHANGED <<ui, listVars, scanVars, callVars, target, index>>

-----------------------------------------------------------------------------
(* The frame: update, in its order.                                        *)

FrameStarts ==
    /\ ui = "asleep"
    /\ ui' = "polls" /\ due' = FALSE
    /\ UNCHANGED <<listVars, disk, scanVars, callVars, taskVars>>

(* A variant of take_finished that does not ask failed().                  *)
EndedWithValue(r) == scan[r] = "landed"

Ended(r) == scan[r] \in {"landed", "panicked"}

(* What a parked client is told: the rows, or an error where there are     *)
(* none.                                                                   *)
ScanReply(r) == IF scan[r] = "panicked" \/ ~Listed(r) THEN "error" ELSE "rows"

(* A variant that counts a root off only when its worker did not panic.    *)
RowsDoneOnlyByValue(ended) == activity.waits \ {r \in ended : scan[r] = "landed"}

(* scan_finished, or scan_left for a root that is gone.                    *)
RowsDone(ended) == activity.waits \ ended

(* A variant that answers the waiters and leaves them on the root.         *)
KeepParked(ended) == parked

Unparked(ended) == [r \in Roots |-> IF r \in ended THEN {} ELSE parked[r]]

(* A variant that applies a failed discovery.                              *)
ShowsEvenFailed(ended) ==
    [r \in Roots |-> IF r \in ended /\ Listed(r) /\ scan[r] = "landed"
                     THEN found[r] ELSE shown[r]]

(* Project::apply drops a discovery that failed.                           *)
ShownAfter(ended) ==
    [r \in Roots |-> IF r \in ended /\ Listed(r) /\ scan[r] = "landed" /\ found[r] # 0
                     THEN found[r] ELSE shown[r]]

(* poll_project_refreshes: every ended scan leaves the map with its        *)
(* waiters, its result is applied, and then they are answered.  Then       *)
(* sync_activities: the status row goes when it waits on nothing.          *)
AdoptScans ==
    LET ended == {r \in Roots : Ended(r)}
        heard == UNION {parked[r] : r \in ended}
        waits == RowsDone(ended) IN
    /\ ui = "polls" /\ ui' = "tasks"
    /\ scan' = [r \in Roots |-> IF r \in ended THEN "none" ELSE scan[r]]
    /\ parked' = Unparked(ended)
    /\ found' = [r \in Roots |-> IF r \in ended THEN 0 ELSE found[r]]
    /\ shown' = ShownAfter(ended)
    /\ Answer(heard, [c \in heard |-> ScanReply(call[c].root)])
    /\ scanned' = scanned \cup
          {c \in Clients : call[c].root \in ended /\ c \notin Range(inbox) \cup Range(batch)}
    /\ activity' = [running |-> activity.running /\ waits # {}, waits |-> waits]
    /\ UNCHANGED <<due, projects, disk, inbox, batch, pc, call, taskVars>>

InRange(t) == index[t] \in DOMAIN projects
DeletePrompts == {t \in Deletes : task[t] = "prompt"}

(* poll_pending_deletes, then poll_pending_creates: every ended task asks  *)
(* for a scan of the project at its index, and an index past the end of    *)
(* the list is a panic.  A removal that git refused asks again, unless a   *)
(* confirm is on screen.                                                   *)
AdoptTasks ==
    LET ended == {t \in Tasks : task[t] = "done"} IN
    /\ ui = "tasks"
    /\ IF \A t \in ended : InRange(t)
         THEN ui' = "input" /\ StartScans({projects[index[t]] : t \in ended})
         ELSE ui' = "crashed" /\ UNCHANGED <<scan, found>>
    /\ \E again \in SUBSET (ended \cap Deletes) :
          /\ again # {} => Cardinality(again \cup DeletePrompts) = 1
          /\ task' = [t \in Tasks |-> IF t \in again THEN "prompt"
                                     ELSE IF t \in ended THEN "over" ELSE task[t]]
    /\ UNCHANGED <<due, listVars, disk, parked, activity, callVars, target, index>>

CollectCalls ==
    /\ ui = "input" /\ ui' = "calls"
    /\ batch' = inbox /\ inbox' = <<>>
    /\ UNCHANGED <<due, listVars, disk, scanVars, pc, call, replies, verdict, scanned, taskVars>>

PaintStarts ==
    /\ ui = "calls" /\ batch = <<>> /\ ui' = "paint"
    /\ UNCHANGED <<due, listVars, disk, scanVars, callVars, taskVars>>

OpenCreates == {t \in Creates : task[t] \in {"prompt", "watched", "landed", "result"}}
ModalOpen == OpenCreates \cup DeletePrompts # {}

(* What the user does in the create dialog, and what it is when its worker *)
(* has landed.  The result, once closed, asks for a scan unless the create *)
(* failed.                                                                 *)
CreateDialogStep(t) ==
    \/ task[t] # "landed" /\ UNCHANGED <<task, target, scan, found>>
    \/ /\ task[t] = "prompt"
       /\ task' = [task EXCEPT ![t] = "watched"]
       /\ target' = [target EXCEPT ![t] = projects[index[t]]]
       /\ UNCHANGED <<scan, found>>
    \/ /\ \E step \in {<<"prompt", "over">>, <<"watched", "running">>,
                        <<"landed", "result">>, <<"result", "over">>} :
             task[t] = step[1] /\ task' = [task EXCEPT ![t] = step[2]]
       /\ UNCHANGED <<target, scan, found>>
    \/ /\ task[t] = "result"
       /\ task' = [task EXCEPT ![t] = "over"]
       /\ StartScan(projects[index[t]])
       /\ UNCHANGED target

(* show_create_dialog paints the name of the project at the index.         *)
ShowCreateDialog ==
    /\ ui = "paint"
    /\ IF \E t \in OpenCreates : ~InRange(t)
         THEN ui' = "crashed" /\ UNCHANGED <<task, target, scan, found>>
         ELSE /\ ui' = "dialog"
              /\ \/ OpenCreates = {} /\ UNCHANGED <<task, target, scan, found>>
                 \/ \E t \in OpenCreates : CreateDialogStep(t)
    /\ UNCHANGED <<due, listVars, disk, parked, activity, callVars, index>>

(* show_delete_dialog, and run_pending_delete when it is confirmed.        *)
ShowDeleteDialog ==
    /\ ui = "dialog"
    /\ \/ ui' = "asleep" /\ UNCHANGED task
       \/ \E t \in DeletePrompts :
             \/ ui' = "asleep" /\ task' = [task EXCEPT ![t] = "over"]
             \/ /\ ui' = IF InRange(t) THEN "asleep" ELSE "crashed"
                /\ task' = [task EXCEPT ![t] = IF InRange(t) THEN "running" ELSE @]
    /\ UNCHANGED <<due, listVars, disk, scanVars, callVars, target, index>>

-----------------------------------------------------------------------------
(* The requests.                                                           *)

InsertProject(r) ==
    /\ projects' = Append(projects, r)
    /\ shown' = [shown EXCEPT ![r] = 0]

Current(c) == ui = "calls" /\ batch # <<>> /\ Head(batch) = c /\ batch' = Tail(batch)

(* A variant that answers with the rows at hand and lets the scan run.     *)
AnswerAtOnce(c) ==
    /\ AnswerOne(c, "rows")
    /\ UNCHANGED parked

(* InFlight::watch: the reply waits for the scan.                          *)
Park(c) ==
    /\ parked' = [parked EXCEPT ![call[c].root] = @ \cup {c}]
    /\ UNCHANGED <<replies, verdict>>

(* defer_project_refresh.                                                  *)
RefreshProject(c) ==
    LET r == call[c].root IN
    /\ Current(c) /\ call[c].kind = "refresh"
    /\ IF Listed(r)
         THEN StartScan(r) /\ Park(c)
         ELSE AnswerOne(c, "error") /\ UNCHANGED <<scan, found, parked>>
    /\ UNCHANGED <<frameVars, listVars, disk, activity, inbox, pc, call, scanned, taskVars>>

(* defer_project_add: a new root goes in as a placeholder with its scan; a *)
(* listed one is answered from its rows unless it is being scanned.        *)
AddProject(c) ==
    LET r == call[c].root IN
    /\ Current(c) /\ call[c].kind = "add"
    /\ IF Listed(r)
         THEN /\ IF scan[r] # "none" THEN Park(c)
                                     ELSE AnswerOne(c, "rows") /\ UNCHANGED parked
              /\ UNCHANGED <<listVars, scan, found>>
         ELSE InsertProject(r) /\ StartScan(r) /\ Park(c)
    /\ UNCHANGED <<frameVars, disk, activity, inbox, pc, call, scanned, taskVars>>

(* remove_project.  A scan that runs for it goes on.                       *)
DropProject(r) ==
    /\ projects' = Select(projects, Roots \ {r})
    /\ activity' = [activity EXCEPT !.waits = @ \ {r}]
    /\ UNCHANGED shown

RemoveProject(c) ==
    LET r == call[c].root IN
    /\ Current(c) /\ call[c].kind = "remove"
    /\ IF Listed(r) THEN DropProject(r) /\ AnswerOne(c, "rows")
                    ELSE AnswerOne(c, "error") /\ UNCHANGED <<listVars, activity>>
    /\ UNCHANGED <<frameVars, disk, scan, found, parked, inbox, pc, call, scanned,
                   taskVars>>

-----------------------------------------------------------------------------
(* The user.                                                               *)

(* A modal takes every key and click.                                      *)
Input == ui \in {"input", "paint"} /\ ~ModalOpen

UserAdds(r) ==
    /\ Input /\ ~Listed(r)
    /\ InsertProject(r) /\ StartScan(r)
    /\ UNCHANGED <<frameVars, disk, parked, activity, callVars, taskVars>>

(* refresh_all_projects: the status row counts every root, one already     *)
(* being scanned too.                                                      *)
UserRefreshes ==
    LET all == Range(projects) IN
    /\ Input /\ all # {}
    /\ StartScans(all)
    /\ activity' = [running |-> TRUE, waits |-> activity.waits \cup all]
    /\ due' = TRUE
    /\ UNCHANGED <<ui, listVars, disk, parked, callVars, taskVars>>

UserRemoves(r) ==
    /\ Input /\ Listed(r)
    /\ DropProject(r)
    /\ UNCHANGED <<frameVars, disk, scan, found, parked, callVars, taskVars>>

UserMoves(i, j) ==
    /\ Input /\ {i, j} \subseteq DOMAIN projects /\ i # j
    /\ projects' = InsertAt(RemoveAt(projects, i), j, projects[i])
    /\ UNCHANGED <<frameVars, shown, disk, scanVars, callVars, taskVars>>

(* The create prompt or the delete confirm opens on a row.                 *)
UserOpens(t, i) ==
    /\ Input /\ task[t] = "none" /\ i \in DOMAIN projects
    /\ task' = [task EXCEPT ![t] = "prompt"]
    /\ index' = [index EXCEPT ![t] = i]
    /\ target' = [target EXCEPT ![t] = projects[i]]
    /\ UNCHANGED <<frameVars, listVars, disk, scanVars, callVars>>

-----------------------------------------------------------------------------
Connection(c) ==
    (\E q \in Calls : Send(c, q)) \/ Wake(c) \/ Receive(c) \/ GiveUp(c)

Worker(r) == ScanReads(r) \/ \E outcome \in Outcomes : ScanEnds(r, outcome)

Requests == \E c \in Clients : RefreshProject(c) \/ AddProject(c) \/ RemoveProject(c)

Frame ==
    \/ AdoptScans \/ AdoptTasks
    \/ CollectCalls \/ Requests
    \/ PaintStarts \/ ShowCreateDialog \/ ShowDeleteDialog

User ==
    \/ UserRefreshes
    \/ \E r \in Roots : UserAdds(r) \/ UserRemoves(r)
    \/ \E i, j \in Places : UserMoves(i, j)
    \/ \E t \in Tasks, i \in Places : UserOpens(t, i)

World == (\E r \in Roots : RepositoryChanges(r)) \/ \E t \in Tasks : TaskEnds(t)

Next ==
    \/ \E c \in Clients : Connection(c)
    \/ \E r \in Roots : Worker(r)
    \/ FrameStarts \/ Frame \/ User \/ World

Spec == Init /\ [][Next]_vars

(* A frame that is due is painted, and a frame once begun ends; workers    *)
(* and connection threads run.  Nothing is assumed of the user.            *)
FairSpec ==
    /\ Spec
    /\ WF_vars(due /\ FrameStarts) /\ WF_vars(Frame)
    /\ \A r \in Roots : WF_vars(Worker(r))
    /\ \A c \in Clients : WF_vars(Wake(c))

-----------------------------------------------------------------------------
(* Properties.                                                             *)

(* A request is answered at most once, whichever of the frame, the scan's  *)
(* adoption and the timeout comes first (Waiters, call_app).               *)
AnsweredOnce == \A c \in Clients : replies[c] <= 1

(* Type correctness, with at most one answer to a call.                    *)
Inv == TypeOK /\ AnsweredOnce

(* Rows in answer to a refresh come only after a scan was adopted: a       *)
(* client that acts on the outcome does not race its own request           *)
(* (in_flight.rs, the module's purpose).                                   *)
AnsweredFromScan ==
    \A c \in Clients :
        call[c].kind = "refresh" /\ verdict[c] = "rows" => c \in scanned

(* A project's rows never go back to an older state of its repository,     *)
(* whatever scans fail, panic, or run on through a removal (InFlight,      *)
(* Project::apply).                                                        *)
RowsNeverGoBack ==
    [][\A r \in Roots : Listed(r) /\ Listed(r)' => shown'[r] >= shown[r]]_vars

(* Every call that reached the app is answered, unless the app panics.     *)
CallsAnswered ==
    \A c \in Clients : (pc[c] # "idle") ~> (replies[c] > 0 \/ ui = "crashed")

(* The status row ends.                                                    *)
ActivityEnds ==
    activity.running ~> (~activity.running \/ ui = "crashed")

(* A create or delete that ends asks for a scan of the project it ran for, *)
(* so that the worktree's row comes or goes (poll_pending_creates,         *)
(* poll_pending_deletes).                                                  *)
TaskRefreshesItsProject ==
    \A t \in Tasks :
        ui = "tasks" /\ task[t] = "done" /\ Listed(target[t]) =>
            InRange(t) /\ projects[index[t]] = target[t]
=============================================================================
