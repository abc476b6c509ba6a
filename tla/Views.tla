------------------------------- MODULE Views --------------------------------
(***************************************************************************)
(* Which session is on screen and where the sidebar's cursor is            *)
(* (alacritree/src/app/session_list.rs, app.rs, app/focus.rs,              *)
(* sidebar_model.rs, sidebar_focus.rs).                                    *)
(*                                                                         *)
(* Sessions belong to workspaces; each workspace remembers its active one, *)
(* and the active one of the current workspace is on screen.  Sessions     *)
(* open, fail to open, close, exit, move, and go with a deleted worktree.  *)
(* A frame does any number of these and reconciles: it repairs the cursor  *)
(* against the rows that went, and, under sidebar_focus = "follow", takes  *)
(* the terminal along, instead of the navigation the close had decided.    *)
(*                                                                         *)
(* Home, and one project: its main checkout Trunk and a worktree, Feature. *)
(* No filter, hence no anchor; no multiplexer's panes; the interactive     *)
(* shells open on a worker (async_session_spawn).                          *)
(***************************************************************************)
EXTENDS Integers, Sequences, SequencesExt, Selections

CONSTANTS
    Home, Trunk, Feature,   \* the workspaces, each also a row
    Project,                \* the project's header row
    Root, Detached,         \* parents that are no rows
    None,
    Settings,               \* what [ui] may say
    Layouts,                \* where the sessions a behaviour starts with are
    MaxSessions,            \* bound: sessions ever opened
    MaxOps                  \* bound: operations

Workspaces == {Home, Trunk, Feature}
Ids == 1..MaxSessions
Rows == Workspaces \cup {Project} \cup Ids

Others == <<Home, Trunk, Feature, Project, Root, Detached, None>>

ASSUME ViewsAssumption ==
    /\ MaxSessions \in Nat /\ MaxOps \in Nat
    /\ \A i, j \in DOMAIN Others : Others[i] \notin Nat /\ (Others[i] = Others[j] => i = j)
    /\ \A place \in Layouts : place \in Seq(Workspaces) /\ Len(place) \in Ids
    /\ Settings \subseteq [follow : BOOLEAN, returns : BOOLEAN,
         policy : {"respawn", "navigate", "ring_global", "ring_project"}]

VARIABLES
    ui,        \* the settings
    app,       \* what AlacritreeApp holds, see TypeOK
    feature,   \* Feature's checkout; without a directory from "missing" on
    expanded,  \* the project's rows are shown
    seen,      \* SidebarModel.reconciled: the tree, and what it was built for
    ops,       \* operations so far
    agreed     \* the last step closed one session when nothing awaited a pass
               \* and the last one hid no worktree that is still listed, with
               \* the cursor on what was on screen

vars == <<ui, app, feature, expanded, seen, ops, agreed>>

Fortunes == {"listed", "deleting", "missing", "pruning", "gone"}
Sessions == [id : Ids, ws : Workspaces, tab : BOOLEAN]
Opt(S) == S \cup {None}

App == [list : Seq(Sessions),                         \* SessionList.sessions
        active : [Workspaces -> Opt(Ids)],            \* SessionList.active
        returns : [Ids -> Opt(Ids)],                  \* SessionList.returns_to
        current : Workspaces,                         \* current_workspace
        opened : 0..MaxSessions,
        deferred : [to : Workspaces \cup Opt(Ids), tree : BOOLEAN],
        cursor : Opt(Rows),                           \* SidebarModel.cursor
        bare : SUBSET Workspaces]                     \* left empty by a failed spawn

TreeOf == [list : Seq(Sessions), trees : SUBSET Workspaces, expanded : BOOLEAN]

TypeOK ==
    /\ ui \in Settings
    /\ app \in App
    /\ feature \in Fortunes
    /\ expanded \in BOOLEAN
    /\ seen \in [tree : TreeOf, built : [list : Seq(Sessions), trees : SUBSET Workspaces,
                                      expanded : BOOLEAN, current : Workspaces]]
    /\ ops \in 0..MaxOps /\ agreed \in BOOLEAN

-----------------------------------------------------------------------------
(* SessionList.                                                            *)

(* Where x is in q, which has it at most once; 0 if it is not.             *)
Place(q, x) ==
    IF \E i \in DOMAIN q : q[i] = x THEN CHOOSE i \in DOMAIN q : q[i] = x ELSE 0

IdsOf(list) == [i \in DOMAIN list |-> list[i].id]
In(list, w) == IdsOf(Select(list, [id : Ids, ws : {w}, tab : BOOLEAN]))
At(list, id) == Place(IdsOf(list), id)
Open(s, id) == At(s.list, id) # 0
Here(s, id, w) == \E e \in ToSet(s.list) : e.id = id /\ e.ws = w

SetActive(s, w, id) ==
    LET previous == s.active[w]
        takesOver == /\ previous \notin {None, id}
                     /\ \E e \in ToSet(s.list) : e.id = id /\ e.tab IN
    [s EXCEPT !.active[w] = id,
              !.returns[id] = IF takesOver THEN previous ELSE @]

ReturnTarget(s, id) ==
    LET w == s.list[At(s.list, id)].ws IN
    IF ui.returns /\ Open(s, id) /\ s.active[w] = id /\ Here(s, s.returns[id], w)
    THEN s.returns[id] ELSE None

(* A variant that hands over to the predecessor.                           *)
LandingBefore(list, w, removed) ==
    LET before == In(SubSeq(list, 1, removed - 1), w) IN
    IF In(list, w) = <<>> THEN None
    ELSE IF ui.follow /\ before # <<>> THEN Last(before)
    ELSE Head(In(list, w))

(* close_landing: list is what is left, removed the place that was closed. *)
CloseLanding(list, w, removed) ==
    LET after == In(SubSeq(list, removed, Len(list)), w) IN
    IF In(list, w) = <<>> THEN None
    ELSE IF ~ui.follow THEN Head(In(list, w))
    ELSE IF after # <<>> THEN Head(after)
    ELSE Last(In(list, w))

(* SessionList::remove: one id after another.                              *)
Without(s, id) ==
    LET i == At(s.list, id)
        w == s.list[i].ws
        rest == RemoveAt(s.list, i)
        back == ReturnTarget(s, id) IN
    IF i = 0 THEN s
    ELSE [s EXCEPT !.list = rest,
                   !.returns[id] = None,
                   !.active[w] = IF @ # id THEN @
                                 ELSE IF back # None THEN back
                                 ELSE CloseLanding(rest, w, i)]

Removed(s, ids) ==
    LET left[i \in 0..Len(ids)] ==
          IF i = 0 THEN s ELSE Without(left[i - 1], ids[i])
    IN left[Len(ids)]

(* A variant that claims the target only where nothing is active.          *)
MoveClaimingEmpty(s, id, w) ==
    LET i == At(s.list, id)
        from == s.list[i].ws
        list == [s.list EXCEPT ![i].ws = w]
        next == IF In(list, from) = <<>> THEN None ELSE Head(In(list, from))
        active == [s.active EXCEPT ![from] = IF @ = id THEN next ELSE @,
                                   ![w] = IF @ = None THEN id ELSE @] IN
    [s EXCEPT !.list = list,
              !.active = active,
              !.current = IF s.active[from] = id /\ @ = from THEN w ELSE @]

(* SessionList::move_to and plan_move, with the view's switch after them.  *)
MoveTo(s, id, w) ==
    LET i == At(s.list, id)
        from == s.list[i].ws
        list == [s.list EXCEPT ![i].ws = w]
        wasActive == s.active[from] = id
        onScreen == wasActive /\ s.current = from
        next == IF In(list, from) = <<>> THEN None ELSE Head(In(list, from))
        active == [s.active EXCEPT ![from] = IF wasActive THEN next ELSE @,
                                   ![w] = IF onScreen \/ @ = None THEN id ELSE @] IN
    [s EXCEPT !.list = list,
              !.active = active,
              !.current = IF onScreen THEN w ELSE @,
              !.bare = @ \ {w}]

(* reorder_session_within_workspace: walk_swaps touches the workspace's    *)
(* own places only.                                                        *)
Reordered(s, id, position) ==
    LET w == s.list[At(s.list, id)].ws
        slots == Select([i \in DOMAIN s.list |-> i], {i \in DOMAIN s.list : s.list[i].ws = w})
        from == Place(slots, At(s.list, id))
        to == IF position < Len(slots) THEN position + 1 ELSE Len(slots)
        walked == InsertAt(RemoveAt(slots, from), to, slots[from]) IN
    [s EXCEPT !.list = [i \in DOMAIN s.list |->
        IF s.list[i].ws = w THEN s.list[walked[Place(slots, i)]]
        ELSE s.list[i]]]

-----------------------------------------------------------------------------
(* Workspaces.                                                             *)

Gone(w) == w = Feature /\ feature \in {"missing", "pruning", "gone"}

Push(s, w, tab) ==
    LET id == s.opened + 1 IN
    SetActive([s EXCEPT !.list = Append(@, [id |-> id, ws |-> w, tab |-> tab]),
                        !.opened = id,
                        !.bare = @ \ {w}], w, id)

(* spawn_session; a checkout that is gone is refused.  A spawn past the    *)
(* bound yields a state no step takes.                                     *)
Spawn(s, w) == IF Gone(w) THEN [s EXCEPT !.bare = @ \cup {w}]
               ELSE IF s.opened = MaxSessions THEN [s EXCEPT !.opened = MaxSessions + 1]
               ELSE Push(s, w, FALSE)

OnScreen(s) == s.active[s.current]

(* ensure_active_session.                                                  *)
Ensure(s) ==
    IF Open(s, OnScreen(s)) THEN s
    ELSE IF In(s.list, s.current) # <<>> THEN SetActive(s, s.current, Head(In(s.list, s.current)))
    ELSE Spawn(s, s.current)

(* activate_home and activate_worktree.                                    *)
ActivateWs(s, w) ==
    IF Gone(w) /\ In(s.list, w) = <<>> THEN s ELSE Ensure([s EXCEPT !.current = w])

(* activate_session_by_id.                                                 *)
ActivateId(s, id) ==
    LET w == s.list[At(s.list, id)].ws IN
    IF Open(s, id) THEN SetActive([s EXCEPT !.current = w], w, id) ELSE s

(* workspace_order: the workspaces the app would switch to.                *)
Switchable(s) ==
    feature \in {"listed", "deleting"} \/ (feature # "gone" /\ In(s.list, Feature) # <<>>)
Order(s) == <<Home, Trunk>> \o IF Switchable(s) THEN <<Feature>> ELSE <<>>

-----------------------------------------------------------------------------
(* Closing.  A verdict is a workspace, a session, or None: stay.           *)

(* session_ring.                                                           *)
Ring(s) == In(s.list, Home) \o In(s.list, Trunk)
             \o IF Switchable(s) THEN In(s.list, Feature) ELSE <<>>

(* ring_landing, in the ring as it was.                                    *)
RingLanding(s, removed, w) ==
    LET ring == Ring(s)
        places == {i \in DOMAIN ring : ring[i] \in ToSet(removed)}
        left(group) == {i \in DOMAIN ring \ places :
                          \E e \in ToSet(s.list) : e.id = ring[i] /\ e.ws \in group}
        search(group) ==
          LET after == {i \in left(group) : \A j \in places : j < i}
              before == {i \in left(group) : \A j \in places : i < j} IN
          IF after # {} THEN ring[CHOOSE i \in after : \A j \in after : i <= j]
          ELSE IF before # {} THEN ring[CHOOSE i \in before : \A j \in before : j <= i]
          ELSE None
        own == IF ui.policy = "ring_project" /\ w # Home /\ ~(w = Feature /\ feature = "gone")
               THEN search({Trunk, Feature}) ELSE None IN
    IF places = {} THEN None ELSE IF own # None THEN own ELSE search(Workspaces)

(* close_fallback: main_checkout is none for Trunk itself, and for what no *)
(* project lists.                                                          *)
CloseFallback(s, w, reason) ==
    IF w # s.current \/ In(s.list, w) # <<>> THEN None
    ELSE IF /\ w = Feature /\ feature # "gone" /\ reason # "deleted"
            /\ In(s.list, Trunk) # <<>> THEN Trunk
    ELSE Home

(* close_navigation, and the ring policies' own destination.               *)
Verdict(s, left, ids, w, reason) ==
    LET fallback == IF reason = "spawn_failed" THEN None ELSE CloseFallback(left, w, reason)
        landing == IF ui.policy \in {"ring_global", "ring_project"}
                   THEN RingLanding(s, ids, w) ELSE None IN
    IF fallback # None /\ landing # None THEN landing ELSE fallback

NotDeferred == [to |-> None, tree |-> FALSE]

(* A variant that only goes where a workspace is named.                    *)
ApplyToWorkspace(s, v) == IF v \in Workspaces THEN ActivateWs(s, v) ELSE s

(* apply_close_fallback.                                                   *)
Apply(s, v) == IF v = None THEN s
               ELSE IF v \in Workspaces THEN ActivateWs(s, v) ELSE ActivateId(s, v)

(* What a close does about its verdict, or leaves to the pass.             *)
Leave(left, w, reason, verdict) ==
    IF verdict = None THEN left
    ELSE IF ui.policy = "respawn" /\ reason # "deleted" THEN Spawn(left, w)
    ELSE IF ui.follow THEN [left EXCEPT !.deferred = [to |-> verdict, tree |-> reason = "deleted"]]
    ELSE Apply(left, verdict)

(* close_sessions, all of one workspace.                                   *)
Close(s, ids, w, reason) ==
    LET returned == IF s.cursor \in ToSet(ids) THEN ReturnTarget(s, s.cursor) ELSE None
        left == [Removed(s, ids) EXCEPT
                   !.cursor = IF returned # None THEN returned ELSE @] IN
    Leave(left, w, reason, Verdict(s, left, ids, w, reason))

(* close_session_with, of one session that is open.                        *)
CloseOne(s, id, reason) == Close(s, <<id>>, s.list[At(s.list, id)].ws, reason)

-----------------------------------------------------------------------------
(* The sidebar's tree.  T.trees are the project's worktree rows; T.list    *)
(* decides the session rows.                                               *)

(* workspace_entries: a workspace with one session lists none.             *)
Listed(T, w) == IF Len(In(T.list, w)) < 2 THEN <<>> ELSE In(T.list, w)

(* visible_rows.                                                           *)
Shown(T) ==
    LET branch(w) == IF w \in T.trees THEN <<w>> \o Listed(T, w) ELSE <<>> IN
    <<Home>> \o Listed(T, Home) \o <<Project>>
      \o IF T.expanded THEN branch(Trunk) \o branch(Feature) ELSE <<>>
Projects(T, row) == row \in ToSet(Shown(T))

(* build_snapshot: every live session is in the model, shown or not.       *)
Model(T) == {Home, Project} \cup T.trees \cup ToSet(IdsOf(T.list))

Parent(T, row) ==
    IF row \in {Home, Project} THEN Root
    ELSE IF row \in Workspaces THEN Project
    ELSE LET w == T.list[At(T.list, row)].ws IN
         IF w \in {Home} \cup T.trees THEN w ELSE Detached
Siblings(T, p) == Select(Shown(T), {row \in Model(T) : Parent(T, row) = p})

(* slide: to who stands at the removed row's place among its siblings.     *)
Slide(prev, next, row) ==
    LET p == Parent(prev, row)
        place == Place(Siblings(prev, p), row)
        survivors == Siblings(next, p) IN
    IF p = Detached \/ place = 0 \/ p \notin {Root} \cup Model(next) THEN None
    ELSE IF place <= Len(survivors) THEN survivors[place]
    ELSE IF survivors # <<>> THEN Last(survivors)
    ELSE IF p = Root THEN None ELSE p

(* climb.                                                                  *)
Climb(tree, next, row) ==
    LET p == Parent(tree, row) IN
    IF Projects(next, p) THEN p
    ELSE IF p \in tree.trees THEN Project
    ELSE Home

(* follow_target.                                                          *)
FollowTarget(next, row) ==
    IF row \in Ids \/ (row \in Workspaces /\ In(next.list, row) # <<>>) THEN row ELSE None

(* A variant that lands on a row nobody checked is shown.                  *)
RepairUnchecked(prev, next, cursor) ==
    IF cursor = None \/ Projects(next, cursor) THEN [cursor |-> cursor, follow |-> None]
    ELSE IF cursor \in Model(next)
         THEN [cursor |-> Parent(next, cursor), follow |-> None]
    ELSE [cursor |-> Home, follow |-> None]

(* repair, of a cursor no filter parked.                                   *)
Repair(prev, next, cursor) ==
    LET landing == Slide(prev, next, cursor) IN
    IF cursor = None \/ Projects(next, cursor) THEN [cursor |-> cursor, follow |-> None]
    ELSE IF cursor \in Model(next)
         THEN [cursor |-> Climb(next, next, cursor), follow |-> None]
    ELSE IF cursor \notin Model(prev) THEN [cursor |-> Home, follow |-> None]
    ELSE IF Projects(next, landing)
         THEN [cursor |-> landing, follow |-> FollowTarget(next, landing)]
    ELSE [cursor |-> Climb(prev, next, cursor), follow |-> None]

(* apply_follow_target.                                                    *)
Follow(s, row) ==
    IF row \in Ids THEN ActivateId(s, row)
    ELSE ActivateId(s, IF Open(s, s.active[row]) THEN s.active[row] ELSE Head(In(s.list, row)))

(* The checkouts the project lists.                                        *)
Trees == IF feature = "gone" THEN {Trunk} ELSE {Trunk, Feature}
Tree == [list |-> app.list, trees |-> Trees, expanded |-> expanded]
Observed == [list |-> app.list, trees |-> Trees, expanded |-> expanded, current |-> app.current]

-----------------------------------------------------------------------------
(* A window in use: any of its own sessions active in each workspace, the  *)
(* cursor on any row, the worktree there, going or gone: a shell outlives  *)
(* its directory, and one may open while the directory goes.               *)
Init ==
    /\ ui \in Settings
    /\ \E place \in Layouts, active \in [Workspaces -> Opt(Ids)],
         current \in Workspaces, cursor \in Rows :
         LET list == [id \in DOMAIN place |-> [id |-> id, ws |-> place[id], tab |-> FALSE]] IN
         /\ \A w \in Workspaces : IF In(list, w) = <<>> THEN active[w] = None
                                  ELSE active[w] \in ToSet(In(list, w))
         /\ active[current] # None
         /\ app = [list |-> list, active |-> active, returns |-> [id \in Ids |-> None],
                   current |-> current, opened |-> Len(list), deferred |-> NotDeferred,
                   cursor |-> cursor, bare |-> {}]
    /\ feature \in Fortunes \ {"pruning"} /\ expanded = TRUE
    /\ Projects(Tree, app.cursor)
    /\ seen = [tree |-> Tree, built |-> Observed]
    /\ ops = 0 /\ agreed = FALSE

(* needs_reconcile: the rows were rebuilt, or a close waits.               *)
NeedsPass == app.deferred # NotDeferred \/ seen.built # Observed

(* The cursor is on the session on screen, or on its workspace's row.      *)
Agrees(s) == s.cursor # None /\ s.cursor \in {OnScreen(s), s.current}

(* One operation: at most MaxOps of them, and no session past MaxSessions. *)
Op(s, closes) ==
    /\ ops < MaxOps /\ ops' = ops + 1
    /\ s.opened <= MaxSessions /\ app' = s
    /\ agreed' = /\ closes /\ ~NeedsPass /\ seen.tree = Tree
                  /\ Agrees(app) /\ Projects(Tree, app.cursor)

Only(s) == Op(s, FALSE) /\ UNCHANGED <<ui, feature, expanded, seen>>

(* Ctrl+T and a row's "+", which show the new session; a client's, which   *)
(* does not.  A refusal leaves everything as it was.                       *)
OpenShell(w, show) ==
    /\ ~Gone(w)
    /\ Only([Spawn(app, w) EXCEPT !.current = IF show THEN w ELSE @])

(* toggle_scratchpad_tab, toggle_tasks_tab: a workspace has one such tab.  *)
ToggleTab ==
    LET w == app.current
        tabs == {e \in ToSet(app.list) : e.ws = w /\ e.tab} IN
    \/ /\ tabs = {} /\ app.opened < MaxSessions
       /\ Only(Push(app, w, TRUE))
    \/ \E tab \in tabs :
         Only(IF app.active[w] = tab.id THEN CloseOne(app, tab.id, "user")
              ELSE SetActive(app, w, tab.id))

ActivateWorkspace(w) == Only(ActivateWs(app, w))

(* A row, a tab, a key that cycles, a notification or a client names a     *)
(* session.                                                                *)
ActivateSession(id) == Open(app, id) /\ Only(ActivateId(app, id))

(* The user, a client, or reap_exited_sessions.                            *)
CloseSession(id) ==
    /\ Open(app, id)
    /\ Op(CloseOne(app, id, "user"), TRUE)
    /\ UNCHANGED <<ui, feature, expanded, seen>>

(* A workspace the failed spawn left empty keeps its error.                *)
Bared(left, w) ==
    [left EXCEPT !.bare = IF In(left.list, w) = <<>> THEN @ \cup {w} ELSE @]

(* poll_pending_spawns, close_session_with: a failed open takes its record *)
(* along, from wherever it was moved.  One that succeeds changes nothing   *)
(* here, so every shell that is open may be one still opening.  A frame    *)
(* polls before anything it does can leave a verdict waiting.              *)
SpawnFails(id) ==
    LET e == app.list[At(app.list, id)] IN
    /\ Open(app, id) /\ ~e.tab /\ app.deferred = NotDeferred
    /\ Only(Bared(CloseOne(app, id, "spawn_failed"), e.ws))

(* run_pending_delete and close_worktree_sessions.                         *)
DeleteWorktree ==
    /\ feature \in {"listed", "missing"}
    /\ feature' = IF feature = "listed" THEN "deleting" ELSE "pruning"
    /\ Op(Close(app, In(app.list, Feature), Feature, "deleted"), FALSE)
    /\ UNCHANGED <<ui, expanded, seen>>

(* What becomes of the checkout: somebody removes its directory, the       *)
(* delete or the prune fails or ends, a refresh drops the row.             *)
Fates == {<<"listed", "missing">>, <<"deleting", "listed">>, <<"deleting", "pruning">>,
          <<"pruning", "missing">>, <<"pruning", "gone">>, <<"missing", "gone">>}
FeatureChanges ==
    /\ \E fate \in Fates : fate[1] = feature /\ feature' = fate[2]
    /\ Op(app, FALSE)
    /\ UNCHANGED <<ui, expanded, seen>>

(* reorderable_workspaces, from which a move is chosen.                    *)
Reorderable ==
    Select(Order(app), IF feature \in {"listed", "missing"} THEN Workspaces ELSE {Home, Trunk})

(* apply_session_move, decided by a drop or a step: a tab stays home.      *)
Moved(id, w, position) ==
    LET from == app.list[At(app.list, id)].ws IN
    Reordered(IF from = w THEN app ELSE MoveTo(app, id, w), id, position)
MayMove(id, w) ==
    /\ Open(app, id)
    /\ Here(app, id, w) \/ (w \in ToSet(Reorderable) /\ ~app.list[At(app.list, id)].tab)

(* apply_session_drop.                                                     *)
DropSession(id, w) ==
    /\ MayMove(id, w)
    /\ \E position \in 0..Len(In(app.list, w)) : Only(Moved(id, w, position))

(* A client's MoveSession: into any checkout the sidebar lists, one that   *)
(* is being deleted or missing too, and not to a position.  Into its own,  *)
(* it changes nothing.                                                     *)
MoveSession(id, w) ==
    /\ Open(app, id) /\ ~app.list[At(app.list, id)].tab
    /\ w \in Trees /\ ~Here(app, id, w)
    /\ Only(MoveTo(app, id, w))

(* reorder_subject, with the sidebar focused.                              *)
Subject == IF app.cursor \in Ids THEN app.cursor
           ELSE IF app.cursor \in Workspaces /\ app.active[app.cursor] # None
                THEN app.active[app.cursor]
           ELSE OnScreen(app)

(* step_session and follow_moved_session, from the sidebar, across every   *)
(* workspace: one place up or down, or into the neighbour.                 *)
StepSession(delta) ==
    LET id == Subject
        from == app.list[At(app.list, id)].ws
        range == IF from \in ToSet(Reorderable) THEN Reorderable ELSE <<from>>
        k == Place(range, from) + delta
        index == Place(In(app.list, from), id) - 1
        inside == index + delta \in 0..(Len(In(app.list, from)) - 1)
        w == IF inside THEN from ELSE range[k]
        position == IF inside THEN index + delta
                    ELSE IF delta = 1 THEN 0 ELSE Len(In(app.list, w)) IN
    /\ Open(app, id) /\ (inside \/ k \in DOMAIN range)
    /\ MayMove(id, w)
    /\ Op([Moved(id, w, position) EXCEPT !.cursor = id], FALSE)
    /\ expanded' = (expanded \/ w \in Trees)
    /\ UNCHANGED <<ui, feature, seen>>

ToggleExpanded ==
    /\ expanded' = ~expanded
    /\ Op(app, FALSE)
    /\ UNCHANGED <<ui, feature, seen>>

(* The cursor steps over the rows as they are now.                         *)
MoveCursor(row) == Only([app EXCEPT !.cursor = row])

(* What a pass does about the repaired cursor and what a close deferred.   *)
Steered(repair) ==
    LET taken == [app EXCEPT !.deferred = NotDeferred, !.cursor = repair.cursor] IN
    IF ~ui.follow THEN taken
    ELSE IF repair.follow # None THEN Follow(taken, repair.follow)
    ELSE Apply(taken, app.deferred.to)

(* reconcile_sidebar_focus, twice a frame.                                 *)
Reconcile ==
    LET next == [Tree EXCEPT !.trees = IF app.deferred.tree THEN {Trunk} ELSE @] IN
    /\ NeedsPass
    /\ app' = Steered(Repair(seen.tree, next, app.cursor))
    /\ app'.opened <= MaxSessions
    /\ seen' = [tree |-> next, built |-> Observed]
    /\ agreed' = FALSE
    /\ UNCHANGED <<ui, feature, expanded, ops>>

Next ==
    \/ \E w \in Workspaces, show \in BOOLEAN : OpenShell(w, show)
    \/ \E w \in Workspaces : ActivateWorkspace(w)
    \/ \E id \in Ids : \/ ActivateSession(id) \/ CloseSession(id)
                       \/ SpawnFails(id)
                       \/ \E w \in Workspaces : DropSession(id, w) \/ MoveSession(id, w)
    \/ \E delta \in {-1, 1} : StepSession(delta)
    \/ \E row \in ToSet(Shown(Tree)) : MoveCursor(row)
    \/ ToggleTab \/ DeleteWorktree \/ FeatureChanges \/ ToggleExpanded
    \/ Reconcile

Spec == Init /\ [][Next]_vars

-----------------------------------------------------------------------------
(* A workspace with sessions has an active one, and it is one of its own;  *)
(* a workspace without has none.  Closing, moving, deleting and failing    *)
(* each repair the map by a rule of their own (SessionList::remove,        *)
(* move_to), and paint_central shows what it names.                        *)
ActiveIsOwn ==
    \A w \in Workspaces :
        IF In(app.list, w) = <<>> THEN app.active[w] = None ELSE Here(app, app.active[w], w)

(* Closing a session does not strand the view on an empty pane             *)
(* (close_sessions): a current workspace without sessions is one the app   *)
(* could not open a shell in, or a close still waits for the pass that     *)
(* takes the terminal elsewhere.                                           *)
NotStranded ==
    In(app.list, app.current) = <<>> =>
        app.current \in app.bare \/ app.deferred # NotDeferred

Inv == TypeOK /\ ActiveIsOwn /\ NotStranded

(* A pass that finds the rows changed leaves the cursor on a row the       *)
(* sidebar draws, whatever was closed, moved, deleted or collapsed since   *)
(* the pass before it (sidebar_focus::repair), and wherever it then takes  *)
(* the terminal.                                                           *)
CursorOnRow ==
    [][seen' # seen => app'.cursor = None \/ Projects(Tree', app'.cursor)]_vars

(* Under "follow", one close of what cursor and terminal both were at,     *)
(* in a workspace with other sessions, moves both to the same sibling: the *)
(* pass leaves the terminal where the close put it, and the cursor there   *)
(* (close_landing and slide are one rule).                                 *)
LandsTogether ==
    [][seen' # seen /\ ui.follow /\ agreed /\ In(app.list, app.current) # <<>> =>
         /\ app'.current = app.current /\ OnScreen(app') = OnScreen(app)
         /\ Agrees(app')]_vars

(* Moving a session, wherever to, leaves a session that is on screen on    *)
(* screen, in its old workspace or its new one (plan_move, MoveOutcome::follow).      *)
MoveKeepsScreen ==
    [][app'.list # app.list /\ ToSet(IdsOf(app'.list)) = ToSet(IdsOf(app.list))
       => OnScreen(app) \in {None, OnScreen(app')}]_vars
=============================================================================
