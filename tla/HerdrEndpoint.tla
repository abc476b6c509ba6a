--------------------------- MODULE HerdrEndpoint ---------------------------
(***************************************************************************)
(* One herdr server as the sidebar sees it: EndpointCache, its two event   *)
(* streams and its listing job (crates/alacritree_herdr/src/poll.rs,       *)
(* events.rs), and the shared view that follows herdr's focus (view.rs,    *)
(* host.rs).                                                               *)
(*                                                                         *)
(* Three sources describe the same panes: a lifecycle stream, a status     *)
(* stream that names the panes last listed, and listings that run on the   *)
(* job pool and land after events newer than they are.  One frame of the   *)
(* UI thread reads what has arrived so far, in the order of poll(), and    *)
(* then lets the view act on it; everything else happens between frames.   *)
(*                                                                         *)
(* Instants are kept as the comparisons the code makes of them: a deadline *)
(* is "later" until it is due, and a sample is "new" when it was taken     *)
(* after the view's watermark.  A side with an attached session that shows *)
(* every pane is modelled (Listing::Panes); attachment_panes, a second     *)
(* copy of the rows, is not.                                               *)
(***************************************************************************)
EXTENDS Naturals, Sequences

CONSTANTS
    Panes,
    NoPane,      \* no own focus move is outstanding
    MaxEvents    \* bound: changes in herdr, faults and rows picked, together

ASSUME EndpointAssumption ==
    Panes # {} /\ NoPane \notin Panes /\ MaxEvents \in Nat

VARIABLES
    srv,     \* herdr: whether it is up, its panes, and the one it shows
    cache,   \* EndpointCache
    view,    \* HerdrViewSync: the pane on screen and the call moving herdr
    wake,    \* a frame is owed
    used     \* events so far

vars == <<srv, cache, view, wake, used>>

Statuses == {"idle", "busy"}
Existing == {p \in Panes : srv.pane[p] # "gone"}
Row(p) == [status |-> srv.pane[p], focused |-> srv.focus = p]
Listed == [p \in Existing |-> Row(p)]

NoRows == [p \in {} |-> [status |-> "idle", focused |-> FALSE]]
NoStream == [at |-> "none", names |-> {}, msgs |-> <<>>]
Opening(names) == [at |-> "opening", names |-> names, msgs |-> <<>>]
NoListing == [at |-> "none", snap |-> NoRows, behind |-> {}]

TypeOK ==
    /\ srv.up \in BOOLEAN /\ used \in 0..MaxEvents
    /\ srv.pane \in [Panes -> Statuses \cup {"gone"}]
    /\ srv.focus \in Existing
    /\ cache.link \in {"Down", "Connecting", "Up", "Abandoned"}
    /\ cache.retry \in {"now", "later"}
    /\ cache.due \in {"none", "now", "later"}
    /\ cache.blank \in {"none", "silent", "alarmed", "over"}
    /\ cache.sample \in {"none", "old", "new"}
    /\ cache.own \in Panes \cup {NoPane}
    /\ DOMAIN cache.rows \subseteq Panes
    /\ cache.link \in {"Connecting", "Up"} <=> cache.life.at # "none"
    /\ cache.stat.at # "none" => cache.link = "Up" /\ cache.stat.names # {}
    /\ cache.held # <<>> => cache.pending.at # "none"
    /\ view.active \in Panes
    /\ view.job \in {"none", "asked", "done", "failed"}
    /\ wake \in BOOLEAN

Init ==
    /\ srv \in [up : BOOLEAN, pane : {[p \in Panes |-> "idle"]}, focus : Panes]
    /\ cache = [link |-> "Down", retry |-> "now",
                life |-> NoStream, stat |-> NoStream, refused |-> {},
                pending |-> NoListing, due |-> "none", held |-> <<>>,
                rows |-> NoRows, sample |-> "none", own |-> NoPane,
                blank |-> "none", ever |-> FALSE, absent |-> FALSE]
    /\ view = [active |-> CHOOSE p \in Panes : TRUE, settled |-> FALSE,
               watching |-> FALSE, job |-> "none", target |-> NoPane]
    /\ wake = TRUE
    /\ used = 0

-----------------------------------------------------------------------------
(* Reach, and what a run of failures does to the rows.                     *)

GivenUp(c) == c.absent /\ ~c.ever

NoteSuccess(c) == [c EXCEPT !.ever = TRUE, !.absent = FALSE, !.blank = "none"]

ExpireGrace(c) ==
    IF c.blank = "over" THEN [c EXCEPT !.sample = "none", !.rows = NoRows] ELSE c

ListingFailed(c) ==
    ExpireGrace([c EXCEPT !.held = <<>>,
                          !.pending = NoListing,
                          !.blank = IF @ = "none" THEN "silent" ELSE @,
                          !.absent = c.pending.at = "absent",
                          !.due = IF c.link = "Up" THEN "later" ELSE @])

-----------------------------------------------------------------------------
(* Events: a patch changes the rows and stamps the sample with now, which  *)
(* is after anything the view has recorded.                                *)

(* A listing that has sampled falls behind what is stamped from here on.   *)
Behind(c, stamp) ==
    IF c.pending.at \in {"asked", "ok"} /\ (stamp = "patch" => view.watching)
    THEN [c EXCEPT !.pending.behind = @ \cup {stamp}] ELSE c

(* With no watermark there is nothing for a sample to be newer than.       *)
Newer == IF view.watching THEN "new" ELSE "old"

Patched(c, rows) ==
    IF rows = c.rows \/ c.sample = "none" THEN [c EXCEPT !.rows = rows]
    ELSE Behind([c EXCEPT !.rows = rows, !.sample = Newer], "patch")

Apply(c, m) ==
    CASE m.kind = "Changed" -> [c EXCEPT !.due = "now"]
      [] m.kind = "Focused" ->
            Patched(c, [p \in DOMAIN c.rows |->
                            [c.rows[p] EXCEPT !.focused = p = m.pane]])
      [] m.kind = "Status" ->
            Patched(c, [p \in DOMAIN c.rows |->
                            IF p = m.pane THEN [c.rows[p] EXCEPT !.status = m.status]
                            ELSE c.rows[p]])
      [] m.kind = "Updated" ->
            Patched(c, [p \in DOMAIN c.rows |->
                            IF p = m.pane THEN m.row ELSE c.rows[p]])

(* A focus event other than the echo of our own move is not believed.      *)
Distrusted(c, m) ==
    m.kind = "Focused" /\ c.own \notin {NoPane, m.pane}

(* A defect: a patch is not held for the listing in flight.                *)
ReceiveUnheld(c, m) ==
    IF Distrusted(c, m) THEN [c EXCEPT !.due = "now"]
    ELSE Apply([c EXCEPT !.own = IF m.kind = "Focused" THEN NoPane ELSE @], m)

Receive(c, m) ==
    IF Distrusted(c, m) THEN [c EXCEPT !.due = "now"]
    ELSE Apply([c EXCEPT !.own = IF m.kind = "Focused" THEN NoPane ELSE @,
                         !.held = IF c.pending.at # "none" /\ m.kind # "Changed"
                                  THEN Append(@, m) ELSE @],
               m)

-----------------------------------------------------------------------------
(* The lifecycle stream.                                                   *)

LinkEnded(c, why) ==
    LET wasUp == c.link = "Up"
        retired == IF wasUp
                   THEN [c EXCEPT !.stat = NoStream,
                                  !.blank = IF @ = "over" THEN @ ELSE "alarmed"]
                   ELSE c
        noted == [retired EXCEPT !.life = NoStream,
                                 !.absent = IF why = "dropped" THEN @
                                            ELSE why = "absent"]
    IN IF why # "dropped" /\ GivenUp(noted)
       THEN [noted EXCEPT !.link = "Abandoned"]
       ELSE [noted EXCEPT !.link = "Down",
                          !.retry = IF wasUp THEN "now" ELSE "later"]

(* A defect: a stream that starts is taken for a listing.                  *)
OnLifecycleUnlisted(c, m) ==
    CASE m.kind = "Started" -> [NoteSuccess(c) EXCEPT !.link = "Up"]
      [] m.kind = "Ended" -> LinkEnded(c, m.why)
      [] OTHER -> Receive(c, m)

OnLifecycle(c, m) ==
    CASE m.kind = "Started" -> [NoteSuccess(c) EXCEPT !.link = "Up", !.due = "now"]
      [] m.kind = "Ended" -> LinkEnded(c, m.why)
      [] OTHER -> Receive(c, m)

-----------------------------------------------------------------------------
(* The status stream.                                                      *)

OnStatus(c, m) ==
    CASE m.kind = "Started" -> [c EXCEPT !.due = "now"]
      [] m.kind = "Ended" ->
            [c EXCEPT !.stat = NoStream,
                      !.refused = IF m.why = "dropped" THEN @ ELSE c.stat.names]
      [] OTHER -> Receive(c, m)

-----------------------------------------------------------------------------
(* Messages are read in turn, those of a stream that have arrived and      *)
(* those held for a listing.                                               *)

Handle(source, c, m) ==
    CASE source = "life" -> OnLifecycle(c, m)
      [] source = "stat" -> OnStatus(c, m)
      [] source = "held" -> Apply(c, m)

Read(source, c, msgs) ==
    LET read[i \in 0..Len(msgs)] ==
          IF i = 0 THEN c ELSE Handle(source, read[i - 1], msgs[i])
    IN read[Len(msgs)]

(* The first n messages, and what is still on its way.                     *)
Arrived(msgs, n) == SubSeq(msgs, 1, IF n < Len(msgs) THEN n ELSE Len(msgs))
Rest(msgs, n) == SubSeq(msgs, n + 1, Len(msgs))

AdvanceLink(c, n) ==
    CASE c.link = "Abandoned" -> c
      [] c.link = "Down" ->
            IF c.retry = "now"
            THEN [c EXCEPT !.link = "Connecting", !.life = Opening({})] ELSE c
      [] OTHER -> Read("life", [c EXCEPT !.life.msgs = Rest(@, n)], Arrived(c.life.msgs, n))

AdvanceStatus(c, n) ==
    Read("stat", [c EXCEPT !.stat.msgs = Rest(@, n)], Arrived(c.stat.msgs, n))

SyncStatus(c) ==
    LET names == DOMAIN c.rows IN
    IF (c.stat.at # "none" /\ c.stat.names = names)
       \/ (names # {} /\ c.refused = names)
    THEN c
    ELSE [c EXCEPT !.stat = IF names = {} THEN NoStream ELSE Opening(names)]

-----------------------------------------------------------------------------
(* The listing job, and the rest of poll().                                *)

AdoptReply(c) ==
    [NoteSuccess(c) EXCEPT
        !.rows = c.pending.snap,
        !.sample = IF "watermark" \in c.pending.behind THEN "old" ELSE Newer,
        !.own = IF "move" \in c.pending.behind THEN @ ELSE NoPane,
        !.pending = NoListing,
        !.held = <<>>]

AdvanceListing(c) ==
    CASE c.pending.at = "ok" -> Read("held", AdoptReply(c), c.held)
      [] c.pending.at \in {"server", "absent"} -> ListingFailed(c)
      [] OTHER -> c

StartDue(c) ==
    CASE c.link # "Up" -> ExpireGrace(c)
      [] c.link = "Up" /\ c.pending.at # "none" -> c
      [] c.link = "Up" /\ c.pending.at = "none" /\ c.due = "now" ->
            [c EXCEPT !.due = "none", !.pending.at = "queued"]
      [] OTHER -> SyncStatus(c)

Poll(n, m) == StartDue(AdvanceListing(AdvanceStatus(AdvanceLink(cache, n), m)))

-----------------------------------------------------------------------------
(* The view, in the same frame as the poll that left c.                    *)

Watermark(c) ==
    Behind([c EXCEPT !.sample = IF @ = "none" THEN @ ELSE "old"], "watermark")

(* A defect: the echo alone is to end the distrust.                        *)
NoteOwnFocusUnlisted(c, p) ==
    IF p \notin DOMAIN c.rows THEN c
    ELSE Behind([c EXCEPT !.own = p], "move")

NoteOwnFocus(c, p) ==
    IF p \notin DOMAIN c.rows THEN c
    ELSE Behind([c EXCEPT !.own = p, !.due = "now"], "move")

(* The focus call answered.  A switch made meanwhile owns the watermark.   *)
ViewSettles(c) ==
    LET moved == view.job = "done"
        visible == view.active = view.target
        noted == IF moved THEN NoteOwnFocus(c, view.target) ELSE c
    IN /\ view.job \in {"done", "failed"}
       /\ cache' = IF moved /\ visible THEN Watermark(noted) ELSE noted
       /\ view' = [view EXCEPT !.job = "none", !.target = NoPane,
                               !.settled = @ \/ visible,
                               !.watching = IF visible THEN moved ELSE @]

NeedsFocus(c) ==
    view.job = "none" /\ ~view.settled /\ view.active \in DOMAIN c.rows

ViewFocuses(c) ==
    /\ NeedsFocus(c)
    /\ view' = [view EXCEPT !.job = "asked", !.target = view.active]
    /\ cache' = c

Watches(c) ==
    view.job = "none" /\ view.settled /\ view.watching /\ c.sample = "new"

Focused(c) == {p \in DOMAIN c.rows : c.rows[p].focused}

(* The sample shows our own pane: it becomes the watermark.                *)
ViewAgrees(c) ==
    /\ Watches(c) /\ view.active \in Focused(c)
    /\ cache' = [c EXCEPT
            !.sample = "old",
            !.pending.behind = IF "patch" \in @ THEN @ \cup {"watermark"}
                               ELSE @ \ {"watermark"}]
    /\ UNCHANGED view

ViewFollows(c) ==
    /\ Watches(c)
    /\ \E p \in Focused(c) \ {view.active} : view' = [view EXCEPT !.active = p]
    /\ cache' = Watermark(c)

(* A call in flight, nothing newer to read, or the user is elsewhere.      *)
ViewRests(c) == ~NeedsFocus(c) /\ cache' = c /\ UNCHANGED view

(* The answer of the focus call is back, or a newer sample is to be read.  *)
ViewMayAct(c) ==
    view.job \in {"done", "failed"} \/ (Watches(c) /\ Focused(c) # {})

Unread(c) == c.life.msgs # <<>> \/ c.stat.msgs # <<>>

(* poll_multiplexers and sync_pane_views: what the streams have delivered  *)
(* so far is read.  The view may find the answer of its call not back yet, *)
(* or its user elsewhere (held); that and what is still on its way bring   *)
(* another frame.                                                          *)
Frame(n, m, held) ==
    \E c \in {Poll(n, m)} :
        /\ IF ViewMayAct(c) /\ ~held
           THEN ViewSettles(c) \/ ViewAgrees(c) \/ ViewFollows(c)
           ELSE ViewFocuses(c) \/ ViewRests(c)
        /\ wake' = \/ Unread(c)
                   \/ c.link = "Down" /\ c.retry = "now"
                   \/ ViewMayAct(c)
        /\ UNCHANGED <<srv, used>>

Happens == used < MaxEvents /\ used' = used + 1

UserPicks(p) ==
    /\ Happens /\ p # view.active
    /\ view' = [view EXCEPT !.active = p, !.settled = FALSE, !.watching = FALSE]
    /\ wake' = TRUE
    /\ UNCHANGED <<srv, cache>>

-----------------------------------------------------------------------------
(* Deadlines.  A grace a failed listing starts has no alarm of its own.    *)

RetryElapses ==
    /\ cache.link = "Down" /\ cache.retry = "later"
    /\ cache' = [cache EXCEPT !.retry = "now"]
    /\ wake' = TRUE
    /\ UNCHANGED <<srv, view, used>>

ListingRetryElapses ==
    /\ cache.due = "later"
    /\ cache' = [cache EXCEPT !.due = "now"]
    /\ wake' = TRUE
    /\ UNCHANGED <<srv, view, used>>

GraceElapses ==
    /\ cache.blank \in {"silent", "alarmed"}
    /\ cache' = [cache EXCEPT !.blank = "over"]
    /\ wake' = (wake \/ cache.blank = "alarmed")
    /\ UNCHANGED <<srv, view, used>>

-----------------------------------------------------------------------------
(* The pool and the bridges.                                               *)

Ended(why) == [kind |-> "Ended", why |-> why]
Said(stream, at, msg) == [stream EXCEPT !.at = at, !.msgs = Append(@, msg)]

Bridged(life, stat) ==
    /\ cache' = [cache EXCEPT !.life = life, !.stat = stat]
    /\ wake' = TRUE
    /\ UNCHANGED <<srv, view>>

(* A herdr that is up accepts a subscription, unless a pane it names is    *)
(* gone; a bridge to one that is down says so.                             *)
Answered(stream) ==
    IF srv.up /\ stream.names \subseteq Existing
    THEN Said(stream, "open", [kind |-> "Started"])
    ELSE Said(stream, "over", Ended("server"))

LifecycleAnswered ==
    /\ cache.life.at = "opening"
    /\ Bridged(Answered(cache.life), cache.stat)
    /\ UNCHANGED used

StatusAnswered ==
    /\ cache.stat.at = "opening"
    /\ Bridged(cache.life, Answered(cache.stat))
    /\ UNCHANGED used

(* A bridge that cannot be spawned, or that exits under an open stream.    *)
Broken(stream) ==
    IF stream.at = "opening" THEN Said(stream, "over", Ended("absent"))
    ELSE Said(stream, "over", Ended("dropped"))

LifecycleBreaks ==
    /\ Happens /\ cache.life.at \in {"opening", "open"}
    /\ Bridged(Broken(cache.life), cache.stat)

StatusBreaks ==
    /\ Happens /\ cache.stat.at \in {"opening", "open"}
    /\ Bridged(cache.life, Broken(cache.stat))

(* The job takes its sample time when a worker takes it, and asks then.    *)
ListingStarts ==
    /\ cache.pending.at = "queued"
    /\ cache' = [cache EXCEPT !.pending.at = "asked"]
    /\ UNCHANGED <<srv, view, wake, used>>

ListingAnswered ==
    /\ cache.pending.at = "asked"
    /\ cache' = [cache EXCEPT
            !.pending.at = IF srv.up THEN "ok" ELSE "server",
            !.pending.snap = IF srv.up THEN Listed ELSE @]
    /\ wake' = TRUE
    /\ UNCHANGED <<srv, view, used>>

ListingBreaks ==
    /\ Happens /\ cache.pending.at = "asked"
    /\ cache' = [cache EXCEPT !.pending.at = "absent"]
    /\ wake' = TRUE
    /\ UNCHANGED <<srv, view>>

-----------------------------------------------------------------------------
(* herdr, the program: it changes, tells its subscribers, and may go down. *)

Tell(stream, msgs) ==
    IF stream.at = "open" THEN [stream EXCEPT !.msgs = @ \o msgs] ELSE stream

FocusedMsg(p) == [kind |-> "Focused", pane |-> p]
Changed == [kind |-> "Changed"]

Changes == srv.up /\ Happens

StatusChanges(p) ==
    /\ Changes /\ p \in Existing
    /\ \E s \in Statuses \ {srv.pane[p]} :
        /\ srv' = [srv EXCEPT !.pane[p] = s]
        /\ cache' = IF p \notin cache.stat.names THEN cache
                    ELSE [cache EXCEPT !.stat = Tell(@,
                            <<[kind |-> "Status", pane |-> p, status |-> s]>>)]
    /\ wake' = TRUE
    /\ UNCHANGED view

FocusChanges(p) ==
    /\ Changes /\ p \in Existing \ {srv.focus}
    /\ srv' = [srv EXCEPT !.focus = p]
    /\ cache' = [cache EXCEPT !.life = Tell(@, <<FocusedMsg(p)>>)]
    /\ wake' = TRUE
    /\ UNCHANGED view

(* A title or a directory changes: the event carries the whole pane.       *)
TitleChanges(p) ==
    /\ Changes /\ p \in Existing
    /\ cache' = [cache EXCEPT !.life = Tell(@,
            <<[kind |-> "Updated", pane |-> p, row |-> Row(p)]>>)]
    /\ wake' = TRUE
    /\ UNCHANGED <<srv, view>>

PaneOpens(p) ==
    /\ Changes /\ srv.pane[p] = "gone"
    /\ srv' = [srv EXCEPT !.pane[p] = "idle"]
    /\ cache' = [cache EXCEPT !.life = Tell(@, <<Changed>>)]
    /\ wake' = TRUE
    /\ UNCHANGED view

(* herdr shows another pane when the one it was on closes.                 *)
PaneCloses(p) ==
    /\ Changes /\ p \in Existing
    /\ \E q \in Existing \ {p} :
        /\ srv' = [srv EXCEPT !.pane[p] = "gone",
                              !.focus = IF @ = p THEN q ELSE @]
        /\ cache' = [cache EXCEPT !.life = Tell(@,
                IF srv.focus = p THEN <<Changed, FocusedMsg(q)>> ELSE <<Changed>>)]
    /\ wake' = TRUE
    /\ UNCHANGED view

(* Our focus call reaches herdr; a later frame sees its answer.            *)
FocusReaches ==
    /\ view.job = "asked" /\ srv.up /\ view.target \in Existing
    /\ view' = [view EXCEPT !.job = "done"]
    /\ srv' = [srv EXCEPT !.focus = view.target]
    /\ cache' = IF srv.focus = view.target THEN cache
                ELSE [cache EXCEPT !.life = Tell(@, <<FocusedMsg(view.target)>>)]
    /\ wake' = TRUE
    /\ UNCHANGED used

FocusFails ==
    /\ view.job = "asked" /\ (~srv.up \/ view.target \notin Existing)
    /\ view' = [view EXCEPT !.job = "failed"]
    /\ wake' = TRUE
    /\ UNCHANGED <<srv, cache, used>>

ServerStarts ==
    /\ ~srv.up
    /\ srv' = [srv EXCEPT !.up = TRUE]
    /\ UNCHANGED <<cache, view, wake, used>>

Closed(stream) == IF stream.at = "open" THEN Broken(stream) ELSE stream

ServerStops ==
    /\ srv.up /\ Happens
    /\ srv' = [srv EXCEPT !.up = FALSE]
    /\ cache' = [cache EXCEPT !.life = Closed(@), !.stat = Closed(@)]
    /\ wake' = TRUE
    /\ UNCHANGED view

-----------------------------------------------------------------------------

Deadline == RetryElapses \/ ListingRetryElapses \/ GraceElapses
Pool ==
    \/ LifecycleAnswered \/ StatusAnswered
    \/ ListingStarts \/ ListingAnswered
Faults == LifecycleBreaks \/ StatusBreaks \/ ListingBreaks \/ ServerStops
Herdr(p) ==
    \/ StatusChanges(p) \/ FocusChanges(p) \/ TitleChanges(p)
    \/ PaneOpens(p) \/ PaneCloses(p)

Next ==
    \/ \E n \in 0..Len(cache.life.msgs), m \in 0..Len(cache.stat.msgs),
          held \in {FALSE, view.watching \/ view.job \in {"done", "failed"}} :
              Frame(n, m, held)
    \/ Deadline \/ Pool \/ Faults
    \/ FocusReaches \/ FocusFails \/ ServerStarts
    \/ \E p \in Panes : UserPicks(p) \/ Herdr(p)

Spec == Init /\ [][Next]_vars

(* Frames catch up: again and again none is owed, which takes one that     *)
(* reads all that has arrived.  Jobs, bridges and deadlines come to their  *)
(* end.  herdr owes nothing: it need not start.                            *)
FairSpec ==
    /\ Spec
    /\ []<>~wake
    /\ WF_vars(LifecycleAnswered) /\ WF_vars(StatusAnswered)
    /\ WF_vars(ListingStarts) /\ WF_vars(ListingAnswered)
    /\ WF_vars(RetryElapses) /\ WF_vars(ListingRetryElapses)
    /\ WF_vars(GraceElapses)
    /\ WF_vars(FocusReaches) /\ WF_vars(FocusFails)

-----------------------------------------------------------------------------
(* Nothing is on its way: the stream is up and read, and no listing runs   *)
(* or is owed.                                                             *)
Quiet ==
    /\ cache.link = "Up" /\ cache.life.at = "open" /\ cache.life.msgs = <<>>
    /\ cache.pending.at = "none" /\ cache.due = "none"

Current == DOMAIN cache.rows = Existing /\ Focused(cache) = {srv.focus}

(* Once nothing is on its way the rows are herdr's panes and its focus: no *)
(* listing that landed undid a patch (receive holds it and poll applies it *)
(* again), and a distrusted focus event was made up for by a listing.      *)
QuietMeansCurrent == Quiet => Current

(* Type correctness, with rows that are current when nothing is on its way.*)
Inv == TypeOK /\ QuietMeansCurrent

(* A herdr that stays up is found, listed, and followed in its focus       *)
(* through refused subscriptions, dropped streams and failed listings      *)
(* (advance_link, listing_failed); only a side where none ever answered is *)
(* given up (Reach::abandoned).                                            *)
CatchesUp ==
    <>[]srv.up => <>[](\/ Current
                       \/ cache.link = "Abandoned" /\ ~cache.ever)

(* The distrust our own focus move begins (focus_moved) does not outlast   *)
(* it: herdr's echo or a listing sampled after the move ends it, also when *)
(* the pane was focused already and herdr sends no echo.                   *)
DistrustEnds ==
    (cache.own # NoPane /\ cache.link = "Up")
        ~> (cache.own = NoPane \/ cache.link # "Up")
=============================================================================
