------------------------------ MODULE Sessions ------------------------------
(***************************************************************************)
(* Terminal sessions from the record the UI pushes to the end of their     *)
(* shell, and the warm spare WSL terminals they may start from             *)
(* (alacritree/src/session.rs, app.rs, wsl_spare.rs and                    *)
(* alacritty_terminal/src/event_loop.rs).                                  *)
(*                                                                         *)
(* The UI thread opens, types into, resizes, closes and quits.  A pool     *)
(* worker opens the PTY, out of a parked spare when one fits, and starts   *)
(* the session's event-loop thread, which alone talks to the shell.  Spare *)
(* launches run in threads of their own.  What was typed or resized while  *)
(* the PTY was opening is replayed when the UI adopts it; a session closed *)
(* meanwhile leaves a shell that somebody must end.                        *)
(*                                                                         *)
(* One distro.  A session's size is the number of times it changed.        *)
(***************************************************************************)
EXTENDS Naturals, Sequences, FiniteSets, Selections

CONSTANTS
    SessionIds,   \* sessions; each is opened at most once
    Templates,    \* what a WSL launch's PTY is opened with
    Cold,         \* a session that is no WSL launch a spare can replay
    MaxInputs     \* bound: keys, resizes and terminal queries in all

ASSUME SessionsAssumption ==
    /\ SessionIds \cap {"empty", "launching"} = {}
    /\ Cold \notin Templates
    /\ MaxInputs \in Nat

VARIABLES
    record,    \* the session in the UI's list; "live" once attached
    launch,    \* the template it launches with, or Cold
    size,      \* Session.size
    typed,     \* keys typed so far
    pending,   \* Session.pending_writes
    spawns,    \* sessions whose Job pending_spawns holds
    opening,   \* where the worker is in open()
    result,    \* what is in the job's channel
    claimed,   \* sessions that run in a spare
    shell,     \* the session's process
    ptySize,   \* the size its PTY has
    loop,      \* the event-loop thread
    chan,      \* its channel
    writes,    \* State.write_list
    read,      \* what the shell has read
    asks,      \* queries in Session.events, which goes with its session
    inputs,    \* keys, resizes and queries so far
    slot,      \* the pool's slot: a spare is named after the claim it replaced
    closed,    \* Pool.closed
    thread,    \* the thread that launches a spare
    spare,     \* a spare's process: none when it ended, or is a session's shell
    quit       \* the window is gone

uiVars == <<record, launch, size, typed, pending, quit>>
jobVars == <<spawns, opening, result, claimed>>
loopVars == <<shell, ptySize, loop, chan, writes, read>>
askVars == <<asks, inputs>>
poolVars == <<slot, closed, thread, spare>>
vars == <<uiVars, jobVars, loopVars, askVars, poolVars>>

Kinds == {"line", "key", "reply", "resize", "shutdown"}
Msgs == [kind : Kinds, n : Nat, size : Nat]
Msg(k, n, z) == [kind |-> k, n |-> n, size |-> z]

SpareLine == Msg("line", 0, 0)
Reply == Msg("reply", 0, 0)
Resize(z) == Msg("resize", 0, z)
Shutdown == Msg("shutdown", 0, 0)

TypeOK ==
    /\ record \in [SessionIds -> {"unopened", "pending", "live", "gone"}]
    /\ launch \in [SessionIds -> Templates \cup {Cold}]
    /\ size \in [SessionIds -> Nat \ {0}]
    /\ typed \in [SessionIds -> Nat]
    /\ pending \in [SessionIds -> Seq(Msgs)]
    /\ spawns \in SUBSET SessionIds
    /\ opening \in [SessionIds ->
         {"none", "queued", "replenish", "opening", "looped", "opened", "done"}]
    /\ result \in [SessionIds -> {"none", "attachment", "error"}]
    /\ claimed \in SUBSET {s \in SessionIds : launch[s] # Cold}
    /\ shell \in [SessionIds -> {"none", "alive", "exited", "dead"}]
    /\ ptySize \in [SessionIds -> Nat]
    /\ loop \in [SessionIds -> {"none", "running", "ended"}]
    /\ chan \in [SessionIds -> Seq(Msgs)]
    /\ writes \in [SessionIds -> Seq(Msgs)]
    /\ read \in [SessionIds -> Seq(Msgs)]
    /\ asks \in [SessionIds -> Nat] /\ inputs \in 0..MaxInputs
    /\ slot \in {"empty", "launching"} \cup SessionIds
    /\ closed \in BOOLEAN
    /\ thread \in [SessionIds -> {"none", "launching", "filling", "abandoning"}]
    /\ spare \in [SessionIds -> {"none", "starting", "parked", "exited"}]
    /\ quit \in BOOLEAN

Init ==
    /\ record = [s \in SessionIds |-> "unopened"]
    /\ launch = [s \in SessionIds |-> Cold]
    /\ size = [s \in SessionIds |-> 1]
    /\ typed = [s \in SessionIds |-> 0]
    /\ pending = [s \in SessionIds |-> <<>>]
    /\ spawns = {}
    /\ opening = [s \in SessionIds |-> "none"]
    /\ result = [s \in SessionIds |-> "none"]
    /\ claimed = {}
    /\ shell = [s \in SessionIds |-> "none"]
    /\ ptySize = [s \in SessionIds |-> 0]
    /\ loop = [s \in SessionIds |-> "none"]
    /\ chan = [s \in SessionIds |-> <<>>]
    /\ writes = [s \in SessionIds |-> <<>>]
    /\ read = [s \in SessionIds |-> <<>>]
    /\ asks = [s \in SessionIds |-> 0] /\ inputs = 0
    /\ slot = "empty" /\ closed = FALSE
    /\ thread = [s \in SessionIds |-> "none"]
    /\ spare = [s \in SessionIds |-> "none"]
    /\ quit = FALSE

-----------------------------------------------------------------------------
(* Helpers.                                                                *)

Open(s) == record[s] \in {"pending", "live"}

(* EventLoopSender::send to every session at once: out[s] goes to a loop   *)
(* that still listens, and nowhere when it does not.                       *)
Post(out) ==
    chan' = [s \in SessionIds |-> IF loop[s] = "running" THEN chan[s] \o out[s] ELSE chan[s]]

PostTo(s, ms) == Post([t \in SessionIds |-> IF t = s THEN ms ELSE <<>>])

(* Session::write: to the loop when attached, into the buffer before.      *)
Write(out) ==
    /\ Post([s \in SessionIds |-> IF record[s] = "live" THEN out[s] ELSE <<>>])
    /\ pending' = [s \in SessionIds |->
                     IF record[s] = "pending" THEN pending[s] \o out[s] ELSE pending[s]]

(* The bound on inputs.                                                    *)
Counted(k) == inputs + k <= MaxInputs /\ inputs' = inputs + k

(* A variant that replays what was typed ahead of the size.                *)
ReplayInputFirst(s) == pending[s] \o <<Resize(size[s])>>

(* attach_replay.                                                          *)
Replay(s) == <<Resize(size[s])>> \o pending[s]

(* A variant whose dropped attachment tells nobody.                        *)
DroppedQuietly == <<>>

(* Attachment::drop: nobody adopted it.                                    *)
Dropped == <<Shutdown>>

-----------------------------------------------------------------------------
(* The UI thread.                                                          *)

OpenSession(s, t) ==
    /\ ~quit /\ record[s] = "unopened"
    /\ record' = [record EXCEPT ![s] = "pending"]
    /\ launch' = [launch EXCEPT ![s] = t]
    /\ spawns' = spawns \cup {s}
    /\ opening' = [opening EXCEPT ![s] = "queued"]
    /\ UNCHANGED <<size, typed, pending, quit, result, claimed, loopVars, askVars, poolVars>>

(* Bound: MaxInputs.                                                       *)
Type(s) ==
    /\ Open(s) /\ Counted(1)
    /\ typed' = [typed EXCEPT ![s] = @ + 1]
    /\ Write([t \in SessionIds |-> IF t = s THEN <<Msg("key", typed'[s], size[s])>> ELSE <<>>])
    /\ UNCHANGED <<record, launch, size, quit, jobVars, shell, ptySize, loop, writes, read,
                   asks, poolVars>>

(* Session::resize: the grid follows the pane even before there is a PTY.  *)
(* Bound: MaxInputs.                                                       *)
ResizePane(s) ==
    /\ Open(s) /\ Counted(1)
    /\ size' = [size EXCEPT ![s] = @ + 1]
    /\ IF record[s] = "live" THEN PostTo(s, <<Resize(size[s] + 1)>>) ELSE UNCHANGED chan
    /\ UNCHANGED <<record, launch, typed, pending, quit, jobVars, shell, ptySize, loop, writes,
                   read, asks, poolVars>>

(* drain_events of every open session: each query is owed a reply.         *)
DrainEvents ==
    /\ \E s \in SessionIds : Open(s) /\ asks[s] > 0
    /\ Write([s \in SessionIds |-> [i \in 1..asks[s] |-> Reply]])
    /\ asks' = [s \in SessionIds |-> 0]
    /\ UNCHANGED <<record, launch, size, typed, quit, jobVars, shell, ptySize, loop, writes,
                   read, inputs, poolVars>>

(* poll_pending_spawns: a finished open is adopted by its record; without  *)
(* one its attachment is dropped, which shuts the shell down; a failed one *)
(* takes its record along.                                                 *)
PollPendingSpawns ==
    LET finished == {s \in spawns : result[s] # "none"}
        attached == {s \in finished : result[s] = "attachment" /\ record[s] = "pending"}
        orphaned == {s \in finished : result[s] = "attachment" /\ record[s] = "gone"}
        failed == {s \in finished : result[s] = "error" /\ record[s] = "pending"} IN
    /\ finished # {}
    /\ record' = [s \in SessionIds |-> IF s \in attached THEN "live"
                                       ELSE IF s \in failed THEN "gone" ELSE record[s]]
    /\ Post([s \in SessionIds |-> IF s \in attached THEN Replay(s)
                                  ELSE IF s \in orphaned THEN Dropped ELSE <<>>])
    /\ pending' = [s \in SessionIds |->
                     IF s \in attached \cup failed THEN <<>> ELSE pending[s]]
    /\ size' = [s \in SessionIds |-> IF s \in failed THEN 1 ELSE size[s]]
    /\ typed' = [s \in SessionIds |-> IF s \in failed THEN 0 ELSE typed[s]]
    /\ asks' = [s \in SessionIds |-> IF s \in failed THEN 0 ELSE asks[s]]
    /\ spawns' = spawns \ finished
    /\ result' = [s \in SessionIds |-> IF s \in finished THEN "none" ELSE result[s]]
    /\ UNCHANGED <<launch, quit, opening, claimed, shell, ptySize, loop, writes, read, inputs,
                   poolVars>>

(* close_sessions, by the user, by a client, or because its shell exited:  *)
(* dropping the session, and all it holds, shuts its loop down, if it has  *)
(* one by then.                                                            *)
CloseSession(s) ==
    /\ Open(s)
    /\ record' = [record EXCEPT ![s] = "gone"]
    /\ pending' = [pending EXCEPT ![s] = <<>>]
    /\ size' = [size EXCEPT ![s] = 1] /\ typed' = [typed EXCEPT ![s] = 0]
    /\ asks' = [asks EXCEPT ![s] = 0]
    /\ IF record[s] = "live" THEN PostTo(s, <<Shutdown>>) ELSE UNCHANGED chan
    /\ UNCHANGED <<launch, quit, jobVars, shell, ptySize, loop, writes, read, inputs, poolVars>>

(* The app is dropped: its sessions, and the jobs with what is in their    *)
(* channels.                                                               *)
Quit ==
    /\ ~quit /\ quit' = TRUE
    /\ Post([s \in SessionIds |-> IF record[s] = "live" THEN <<Shutdown>>
                                  ELSE IF result[s] = "attachment" THEN Dropped ELSE <<>>])
    /\ record' = [s \in SessionIds |-> IF Open(s) THEN "gone" ELSE record[s]]
    /\ pending' = [s \in SessionIds |-> <<>>]
    /\ size' = [s \in SessionIds |-> 1] /\ typed' = [s \in SessionIds |-> 0]
    /\ asks' = [s \in SessionIds |-> 0]
    /\ spawns' = {}
    /\ result' = [s \in SessionIds |-> "none"]
    /\ UNCHANGED <<launch, opening, claimed, shell, ptySize, loop, writes, read, inputs,
                   poolVars>>

(* wsl_spare::shutdown, on the way out of main.                            *)
CloseSpares ==
    /\ quit /\ ~closed /\ closed' = TRUE
    /\ slot' = "empty"
    /\ spare' = [p \in SessionIds |-> IF slot = p THEN "none" ELSE spare[p]]
    /\ UNCHANGED <<uiVars, jobVars, loopVars, askVars, thread>>

-----------------------------------------------------------------------------
(* The worker: open().                                                     *)

(* The closure returned r.  Nobody left to receive an attachment drops it. *)
Finish(s, r) ==
    /\ opening' = [opening EXCEPT ![s] = "done"]
    /\ result' = IF s \in spawns THEN [result EXCEPT ![s] = r] ELSE result
    /\ IF r = "attachment" /\ s \notin spawns THEN PostTo(s, Dropped) ELSE UNCHANGED chan

(* A job whose handle is gone before it starts is skipped.                 *)
SkipOpen(s) ==
    /\ opening[s] = "queued" /\ s \notin spawns
    /\ opening' = [opening EXCEPT ![s] = "done"]
    /\ UNCHANGED <<uiVars, spawns, result, claimed, loopVars, askVars, poolVars>>

(* The directory is missing, or the PTY or its event loop cannot be made.  *)
OpenFails(s) ==
    /\ opening[s] \in {"queued", "opening"}
    /\ Finish(s, "error")
    /\ shell' = [shell EXCEPT ![s] = IF @ = "none" THEN @ ELSE "dead"]
    /\ UNCHANGED <<uiVars, spawns, claimed, ptySize, loop, writes, read, askVars, poolVars>>

OpenCold(s) ==
    /\ opening[s] = "queued" /\ launch[s] = Cold
    /\ opening' = [opening EXCEPT ![s] = "opening"]
    /\ UNCHANGED <<uiVars, spawns, result, claimed, loopVars, askVars, poolVars>>

(* claim: a parked spare leaves the pool, and serves unless its template   *)
(* differs or it exited while parked.  fits: the launch fits on the line.  *)
Claim(s, fits) ==
    LET taken == fits /\ slot \in SessionIds
        good(p) == taken /\ slot = p /\ launch[p] = launch[s] /\ spare[p] = "parked"
        warm == \E p \in SessionIds : good(p) IN
    /\ opening[s] = "queued" /\ launch[s] # Cold
    /\ opening' = [opening EXCEPT ![s] = "replenish"]
    /\ slot' = IF taken THEN "empty" ELSE slot
    /\ spare' = [p \in SessionIds |-> IF taken /\ slot = p THEN "none" ELSE spare[p]]
    /\ claimed' = IF warm THEN claimed \cup {s} ELSE claimed
    /\ shell' = IF warm THEN [shell EXCEPT ![s] = "alive"] ELSE shell
    /\ UNCHANGED <<uiVars, spawns, result, ptySize, loop, chan, writes, read, askVars, closed,
                   thread>>

(* Pool::reserve.                                                          *)
Reserve == ~closed /\ slot = "empty"

(* replenish, claimed or not; the thread may not start.                    *)
Replenish(s, started) ==
    /\ opening[s] = "replenish"
    /\ opening' = [opening EXCEPT ![s] = "opening"]
    /\ IF Reserve
         THEN /\ slot' = "launching"
              /\ thread' = [thread EXCEPT ![s] = IF started THEN "launching" ELSE "abandoning"]
              /\ spare' = IF started THEN [spare EXCEPT ![s] = "starting"] ELSE spare
         ELSE UNCHANGED <<slot, thread, spare>>
    /\ UNCHANGED <<uiVars, spawns, result, claimed, loopVars, askVars, closed>>

(* The PTY gets the size the session was born with, a spare's first output *)
(* is parsed, and the event loop starts.                                   *)
StartLoop(s, queries) ==
    /\ opening[s] = "opening"
    /\ opening' = [opening EXCEPT ![s] = IF s \in claimed THEN "looped" ELSE "opened"]
    /\ shell' = IF s \in claimed THEN shell ELSE [shell EXCEPT ![s] = "alive"]
    /\ ptySize' = [ptySize EXCEPT ![s] = 1]
    /\ loop' = [loop EXCEPT ![s] = "running"]
    /\ queries > 0 => s \in claimed
    /\ Counted(queries)
    /\ asks' = IF Open(s) THEN [asks EXCEPT ![s] = @ + queries] ELSE asks
    /\ UNCHANGED <<uiVars, spawns, result, claimed, chan, writes, read, poolVars>>

SendLine(s) ==
    /\ opening[s] = "looped"
    /\ opening' = [opening EXCEPT ![s] = "opened"]
    /\ PostTo(s, <<SpareLine>>)
    /\ UNCHANGED <<uiVars, spawns, result, claimed, shell, ptySize, loop, writes, read, askVars,
                   poolVars>>

(* A variant that hands the attachment over before the line is sent.       *)
DeliverEarly(s) ==
    /\ opening[s] \in {"looped", "opened"}
    /\ opening' = [opening EXCEPT ![s] = IF @ = "looped" THEN "looped" ELSE "done"]
    /\ result' = IF s \in spawns THEN [result EXCEPT ![s] = "attachment"] ELSE result
    /\ IF s \notin spawns THEN PostTo(s, Dropped) ELSE UNCHANGED chan
    /\ UNCHANGED <<uiVars, spawns, claimed, shell, ptySize, loop, writes, read, askVars, poolVars>>

Deliver(s) ==
    /\ opening[s] = "opened"
    /\ Finish(s, "attachment")
    /\ UNCHANGED <<uiVars, spawns, claimed, shell, ptySize, loop, writes, read, askVars, poolVars>>

-----------------------------------------------------------------------------
(* The threads that launch spares.                                         *)

LaunchReady(p) ==
    /\ thread[p] = "launching"
    /\ thread' = [thread EXCEPT ![p] = "filling"]
    /\ spare' = [spare EXCEPT ![p] = "parked"]
    /\ UNCHANGED <<uiVars, jobVars, loopVars, askVars, slot, closed>>

LaunchFails(p) ==
    /\ thread[p] = "launching"
    /\ thread' = [thread EXCEPT ![p] = "abandoning"]
    /\ spare' = [spare EXCEPT ![p] = "none"]
    /\ UNCHANGED <<uiVars, jobVars, loopVars, askVars, slot, closed>>

(* A variant that parks a spare whatever became of its slot.               *)
FillAlways(p) ==
    /\ thread[p] = "filling"
    /\ thread' = [thread EXCEPT ![p] = "none"]
    /\ slot' = p
    /\ UNCHANGED <<uiVars, jobVars, loopVars, askVars, closed, spare>>

(* Pool::fill: a pool closed meanwhile hands the spare back to be dropped. *)
Fill(p) ==
    /\ thread[p] = "filling"
    /\ thread' = [thread EXCEPT ![p] = "none"]
    /\ IF slot = "launching"
         THEN slot' = p /\ UNCHANGED spare
         ELSE spare' = [spare EXCEPT ![p] = "none"] /\ UNCHANGED slot
    /\ UNCHANGED <<uiVars, jobVars, loopVars, askVars, closed>>

Abandon(p) ==
    /\ thread[p] = "abandoning"
    /\ thread' = [thread EXCEPT ![p] = "none"]
    /\ slot' = IF slot = "launching" THEN "empty" ELSE slot
    /\ UNCHANGED <<uiVars, jobVars, loopVars, askVars, closed, spare>>

SpareExits(p) ==
    /\ spare[p] = "parked"
    /\ spare' = [spare EXCEPT ![p] = "exited"]
    /\ UNCHANGED <<uiVars, jobVars, loopVars, askVars, slot, closed, thread>>

-----------------------------------------------------------------------------
(* The event-loop thread and the shell.                                    *)

(* The thread returns, and drops the PTY and its end of the channel.       *)
EndLoop(s) ==
    /\ loop' = [loop EXCEPT ![s] = "ended"]
    /\ shell' = [shell EXCEPT ![s] = "dead"]
    /\ chan' = [chan EXCEPT ![s] = <<>>]
    /\ writes' = [writes EXCEPT ![s] = <<>>]
    /\ read' = [read EXCEPT ![s] = <<>>]
    /\ ptySize' = [ptySize EXCEPT ![s] = 0]
    /\ UNCHANGED <<uiVars, jobVars, askVars, poolVars>>

(* drain_recv_channel, one message.                                        *)
LoopInput(s) ==
    /\ chan[s] # <<>> /\ Head(chan[s]).kind \in {"line", "key", "reply"}
    /\ chan' = [chan EXCEPT ![s] = Tail(@)]
    /\ writes' = [writes EXCEPT ![s] = Append(@, Head(chan[s]))]
    /\ UNCHANGED <<uiVars, jobVars, shell, ptySize, loop, read, askVars, poolVars>>

LoopResize(s) ==
    /\ chan[s] # <<>> /\ Head(chan[s]).kind = "resize"
    /\ chan' = [chan EXCEPT ![s] = Tail(@)]
    /\ ptySize' = [ptySize EXCEPT ![s] = Head(chan[s]).size]
    /\ UNCHANGED <<uiVars, jobVars, shell, loop, writes, read, askVars, poolVars>>

LoopShutdown(s) ==
    /\ chan[s] # <<>> /\ Head(chan[s]).kind = "shutdown"
    /\ EndLoop(s)

(* The child's exit was seen, or polling, reading or writing failed.       *)
LoopBreaks(s) ==
    /\ loop[s] = "running"
    /\ EndLoop(s)

(* pty_write, and the shell reads it.                                      *)
ShellReads(s) ==
    /\ loop[s] = "running" /\ shell[s] = "alive" /\ writes[s] # <<>>
    /\ writes' = [writes EXCEPT ![s] = Tail(@)]
    /\ read' = [read EXCEPT ![s] = Append(@, Head(writes[s]))]
    /\ UNCHANGED <<uiVars, jobVars, shell, ptySize, loop, chan, askVars, poolVars>>

(* A program asks the terminal for a colour or a size.  Bound: MaxInputs.  *)
ShellAsks(s) ==
    /\ loop[s] = "running" /\ shell[s] = "alive" /\ Counted(1)
    /\ asks' = IF Open(s) THEN [asks EXCEPT ![s] = @ + 1] ELSE asks
    /\ UNCHANGED <<uiVars, jobVars, loopVars, poolVars>>

ShellExits(s) ==
    /\ shell[s] = "alive"
    /\ shell' = [shell EXCEPT ![s] = "exited"]
    /\ UNCHANGED <<uiVars, jobVars, ptySize, loop, chan, writes, read, askVars, poolVars>>

-----------------------------------------------------------------------------
UIStep ==
    \/ \E s \in SessionIds :
         \/ \E t \in Templates \cup {Cold} : OpenSession(s, t)
         \/ Type(s) \/ ResizePane(s) \/ CloseSession(s)
    \/ DrainEvents \/ PollPendingSpawns \/ Quit \/ CloseSpares

WorkerStep(s) ==
    \/ SkipOpen(s) \/ OpenFails(s) \/ OpenCold(s)
    \/ \E fits \in BOOLEAN : Claim(s, fits)
    \/ \E started \in BOOLEAN : Replenish(s, started)
    \/ \E queries \in 0..1 : StartLoop(s, queries)
    \/ SendLine(s) \/ Deliver(s)

SpareStep(p) == LaunchReady(p) \/ LaunchFails(p) \/ Fill(p) \/ Abandon(p) \/ SpareExits(p)

LoopStep(s) ==
    \/ LoopInput(s) \/ LoopResize(s) \/ LoopShutdown(s) \/ LoopBreaks(s)
    \/ ShellReads(s) \/ ShellAsks(s) \/ ShellExits(s)

Next == UIStep \/ \E s \in SessionIds : WorkerStep(s) \/ SpareStep(s) \/ LoopStep(s)

Spec == Init /\ [][Next]_vars

-----------------------------------------------------------------------------
(* Properties.                                                             *)

InputKinds == {"line", "key", "reply"}
OfKind(q, kinds) == Select(q, [kind : kinds, n : Nat, size : Nat])
Inputs(q) == OfKind(q, InputKinds)
Keys(q) == OfKind(q, {"key"})
Resizes(q) == OfKind(q, {"resize"})

(* What the shell has been sent: read, to be written, still in the channel.*)
Sent(s) == read[s] \o writes[s] \o Inputs(chan[s])

(* Whatever is typed reaches the shell once and in the order typed, also   *)
(* what was typed before there was a shell (pending_writes, attach_replay).*)
(* In a spare, the line that names what to run is read before anything     *)
(* else: a key or a reply ahead of it would be run as that line            *)
(* (open, SPARE_SCRIPT).                                                   *)
InputInOrder ==
    \A s \in SessionIds :
        LET keys == Keys(Sent(s) \o pending[s]) IN
        Open(s) /\ loop[s] # "ended" =>
            /\ Len(keys) = typed[s]
            /\ \A i \in 1..Len(keys) : keys[i].n = i
            /\ \A i \in 1..Len(Sent(s)) : Sent(s)[i].kind = "line" <=> (i = 1 /\ s \in claimed)

(* An attached session's PTY has the session's size, or a Resize to it on  *)
(* its way behind all others; and no key reaches the shell at a size older *)
(* than the one it was typed at (attach_replay, resize).                   *)
PtyFollowsSession ==
    \A s \in SessionIds : LET sizes == Resizes(chan[s]) IN
        record[s] = "live" /\ loop[s] = "running" =>
            /\ IF sizes = <<>> THEN ptySize[s] = size[s] ELSE sizes[Len(sizes)].size = size[s]
            /\ \A i \in 1..Len(writes[s]) : writes[s][i].size <= ptySize[s]

(* A running shell whose session is gone has someone who will end it: the  *)
(* worker that still opens it, the job's result on its way to the frame,   *)
(* or a Shutdown in its loop's channel (Attachment's and Session's drop,   *)
(* poll_pending_spawns, a quit while a PTY opens).                         *)
NoStrayShell ==
    \A s \in SessionIds :
        record[s] = "gone" /\ shell[s] = "alive" =>
            \/ opening[s] \in {"replenish", "opening", "looped", "opened"}
            \/ s \in spawns /\ result[s] = "attachment"
            \/ Shutdown \in {chan[s][i] : i \in 1..Len(chan[s])}

Running == {p \in SessionIds : thread[p] \in {"launching", "filling"}}

(* At most one spare is parked or on its way while the app runs, every one *)
(* of them is in the hands of its launcher or of the pool, and none stays  *)
(* parked once the pool closed (reserve, fill, abandon, close).            *)
OneSpare ==
    /\ ~closed => Cardinality(Running) + (IF slot \in SessionIds THEN 1 ELSE 0) <= 1
    /\ \A p \in SessionIds : spare[p] \in {"starting", "parked"} => p \in Running \/ slot = p
    /\ closed => slot = "empty"

(* Type correctness, with one spare at most.                               *)
Inv == TypeOK /\ OneSpare
=============================================================================
