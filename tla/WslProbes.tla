----------------------------- MODULE WslProbes -----------------------------
(***************************************************************************)
(* What a shimmed WSL session shares with the resident helper: the cached  *)
(* foreground command of its probe key, and the cell size its tty should   *)
(* report (crates/alacritree_common/src/wsl_helper.rs).                    *)
(*                                                                         *)
(* Two process-wide threads work on maps the UI thread also edits.  The    *)
(* poller snapshots the keys, asks the helper for each without a lock and  *)
(* writes the reply into a key that may be gone.  The cell size writer     *)
(* drains the queue, sends sizes one after another and puts back what it   *)
(* could not send into a queue that may have a newer one.                  *)
(*                                                                         *)
(* The helper itself is WslHelper; here it is a connection that is up or   *)
(* not, and a request on it is answered, lost, or never written.           *)
(***************************************************************************)
EXTENDS Naturals, FiniteSets

CONSTANTS
    Keys,       \* probe keys, one per session and never used again
    NoKey,      \* the poller, or the writer, is between keys
    MaxSizes    \* bound: cell sizes set, which are also the sequence numbers

ASSUME ProbesAssumption == NoKey \notin Keys /\ MaxSizes \in Nat

Sequences == 1..MaxSizes

VARIABLES
    session,    \* new, open from attach to drop, closed
    cache,      \* probe_cache: absent, unknown, or the last comm
    up,         \* client() would return a helper
    comm,       \* what runs in the foreground of the session's tty
    todo,       \* the poller's snapshot of keys, less those visited
    asking,     \* the key the poller has a probe out for
    told,       \* the last definitive reply for each key
    sequence,   \* the last sequence number given out
    newest,     \* the sequence number of the size the session has
    sizes,      \* cell_sizes: the queued sequence number per key, 0 for none
    batch,      \* what the writer drained and has not dealt with
    sending,    \* the key the writer works on
    phase,      \* where the writer is with it
    sent,       \* sizes whose script reached the far end
    failed,     \* sizes whose run failed before that
    scripts,    \* PIXEL_SIZE_SCRIPT runs that have not reached their lock
    watcher     \* the sequence number of the session's live watcher

cacheVars == <<cache, told, todo, asking>>
sizeVars == <<sequence, newest, sizes, batch, sending, phase, sent, failed>>
worldVars == <<up, comm, scripts, watcher>>
probesVars == <<session, cacheVars, sizeVars, worldVars>>

(* What the helper reports: an idle shell is an empty payload.             *)
Comms == {"", "tui"}

ProbesTypeOK ==
    /\ session \in [Keys -> {"new", "open", "closed"}]
    /\ cache \in [Keys -> {"absent", "unknown", "tui"}]
    /\ up \in BOOLEAN
    /\ comm \in [Keys -> Comms]
    /\ todo \in SUBSET Keys
    /\ asking \in Keys \cup {NoKey}
    /\ told \in [Keys -> {"unknown", "tui"}]
    /\ sequence \in 0..MaxSizes
    /\ newest \in [Keys -> 0..MaxSizes]
    /\ sizes \in [Keys -> 0..MaxSizes]
    /\ batch \in [Keys -> 0..MaxSizes]
    /\ sending \in Keys \cup {NoKey}
    /\ phase \in {"idle", "run", "held"}
    /\ sent \in SUBSET Sequences /\ failed \in SUBSET Sequences
    /\ scripts \in SUBSET (Keys \X Sequences)
    /\ watcher \in [Keys -> 0..MaxSizes]

ProbesInit ==
    /\ session = [k \in Keys |-> "new"]
    /\ cache = [k \in Keys |-> "absent"]
    /\ up = FALSE
    /\ comm = [k \in Keys |-> ""]
    /\ todo = {} /\ asking = NoKey
    /\ told = [k \in Keys |-> "unknown"]
    /\ sequence = 0
    /\ newest = [k \in Keys |-> 0]
    /\ sizes = [k \in Keys |-> 0]
    /\ batch = [k \in Keys |-> 0]
    /\ sending = NoKey /\ phase = "idle"
    /\ sent = {} /\ failed = {} /\ scripts = {}
    /\ watcher = [k \in Keys |-> 0]

-----------------------------------------------------------------------------
(* The UI thread.                                                          *)

SetCellSize(k) ==
    /\ sequence < MaxSizes
    /\ sequence' = sequence + 1
    /\ newest' = [newest EXCEPT ![k] = sequence']
    /\ sizes' = [sizes EXCEPT ![k] = sequence']
    /\ UNCHANGED <<batch, sending, phase, sent, failed>>

(* Session::attach: the key is registered, then its size is set.           *)
Attach(k) ==
    /\ session[k] = "new"
    /\ session' = [session EXCEPT ![k] = "open"]
    /\ cache' = [cache EXCEPT ![k] = "unknown"]
    /\ SetCellSize(k)
    /\ UNCHANGED <<told, todo, asking, worldVars>>

(* The window's scale or font changed the cell.                            *)
Rescale(k) ==
    /\ session[k] = "open"
    /\ SetCellSize(k)
    /\ UNCHANGED <<session, cacheVars, worldVars>>

(* Session::drop.  The shell ends, and its watcher with it.                *)
Close(k) ==
    /\ session[k] = "open"
    /\ session' = [session EXCEPT ![k] = "closed"]
    /\ cache' = [cache EXCEPT ![k] = "absent"]
    /\ UNCHANGED <<told, todo, asking, sizeVars, worldVars>>

-----------------------------------------------------------------------------
(* The poller.                                                             *)

Snapshot ==
    /\ todo = {} /\ asking = NoKey
    /\ todo' = {k \in Keys : cache[k] # "absent"}
    /\ todo' # {}
    /\ UNCHANGED <<session, cache, told, asking, sizeVars, worldVars>>

(* No client: the cached value stands.                                     *)
PollUnavailable(k) ==
    /\ asking = NoKey /\ k \in todo /\ ~up
    /\ todo' = todo \ {k}
    /\ UNCHANGED <<session, cache, told, asking, sizeVars, worldVars>>

PollAsks(k) ==
    /\ asking = NoKey /\ k \in todo /\ up
    /\ todo' = todo \ {k} /\ asking' = k
    /\ UNCHANGED <<session, cache, told, sizeVars, worldVars>>

Reply(c) == IF c = "" THEN "unknown" ELSE c

(* A variant that inserts the reply.                                       *)
PollAnsweredInserting ==
    /\ asking \in Keys
    /\ told' = [told EXCEPT ![asking] = Reply(comm[asking])]
    /\ cache' = [cache EXCEPT ![asking] = Reply(comm[asking])]
    /\ asking' = NoKey
    /\ UNCHANGED <<session, todo, sizeVars, worldVars>>

(* A definitive reply overwrites the entry, if there still is one.         *)
PollAnswered ==
    /\ asking \in Keys
    /\ told' = [told EXCEPT ![asking] = Reply(comm[asking])]
    /\ cache' = IF cache[asking] = "absent" THEN cache
                ELSE [cache EXCEPT ![asking] = Reply(comm[asking])]
    /\ asking' = NoKey
    /\ UNCHANGED <<session, todo, sizeVars, worldVars>>

(* NotWritten or NoReply.                                                  *)
PollFails ==
    /\ asking \in Keys
    /\ asking' = NoKey
    /\ UNCHANGED <<session, cache, told, todo, sizeVars, worldVars>>

-----------------------------------------------------------------------------
(* The cell size writer.                                                   *)

Idle == phase = "idle" /\ batch = [k \in Keys |-> 0]

(* The wait on the condition variable ends with everything drained.        *)
Drain ==
    /\ Idle /\ sizes # [k \in Keys |-> 0]
    /\ batch' = sizes
    /\ sizes' = [k \in Keys |-> 0]
    /\ UNCHANGED <<session, cacheVars, sequence, newest, sending, phase, sent, failed, worldVars>>

(* client() returned one.  What happens to it from here is up to the run.  *)
SendStarts(k) ==
    /\ phase = "idle" /\ batch[k] # 0 /\ up
    /\ sending' = k /\ phase' = "run"
    /\ UNCHANGED <<session, cacheVars, sequence, newest, sizes, batch, sent, failed, worldVars>>

(* The writer is through with the entry in hand.                           *)
Discharge ==
    /\ batch' = [batch EXCEPT ![sending] = 0]
    /\ sending' = NoKey /\ phase' = "idle"

(* The script reached the far end, whether or not its reply came back.     *)
Sent ==
    /\ phase = "run"
    /\ scripts' = scripts \cup {<<sending, batch[sending]>>}
    /\ sent' = sent \cup {batch[sending]}
    /\ Discharge
    /\ UNCHANGED <<session, cacheVars, sequence, newest, sizes, failed, up, comm, watcher>>

(* The run failed before the far end had the script: the error is logged   *)
(* and the entry forgotten.                                                *)
SendFails ==
    /\ phase = "run"
    /\ failed' = failed \cup {batch[sending]}
    /\ Discharge
    /\ UNCHANGED <<session, cacheVars, sequence, newest, sizes, sent, worldVars>>

(* A variant that holds every entry.                                       *)
UnsentHeldAlways(k) ==
    /\ phase = "idle" /\ batch[k] # 0 /\ ~up
    /\ sending' = k /\ phase' = "held"
    /\ UNCHANGED <<session, cacheVars, sequence, newest, sizes, batch, sent, failed, worldVars>>

(* No client: an entry whose key is registered is held.                    *)
Unsent(k) ==
    /\ phase = "idle" /\ batch[k] # 0 /\ ~up
    /\ IF cache[k] # "absent"
         THEN sending' = k /\ phase' = "held" /\ UNCHANGED batch
         ELSE batch' = [batch EXCEPT ![k] = 0] /\ UNCHANGED <<sending, phase>>
    /\ UNCHANGED <<session, cacheVars, sequence, newest, sizes, sent, failed, worldVars>>

(* A variant that puts an entry back over a newer one.                     *)
PutBackOver ==
    /\ phase = "held"
    /\ sizes' = [sizes EXCEPT ![sending] = batch[sending]]
    /\ Discharge
    /\ UNCHANGED <<session, cacheVars, sequence, newest, sent, failed, worldVars>>

(* or_insert: a newer size that was queued meanwhile stands.               *)
PutBack ==
    /\ phase = "held"
    /\ sizes' = [sizes EXCEPT ![sending] = IF @ = 0 THEN batch[sending] ELSE @]
    /\ Discharge
    /\ UNCHANGED <<session, cacheVars, sequence, newest, sent, failed, worldVars>>

-----------------------------------------------------------------------------
(* The far end.                                                            *)

(* A variant in which the last script to come leaves its watcher.          *)
WatchLast(k, n) ==
    /\ <<k, n>> \in scripts
    /\ scripts' = scripts \ {<<k, n>>}
    /\ watcher' = [watcher EXCEPT ![k] = n]
    /\ UNCHANGED <<session, cacheVars, sizeVars, up, comm>>

(* PIXEL_SIZE_SCRIPT under its file lock: it gives way to a live watcher   *)
(* of a higher sequence number, and replaces any other.  Scripts run side  *)
(* by side, so they come to the lock in any order.                         *)
Watch(k, n) ==
    /\ <<k, n>> \in scripts
    /\ scripts' = scripts \ {<<k, n>>}
    /\ watcher' = [watcher EXCEPT ![k] = IF @ > n THEN @ ELSE n]
    /\ UNCHANGED <<session, cacheVars, sizeVars, up, comm>>

HelperUp ==
    /\ ~up /\ up' = TRUE
    /\ UNCHANGED <<session, cacheVars, sizeVars, comm, scripts, watcher>>

HelperDown ==
    /\ up /\ up' = FALSE
    /\ UNCHANGED <<session, cacheVars, sizeVars, comm, scripts, watcher>>

Foreground(k, c) ==
    /\ session[k] = "open" /\ comm[k] # c
    /\ comm' = [comm EXCEPT ![k] = c]
    /\ UNCHANGED <<session, cacheVars, sizeVars, up, scripts, watcher>>

-----------------------------------------------------------------------------
UI == \E k \in Keys : Attach(k) \/ Rescale(k) \/ Close(k)

Poller ==
    \/ Snapshot \/ PollAnswered \/ PollFails
    \/ \E k \in Keys : PollUnavailable(k) \/ PollAsks(k)

Writer ==
    \/ Drain \/ Sent \/ SendFails \/ PutBack
    \/ \E k \in Keys : SendStarts(k) \/ Unsent(k)

FarEnd ==
    \/ HelperUp \/ HelperDown
    \/ \E k \in Keys, n \in Sequences : Watch(k, n)
    \/ \E k \in Keys, c \in Comms : Foreground(k, c)

ProbesNext == UI \/ Poller \/ Writer \/ FarEnd

ProbesSpec == ProbesInit /\ [][ProbesNext]_probesVars

(* The threads loop for ever, and a script once started reaches its lock.  *)
(* Nothing is assumed of the helper: that it stays up is a premise where a *)
(* property needs it.                                                      *)
FairProbes ==
    /\ ProbesSpec
    /\ WF_probesVars(Writer)
    /\ \A k \in Keys : WF_probesVars(SendStarts(k) \/ Unsent(k))
    /\ \A k \in Keys, n \in Sequences : WF_probesVars(Watch(k, n))

-----------------------------------------------------------------------------
(* Properties.                                                             *)

(* A key whose session is gone stays out of the cache: a reply that was    *)
(* on its way cannot bring it back, to be polled for the life of the       *)
(* process (unregister_probe against the poller).                          *)
NoGhostKeys == \A k \in Keys : session[k] = "closed" => cache[k] = "absent"

(* A cached command is the last one the helper really reported: an outage  *)
(* of any length leaves it alone, so passthrough to a running program      *)
(* survives (the poller's "only a definitive reply overwrites the cache"). *)
CacheIsLastReply ==
    \A k \in Keys : cache[k] # "absent" => cache[k] = told[k]

(* Type correctness, with the two facts about the cache.                   *)
ProbesInv == ProbesTypeOK /\ NoGhostKeys /\ CacheIsLastReply

(* The size a session has now is queued, in the writer's hands, or was     *)
(* tried: a size put back never displaces a newer one (or_insert).         *)
NewestSizeKept ==
    \A k \in Keys :
        session[k] = "open" => newest[k] \in {sizes[k], batch[k]} \cup sent \cup failed

(* With a helper that stays up, the size a session settles on is the one   *)
(* its tty ends up with, unless a run failed under it (writer, queue and   *)
(* watchers together).                                                     *)
SizeArrives ==
    <>[]up => \A k \in Keys, n \in Sequences :
        (newest[k] = n) ~>
            watcher[k] = n \/ newest[k] # n \/ session[k] = "closed" \/ n \in failed

(* The queue forgets a closed session: an entry nobody waits for is not    *)
(* retried for ever while the helper is down.                              *)
ClosedSizesForgotten ==
    \A k \in Keys : (session[k] = "closed") ~> (sizes[k] = 0 /\ batch[k] = 0)
=============================================================================
