----------------------------- MODULE WslHelper -----------------------------
(***************************************************************************)
(* The resident helper of one WSL distro and the requests sent to it       *)
(* (crates/alacritree_common/src/wsl_helper.rs, with the fallback of       *)
(* wsl.rs::run_batch).                                                     *)
(*                                                                         *)
(* A request asks the registry for a ready client, parks a sender under    *)
(* its id, writes one line to the helper's stdin and waits in slices.      *)
(* A reader thread routes the frames that come back.  Reader, failed       *)
(* writers and waiters that judge the helper wedged all run mark_down,     *)
(* four locks one after another, at the same time as each other.  A        *)
(* request that certainly was not written is run again as a one-shot.      *)
(*                                                                         *)
(* The far end is external: it may run what it was sent at any time, even  *)
(* after the wsl.exe relay was killed, answer, stop reading, or die.       *)
(***************************************************************************)
EXTENDS Naturals, FiniteSets

CONSTANTS
    Scripts,        \* run requests, one per id, with the one-shot fallback
    Probes,         \* probe requests, which wait for less than one slice
    Nobody,         \* no thread holds the stdin lock
    MaxClients,     \* bound: how many helpers are spawned in a row
    RunSlices,      \* RUN_TIMEOUT in slices
    SilenceSlices   \* Timing.silence_limit in slices

Requests == Scripts \cup Probes

ASSUME HelperAssumption ==
    /\ Scripts \cap Probes = {}
    /\ Nobody \notin Requests
    /\ MaxClients \in Nat /\ RunSlices \in Nat /\ SilenceSlices \in Nat
    /\ SilenceSlices > 1

Clients == 1..MaxClients

VARIABLES
    slot,       \* the registry's entry for the distro
    latest,     \* the newest client; the one a live slot holds
    down,       \* HelperClient.down
    hello,      \* HelperClient.capabilities is set
    child,      \* the process, as the operating system sees it
    stdin,      \* HelperClient.stdin is Some
    writer,     \* who holds the stdin lock across a write
    pending,    \* HelperClient.pending
    reader,     \* where each client's reader thread is
    inbox,      \* lines the far end has and has not run
    outbox,     \* replies on their way to the reader
    pc,         \* where each request is
    client,     \* the client each request was given
    replied,    \* the reply is in the request's channel
    heard,      \* requests whose current slice saw bytes arrive
    quiet,      \* whole slices of silence the request has watched
    age,        \* slices since the line was written
    verdict,    \* what request() is about to return or returned
    runs        \* how often the script ran, there or as a one-shot

registryVars == <<slot, latest>>
farVars == <<inbox, outbox, runs>>
clockVars == <<heard, quiet, age>>
clientVars == <<down, hello, child, stdin, writer, pending, reader>>
callVars == <<pc, client, replied, clockVars, verdict>>
vars == <<registryVars, clientVars, farVars, callVars>>

(* The four steps of mark_down, in order.                                  *)
Teardown == {"down", "kill", "close", "clear"}

CallPoints ==
    {"idle", "check", "insert", "lock", "writing", "unwritten", "waiting",
     "ping", "pinging", "expired", "wedged", "oneshot", "done"} \cup Teardown

TypeOK ==
    /\ slot \in {"none", "live", "cooldown", "cooled"}
    /\ latest \in 0..MaxClients
    /\ down \in [Clients -> BOOLEAN]
    /\ hello \in [Clients -> BOOLEAN]
    /\ child \in [Clients -> {"none", "up", "wedged", "dead"}]
    /\ stdin \in [Clients -> {"open", "closed"}]
    /\ writer \in [Clients -> Requests \cup {Nobody}]
    /\ pending \in [Clients -> SUBSET Requests]
    /\ reader \in [Clients -> {"none", "hello", "reading", "gone"} \cup Teardown]
    /\ inbox \in [Clients -> SUBSET Requests]
    /\ outbox \in [Clients -> SUBSET Requests]
    /\ pc \in [Requests -> CallPoints]
    /\ client \in [Requests -> 0..MaxClients]
    /\ replied \in [Requests -> BOOLEAN]
    /\ heard \in SUBSET Requests
    /\ quiet \in [Requests -> 0..SilenceSlices]
    /\ age \in [Requests -> Nat]
    /\ verdict \in [Requests -> {"none", "Reply", "NotWritten", "NoReply"}]
    /\ runs \in [Requests -> Nat]

Init ==
    /\ slot = "none" /\ latest = 0
    /\ down = [c \in Clients |-> FALSE]
    /\ hello = [c \in Clients |-> FALSE]
    /\ child = [c \in Clients |-> "none"]
    /\ stdin = [c \in Clients |-> "closed"]
    /\ writer = [c \in Clients |-> Nobody]
    /\ pending = [c \in Clients |-> {}]
    /\ reader = [c \in Clients |-> "none"]
    /\ inbox = [c \in Clients |-> {}]
    /\ outbox = [c \in Clients |-> {}]
    /\ pc = [r \in Requests |-> "idle"]
    /\ client = [r \in Requests |-> 0]
    /\ replied = [r \in Requests |-> FALSE]
    /\ heard = {}
    /\ quiet = [r \in Requests |-> 0]
    /\ age = [r \in Requests |-> 0]
    /\ verdict = [r \in Requests |-> "none"]
    /\ runs = [r \in Requests |-> 0]

-----------------------------------------------------------------------------
(* Helpers.                                                                *)

Goto(r, p) == pc' = [pc EXCEPT ![r] = p]
Waiting(r) == pc[r] \in {"waiting", "ping", "pinging"}
Limit(r) == IF r \in Probes THEN 1 ELSE RunSlices

Ready(c) == ~down[c] /\ hello[c]

(* A variant that takes every failure for one that is safe to run again.   *)
AfterAnyFailure(r, v) == IF v # "Reply" /\ r \in Scripts THEN "oneshot" ELSE "done"

(* Where a request goes once its outcome is decided: only a script that    *)
(* certainly was not written is run again.                                 *)
AfterVerdict(r, v) == IF v = "NotWritten" /\ r \in Scripts THEN "oneshot" ELSE "done"

(* A variant that drops the parked senders before it closes stdin.         *)
AfterClearingFirst(p) == CASE p = "down" -> "kill"
                           [] p = "kill" -> "clear"
                           [] p = "clear" -> "close"
                           [] p = "close" -> "end"

(* A variant that relies on the close to end the process.                  *)
AfterClosingFirst(p) == CASE p = "down" -> "close"
                          [] p = "close" -> "kill"
                          [] p = "kill" -> "clear"
                          [] p = "clear" -> "end"

(* mark_down: the process is killed before the stdin lock is asked for,    *)
(* and stdin is closed before the parked senders are dropped.              *)
After(p) == CASE p = "down" -> "kill"
              [] p = "kill" -> "close"
              [] p = "close" -> "clear"
              [] p = "clear" -> "end"

TeardownStep(p, c) ==
    /\ down' = IF p = "down" THEN [down EXCEPT ![c] = TRUE] ELSE down
    /\ child' = IF p = "kill" /\ child[c] # "none" THEN [child EXCEPT ![c] = "dead"] ELSE child
    /\ p = "close" => writer[c] = Nobody
    /\ stdin' = IF p = "close" THEN [stdin EXCEPT ![c] = "closed"] ELSE stdin
    /\ pending' = IF p = "clear" THEN [pending EXCEPT ![c] = {}] ELSE pending

-----------------------------------------------------------------------------
(* The registry: client().                                                 *)

(* No client: a script falls back, a probe leaves the cache as it is and   *)
(* asks again at the next poll.                                            *)
Unavailable(r) ==
    /\ Goto(r, IF r \in Scripts THEN "oneshot" ELSE "idle")
    /\ UNCHANGED <<farVars, client, replied, clockVars, verdict>>

CallReady(r) ==
    /\ pc[r] = "idle" /\ slot = "live" /\ Ready(latest)
    /\ client' = [client EXCEPT ![r] = latest]
    /\ Goto(r, "check")
    /\ UNCHANGED <<registryVars, clientVars, farVars, replied, clockVars, verdict>>

CallStarting(r) ==
    /\ pc[r] = "idle"
    /\ slot = "live" /\ ~hello[latest] /\ ~down[latest]
    /\ Unavailable(r)
    /\ UNCHANGED <<registryVars, clientVars>>

CallFoundDown(r) ==
    /\ pc[r] = "idle" /\ slot = "live" /\ down[latest]
    /\ slot' = "cooldown"
    /\ Unavailable(r)
    /\ UNCHANGED <<latest, clientVars>>

CallCooling(r) ==
    /\ pc[r] = "idle" /\ slot = "cooldown"
    /\ Unavailable(r)
    /\ UNCHANGED <<registryVars, clientVars>>

(* A variant that takes a helper still starting for a missing one.         *)
CallSpawnsUnlessReady(r, launched) ==
    LET c == latest + 1 IN
    /\ pc[r] = "idle" /\ latest < MaxClients
    /\ slot \in {"none", "cooled"} \/ (slot = "live" /\ ~Ready(latest))
    /\ latest' = c /\ slot' = "live"
    /\ IF launched
         THEN /\ child' = [child EXCEPT ![c] = "up"]
              /\ stdin' = [stdin EXCEPT ![c] = "open"]
              /\ reader' = [reader EXCEPT ![c] = "hello"]
              /\ UNCHANGED down
         ELSE /\ down' = [down EXCEPT ![c] = TRUE]
              /\ reader' = [reader EXCEPT ![c] = "gone"]
              /\ UNCHANGED <<child, stdin>>
    /\ Unavailable(r)
    /\ UNCHANGED <<hello, writer, pending>>

(* HelperClient::spawn under the registry lock: the launch may fail, in    *)
(* which case the client is born down.                                     *)
CallSpawns(r, launched) ==
    LET c == latest + 1 IN
    /\ pc[r] = "idle" /\ slot \in {"none", "cooled"} /\ latest < MaxClients
    /\ latest' = c /\ slot' = "live"
    /\ IF launched
         THEN /\ child' = [child EXCEPT ![c] = "up"]
              /\ stdin' = [stdin EXCEPT ![c] = "open"]
              /\ reader' = [reader EXCEPT ![c] = "hello"]
              /\ UNCHANGED down
         ELSE /\ down' = [down EXCEPT ![c] = TRUE]
              /\ reader' = [reader EXCEPT ![c] = "gone"]
              /\ UNCHANGED <<child, stdin>>
    /\ Unavailable(r)
    /\ UNCHANGED <<hello, writer, pending>>

(* RESPAWN_COOLDOWN passes.  Bound: not after the last client.             *)
CooldownPasses ==
    /\ slot = "cooldown" /\ latest < MaxClients
    /\ slot' = "cooled"
    /\ UNCHANGED <<latest, clientVars, farVars, callVars>>

-----------------------------------------------------------------------------
(* HelperClient::request, one step per lock.                               *)

Check(r) ==
    /\ pc[r] = "check"
    /\ IF Ready(client[r])
         THEN Goto(r, "insert") /\ UNCHANGED verdict
         ELSE /\ verdict' = [verdict EXCEPT ![r] = "NotWritten"]
              /\ Goto(r, AfterVerdict(r, "NotWritten"))
    /\ UNCHANGED <<registryVars, clientVars, farVars, client, replied, clockVars>>

Insert(r) ==
    /\ pc[r] = "insert"
    /\ pending' = [pending EXCEPT ![client[r]] = @ \cup {r}]
    /\ Goto(r, "lock")
    /\ UNCHANGED <<registryVars, down, hello, child, stdin, writer, reader, farVars,
                   client, replied, clockVars, verdict>>

LockStdin(r) ==
    LET c == client[r] IN
    /\ pc[r] = "lock" /\ writer[c] = Nobody
    /\ IF stdin[c] = "open"
         THEN writer' = [writer EXCEPT ![c] = r] /\ Goto(r, "writing")
         ELSE Goto(r, "unwritten") /\ UNCHANGED writer
    /\ UNCHANGED <<registryVars, down, hello, child, stdin, pending, reader, farVars,
                   client, replied, clockVars, verdict>>

(* The whole line went into the pipe.  What a dead process was sent is     *)
(* lost.                                                                   *)
WriteDone(r) ==
    LET c == client[r] IN
    /\ pc[r] = "writing"
    /\ writer' = [writer EXCEPT ![c] = Nobody]
    /\ inbox' = IF child[c] = "dead" THEN inbox ELSE [inbox EXCEPT ![c] = @ \cup {r}]
    /\ heard' = heard \ {r}
    /\ Goto(r, "waiting")
    /\ UNCHANGED <<registryVars, down, hello, child, stdin, pending, reader, outbox, runs,
                   client, replied, quiet, age, verdict>>

(* A line cut short has no newline, so the far end cannot have run it.     *)
WriteFails(r) ==
    LET c == client[r] IN
    /\ pc[r] = "writing" /\ child[c] = "dead"
    /\ writer' = [writer EXCEPT ![c] = Nobody]
    /\ Goto(r, "unwritten")
    /\ UNCHANGED <<registryVars, down, hello, child, stdin, pending, reader, farVars,
                   client, replied, clockVars, verdict>>

(* The sender is taken back, and the transport torn down.                  *)
Unwritten(r) ==
    /\ pc[r] = "unwritten"
    /\ pending' = [pending EXCEPT ![client[r]] = @ \ {r}]
    /\ verdict' = [verdict EXCEPT ![r] = "NotWritten"]
    /\ Goto(r, "down")
    /\ UNCHANGED <<registryVars, down, hello, child, stdin, writer, reader, farVars,
                   client, replied, clockVars>>

(* The wait is over, and its clocks go with the stack frame.               *)
Leave(r, v, p) ==
    /\ verdict' = [verdict EXCEPT ![r] = v]
    /\ heard' = heard \ {r}
    /\ quiet' = [quiet EXCEPT ![r] = 0]
    /\ age' = [age EXCEPT ![r] = 0]
    /\ Goto(r, p)

(* recv_timeout: the reply, or the hangup of a dropped sender.             *)
Receive(r) ==
    /\ pc[r] = "waiting" /\ replied[r]
    /\ Leave(r, "Reply", "done")
    /\ UNCHANGED <<registryVars, clientVars, farVars, client, replied>>

Disconnected(r) ==
    /\ pc[r] = "waiting" /\ ~replied[r] /\ r \notin pending[client[r]]
    /\ Leave(r, "NoReply", "done")
    /\ UNCHANGED <<registryVars, clientVars, farVars, client, replied>>

(* A slice passes with nothing received.  A starved slice is not evidence  *)
(* and restarts the watch.                                                 *)
Slice(r, starved) ==
    LET silence == IF r \in heard THEN 0 ELSE quiet[r] + 1 IN
    /\ pc[r] = "waiting" /\ ~replied[r] /\ r \in pending[client[r]]
    /\ age' = [age EXCEPT ![r] = @ + 1]
    /\ heard' = heard \ {r}
    /\ quiet' = [quiet EXCEPT ![r] = IF starved THEN 0 ELSE silence]
    /\ Goto(r, IF ~starved /\ silence >= SilenceSlices THEN "wedged" ELSE "ping")
    /\ UNCHANGED <<registryVars, clientVars, farVars, client, replied, verdict>>

AfterPing(r) == IF age[r] >= Limit(r) THEN "expired" ELSE "waiting"

(* ping: a held stdin lock is a reason to skip.                            *)
PingSkips(r) ==
    LET c == client[r] IN
    /\ pc[r] = "ping" /\ (writer[c] # Nobody \/ stdin[c] = "closed")
    /\ Goto(r, AfterPing(r))
    /\ UNCHANGED <<registryVars, clientVars, farVars, client, replied, clockVars, verdict>>

PingWrites(r) ==
    LET c == client[r] IN
    /\ pc[r] = "ping" /\ writer[c] = Nobody /\ stdin[c] = "open"
    /\ writer' = [writer EXCEPT ![c] = r]
    /\ Goto(r, "pinging")
    /\ UNCHANGED <<registryVars, down, hello, child, stdin, pending, reader, farVars,
                   client, replied, clockVars, verdict>>

(* Written or failed; the outcome is ignored.                              *)
PingDone(r) ==
    /\ pc[r] = "pinging"
    /\ writer' = [writer EXCEPT ![client[r]] = Nobody]
    /\ Goto(r, AfterPing(r))
    /\ UNCHANGED <<registryVars, down, hello, child, stdin, pending, reader, farVars,
                   client, replied, clockVars, verdict>>

(* The request's own timeout passed.                                       *)
Expire(r) ==
    /\ pc[r] = "expired"
    /\ pending' = [pending EXCEPT ![client[r]] = @ \ {r}]
    /\ Leave(r, "NoReply", "done")
    /\ UNCHANGED <<registryVars, down, hello, child, stdin, writer, reader, farVars,
                   client, replied>>

(* The silence passed the limit: the waiter tears the transport down.      *)
JudgeWedged(r) ==
    /\ pc[r] = "wedged"
    /\ pending' = [pending EXCEPT ![client[r]] = @ \ {r}]
    /\ Leave(r, "NoReply", "down")
    /\ UNCHANGED <<registryVars, down, hello, child, stdin, writer, reader, farVars,
                   client, replied>>

CallerTeardown(r) ==
    /\ pc[r] \in Teardown
    /\ TeardownStep(pc[r], client[r])
    /\ Goto(r, IF After(pc[r]) = "end" THEN AfterVerdict(r, verdict[r]) ELSE After(pc[r]))
    /\ UNCHANGED <<registryVars, hello, writer, reader, farVars, client, replied,
                   clockVars, verdict>>

(* run_batch without the helper.                                           *)
OneShot(r) ==
    /\ pc[r] = "oneshot"
    /\ runs' = [runs EXCEPT ![r] = @ + 1]
    /\ Goto(r, "done")
    /\ UNCHANGED <<registryVars, clientVars, inbox, outbox, client, replied, clockVars, verdict>>

-----------------------------------------------------------------------------
(* The reader thread: read_loop.                                           *)

Hello(c) ==
    /\ reader[c] = "hello"
    /\ hello' = [hello EXCEPT ![c] = TRUE]
    /\ reader' = [reader EXCEPT ![c] = "reading"]
    /\ UNCHANGED <<registryVars, down, child, stdin, writer, pending, farVars, callVars>>

(* Bytes of any kind end the silence of everyone who waits on the client.  *)
StampBytes(c) == heard' = heard \cup {r \in Requests : client[r] = c /\ Waiting(r)}

Route(c, r) ==
    /\ reader[c] = "reading" /\ r \in outbox[c]
    /\ outbox' = [outbox EXCEPT ![c] = @ \ {r}]
    /\ pending' = [pending EXCEPT ![c] = @ \ {r}]
    /\ replied' = [replied EXCEPT ![r] = @ \/ r \in pending[c]]
    /\ StampBytes(c)
    /\ UNCHANGED <<registryVars, down, hello, child, stdin, writer, reader, inbox, runs,
                   pc, client, quiet, age, verdict>>

(* The answer to a ping, or part of a frame.                               *)
OtherBytes(c) ==
    /\ reader[c] = "reading" /\ child[c] # "wedged"
    /\ StampBytes(c)
    /\ UNCHANGED <<registryVars, clientVars, farVars, pc, client, replied, quiet, age, verdict>>

(* End of file, a read error, an unusable hello or a malformed frame.      *)
ReaderGivesUp(c) ==
    /\ reader[c] \in {"hello", "reading"}
    /\ reader' = [reader EXCEPT ![c] = "down"]
    /\ UNCHANGED <<registryVars, down, hello, child, stdin, writer, pending, farVars, callVars>>

ReaderTeardown(c) ==
    /\ reader[c] \in Teardown
    /\ TeardownStep(reader[c], c)
    /\ reader' = [reader EXCEPT ![c] = IF After(@) = "end" THEN "gone" ELSE After(@)]
    /\ UNCHANGED <<registryVars, hello, writer, farVars, callVars>>

-----------------------------------------------------------------------------
(* The far end.                                                            *)

FarRuns(c, r) ==
    /\ r \in inbox[c]
    /\ inbox' = [inbox EXCEPT ![c] = @ \ {r}]
    /\ outbox' = [outbox EXCEPT ![c] = @ \cup {r}]
    /\ runs' = [runs EXCEPT ![r] = @ + 1]
    /\ UNCHANGED <<registryVars, clientVars, callVars>>

ChildChanges(c, to) ==
    /\ child[c] \in {"up", "wedged"} /\ to # child[c]
    /\ child' = [child EXCEPT ![c] = to]
    /\ UNCHANGED <<registryVars, down, hello, stdin, writer, pending, reader, farVars, callVars>>

-----------------------------------------------------------------------------
Call(r) ==
    \/ CallReady(r) \/ CallStarting(r) \/ CallFoundDown(r) \/ CallCooling(r)
    \/ \E launched \in BOOLEAN : CallSpawns(r, launched)

RequestStep(r) ==
    \/ Check(r) \/ Insert(r) \/ LockStdin(r) \/ Unwritten(r)
    \/ Receive(r) \/ Disconnected(r) \/ \E starved \in BOOLEAN : Slice(r, starved)
    \/ PingSkips(r) \/ PingWrites(r) \/ Expire(r) \/ JudgeWedged(r)
    \/ CallerTeardown(r) \/ OneShot(r)

WriteStep(r) == WriteDone(r) \/ WriteFails(r) \/ PingDone(r)

FarStep(c) ==
    \/ \E r \in Requests : FarRuns(c, r)
    \/ \E to \in {"wedged", "dead"} : ChildChanges(c, to)

ReaderStep(c) ==
    \/ Hello(c) \/ OtherBytes(c) \/ ReaderGivesUp(c) \/ ReaderTeardown(c)
    \/ \E r \in Requests : Route(c, r)

Next ==
    \/ \E r \in Requests : Call(r) \/ RequestStep(r) \/ WriteStep(r)
    \/ \E c \in Clients : ReaderStep(c) \/ FarStep(c)
    \/ CooldownPasses

Spec == Init /\ [][Next]_vars

(* A thread inside mark_down goes on, and a write ends once the other end  *)
(* of the pipe reads or is dead.  Nothing says a wedged process reads,     *)
(* that the far end answers, that the helper dies, or that time passes.    *)
WriteEnds(r) == WriteStep(r) /\ child[client[r]] # "wedged"

FairSpec ==
    /\ Spec
    /\ \A r \in Requests : WF_vars(CallerTeardown(r)) /\ WF_vars(WriteEnds(r))

-----------------------------------------------------------------------------
(* Properties.                                                             *)

(* A script runs at most once, counting the runs at the far end, which may *)
(* come after the caller gave up, and the one-shot fallback: only a        *)
(* request whose line was never complete is run again (TransportError,     *)
(* try_run, run_batch).                                                    *)
AtMostOnce == \A r \in Requests : runs[r] <= 1

(* Someone is still on the way to drop the parked senders of c.            *)
WillClear(c) ==
    \/ reader[c] \in Teardown
    \/ \E r \in Requests : client[r] = c /\ pc[r] \in Teardown \cup {"unwritten", "wedged"}

(* Once everyone who tears a client down is through, no request waits on   *)
(* it with its sender still parked: it would sit out its whole timeout,    *)
(* since nobody is left to route a reply or to hang up (mark_down against  *)
(* a request between its insert and its write).                            *)
NoOrphanWaiter ==
    \A r \in Requests :
        LET c == client[r] IN
        Waiting(r) /\ down[c] /\ ~WillClear(c) => r \notin pending[c]

(* A helper is launched only after the one before it was found down:       *)
(* there is never a second helper beside one that starts or serves         *)
(* (client(), the registry's arms in order).                               *)
OneClientUp == \A c \in Clients : c < latest => down[c]

(* Type correctness, with one helper at a time.                            *)
Inv == TypeOK /\ OneClientUp

(* A teardown ends, whatever the far end does: killing the process first   *)
(* fails the write of whoever holds the stdin lock that the close needs.   *)
TeardownEnds == \A r \in Requests : pc[r] \in Teardown ~> pc[r] \notin Teardown
=============================================================================
