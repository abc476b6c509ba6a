------------------------------ MODULE WslProofs ------------------------------
(***************************************************************************)
(* Theorems of WslHelper, for any sets of scripts and probes, any number   *)
(* of helpers in a row and any timeouts, and of WslProbes, for any set of  *)
(* keys and any number of sizes.  The two share no name.                   *)
(***************************************************************************)
EXTENDS WslHelper, WslProbes, TLAPS

-----------------------------------------------------------------------------
(* WslHelper.                                                              *)

(* First layer: types, what the registry knows of its clients, and whom a  *)
(* request may talk to.  A client not launched yet has nobody about it.    *)
Registry ==
    /\ slot = "none" => latest = 0
    /\ slot # "none" => latest \in Clients
    /\ slot \in {"cooldown", "cooled"} => down[latest]
    /\ \A c \in Clients : c > latest => reader[c] = "none" /\ ~down[c] /\ stdin[c] = "closed"

Apart == {"idle", "oneshot", "done"}

Assigned ==
    \A r \in Requests :
        /\ client[r] <= latest
        /\ pc[r] \notin Apart => client[r] \in Clients

(* A waiter's silence is below the limit until it judges the helper.       *)
Watching == {"waiting", "ping", "pinging", "expired"}
Clocks ==
    \A r \in Requests :
        /\ pc[r] \in Watching => quiet[r] < SilenceSlices
        /\ pc[r] \notin Watching \cup {"wedged"} => quiet[r] = 0

Core == Inv /\ Registry /\ Assigned /\ Clocks

(* Second layer: a line that may run has not run, and is at the far end of *)
(* the client its request was given, whose request will not fall back.     *)
NotSent(r) ==
    \/ pc[r] \in {"idle", "check", "insert", "lock", "writing", "unwritten", "oneshot"}
    \/ pc[r] \in Teardown /\ verdict[r] = "NotWritten"

Runs ==
    /\ \A r \in Requests : NotSent(r) => runs[r] = 0 /\ \A c \in Clients : r \notin inbox[c]
    /\ \A r \in Requests, c \in Clients : r \in inbox[c] => c = client[r] /\ runs[r] = 0
    /\ AtMostOnce

(* Third layer: whoever marked a client down closes its stdin before it    *)
(* drops the senders, so that a request whose line got past an open stdin  *)
(* is still to be dropped.                                                 *)
ClosedFirst ==
    /\ \A r \in Requests : pc[r] = "clear" => stdin[client[r]] = "closed"
    /\ \A c \in Clients : reader[c] = "clear" => stdin[c] = "closed"

Cleared ==
    /\ \A c \in Clients : down[c] /\ stdin[c] = "open" => WillClear(c)
    /\ \A r \in Requests :
          (pc[r] = "writing" \/ Waiting(r)) /\ r \in pending[client[r]] /\ down[client[r]]
              => WillClear(client[r])

Drops == ClosedFirst /\ Cleared

Clearing == Teardown \cup {"unwritten", "wedged"}
Sending == {"writing", "waiting", "ping", "pinging"}

IInv == Core /\ Runs /\ Drops

-----------------------------------------------------------------------------
(* First layer.                                                            *)

LEMMA CoreInit == Init => Core
<1> SUFFICES ASSUME Init PROVE Core OBVIOUS
<1>1. MaxClients \in Nat /\ SilenceSlices \in Nat /\ SilenceSlices > 1
  BY HelperAssumption DEF HelperAssumption
<1>2. 0 \in 0..MaxClients /\ 0 \in 0..SilenceSlices BY <1>1
<1>3. TypeOK BY <1>2 DEF Init, TypeOK, CallPoints
<1>4. \A c \in Clients : c \in Nat /\ c > 0 BY <1>1 DEF Clients
<1>5. OneClientUp BY <1>4 DEF Init, OneClientUp
<1>6. Registry BY DEF Init, Registry
<1>7. Assigned BY DEF Init, Assigned, Apart
<1>8. Clocks BY DEF Init, Clocks, Watching
<1>9. QED BY <1>3, <1>5, <1>6, <1>7, <1>8 DEF Core, Inv

LEMMA CoreStep == Core /\ [Next]_vars => Core'
<1> SUFFICES ASSUME Core, [Next]_vars PROVE Core' OBVIOUS
<1>0. /\ MaxClients \in Nat /\ SilenceSlices \in Nat /\ SilenceSlices > 1
      /\ 0 \in 0..SilenceSlices /\ Nobody \notin Requests
  BY HelperAssumption DEF HelperAssumption
<1> USE <1>0
<1> USE DEF Core, Inv, TypeOK, OneClientUp, Registry, Assigned, Clocks, Clients, Apart, Watching,
            Teardown, CallPoints, Goto, registryVars, farVars, clockVars, clientVars, callVars
<1>1. ASSUME NEW r \in Requests, Call(r) PROVE Core'
  <2>1. CASE CallReady(r) BY <2>1 DEF CallReady, Ready
  <2>2. CASE CallStarting(r) BY <2>2 DEF CallStarting, Unavailable
  <2>3. CASE CallFoundDown(r) BY <2>3 DEF CallFoundDown, Unavailable
  <2>4. CASE CallCooling(r) BY <2>4 DEF CallCooling, Unavailable
  <2>5. CASE CallSpawns(r, TRUE)
    <3> DEFINE p == IF r \in Scripts THEN "oneshot" ELSE "idle"
    <3>1. latest + 1 \in Clients /\ latest' = latest + 1 BY <2>5 DEF CallSpawns
    <3>2. pc' = [pc EXCEPT ![r] = p] /\ pc[r] = "idle" /\ p \in {"oneshot", "idle"}
      BY <2>5 DEF CallSpawns, Unavailable
    <3>3. /\ slot' = "live" /\ child' = [child EXCEPT ![latest + 1] = "up"] /\ UNCHANGED down
          /\ stdin' = [stdin EXCEPT ![latest + 1] = "open"]
          /\ reader' = [reader EXCEPT ![latest + 1] = "hello"]
          /\ UNCHANGED <<hello, writer, pending, farVars, client, replied, clockVars, verdict>>
      BY <2>5 DEF CallSpawns, Unavailable
    <3> HIDE DEF p
    <3>4. TypeOK' BY <3>1, <3>2, <3>3
    <3>5. (OneClientUp /\ Registry)' BY <2>5 DEF CallSpawns, Unavailable
    <3>6. (Assigned /\ Clocks)' BY <3>1, <3>2, <3>3
    <3>7. QED BY <3>4, <3>5, <3>6 DEF Core, Inv
  <2>6. CASE CallSpawns(r, FALSE)
    <3> DEFINE p == IF r \in Scripts THEN "oneshot" ELSE "idle"
    <3>1. latest + 1 \in Clients /\ latest' = latest + 1 BY <2>6 DEF CallSpawns
    <3>2. pc' = [pc EXCEPT ![r] = p] /\ pc[r] = "idle" /\ p \in {"oneshot", "idle"}
      BY <2>6 DEF CallSpawns, Unavailable
    <3>3. /\ slot' = "live" /\ down' = [down EXCEPT ![latest + 1] = TRUE]
          /\ UNCHANGED <<child, stdin>>
          /\ reader' = [reader EXCEPT ![latest + 1] = "gone"]
          /\ UNCHANGED <<hello, writer, pending, farVars, client, replied, clockVars, verdict>>
      BY <2>6 DEF CallSpawns, Unavailable
    <3> HIDE DEF p
    <3>4. TypeOK' BY <3>1, <3>2, <3>3
    <3>5. (OneClientUp /\ Registry)' BY <2>6 DEF CallSpawns, Unavailable
    <3>6. (Assigned /\ Clocks)' BY <3>1, <3>2, <3>3
    <3>7. QED BY <3>4, <3>5, <3>6 DEF Core, Inv
  <2>7. QED BY <1>1, <2>1, <2>2, <2>3, <2>4, <2>5, <2>6 DEF Call
<1>2. ASSUME NEW r \in Requests, RequestStep(r) PROVE Core'
  <2>1. CASE Check(r)
    <3> DEFINE p == IF Ready(client[r]) THEN "insert" ELSE AfterVerdict(r, "NotWritten")
    <3>1. p \in {"insert", "oneshot", "done"} BY DEF AfterVerdict
    <3>2. pc[r] = "check" /\ pc' = [pc EXCEPT ![r] = p] BY <2>1 DEF Check
    <3>3. verdict' \in [Requests -> {"none", "Reply", "NotWritten", "NoReply"}]
      BY <2>1 DEF Check
    <3>4. UNCHANGED <<registryVars, clientVars, farVars, client, replied, clockVars>>
      BY <2>1 DEF Check
    <3> HIDE DEF p
    <3>5. QED BY <3>1, <3>2, <3>3, <3>4
  <2>2. CASE Insert(r) BY <2>2 DEF Insert
  <2>3. CASE LockStdin(r)
    <3> DEFINE p == IF stdin[client[r]] = "open" THEN "writing" ELSE "unwritten"
    <3>1. p \in {"writing", "unwritten"} OBVIOUS
    <3>2. pc[r] = "lock" /\ pc' = [pc EXCEPT ![r] = p] BY <2>3 DEF LockStdin
    <3>3. writer' \in [Clients -> Requests \cup {Nobody}]
      <4>1. writer' = writer \/ writer' = [writer EXCEPT ![client[r]] = r]
        BY <2>3 DEF LockStdin
      <4>2. client[r] \in Clients /\ writer \in [Clients -> Requests \cup {Nobody}] BY <3>2
      <4> HIDE DEF Core, Inv, TypeOK
      <4>3. QED BY <4>1, <4>2
    <3>4. UNCHANGED <<registryVars, down, hello, child, stdin, pending, reader, farVars,
                      client, replied, clockVars, verdict>>
      BY <2>3 DEF LockStdin
    <3> HIDE DEF p
    <3>5. QED BY <3>1, <3>2, <3>3, <3>4
  <2>4. CASE Unwritten(r) BY <2>4 DEF Unwritten
  <2>5. CASE Receive(r) BY <2>5 DEF Receive, Leave
  <2>6. CASE Disconnected(r) BY <2>6 DEF Disconnected, Leave
  <2>7. ASSUME NEW starved \in BOOLEAN, Slice(r, starved) PROVE Core'
    BY <2>7 DEF Slice
  <2>8. CASE PingSkips(r) BY <2>8 DEF PingSkips, AfterPing
  <2>9. CASE PingWrites(r)
    <3>1. TypeOK' BY <2>9 DEF PingWrites
    <3>2. (OneClientUp /\ Registry)' BY <2>9 DEF PingWrites
    <3>3. (Assigned /\ Clocks)' BY <2>9 DEF PingWrites
    <3>4. QED BY <3>1, <3>2, <3>3 DEF Core, Inv
  <2>10. CASE Expire(r)
    <3>0. client[r] \in Clients BY <2>10 DEF Expire
    <3>1. TypeOK' BY <2>10, <3>0 DEF Expire, Leave
    <3>2. (OneClientUp /\ Registry)' BY <2>10 DEF Expire, Leave
    <3>3. (Assigned /\ Clocks)' BY <2>10 DEF Expire, Leave
    <3>4. QED BY <3>1, <3>2, <3>3 DEF Core, Inv
  <2>11. CASE JudgeWedged(r)
    <3>0. client[r] \in Clients BY <2>11 DEF JudgeWedged
    <3>1. TypeOK' BY <2>11, <3>0 DEF JudgeWedged, Leave
    <3>2. (OneClientUp /\ Registry)' BY <2>11 DEF JudgeWedged, Leave
    <3>3. (Assigned /\ Clocks)' BY <2>11 DEF JudgeWedged, Leave
    <3>4. QED BY <3>1, <3>2, <3>3 DEF Core, Inv
  <2>12. CASE CallerTeardown(r)
    <3>1. TypeOK' BY <2>12 DEF CallerTeardown, TeardownStep, After, AfterVerdict
    <3>2. (OneClientUp /\ Registry)' BY <2>12 DEF CallerTeardown, TeardownStep, After, AfterVerdict
    <3>3. (Assigned /\ Clocks)' BY <2>12 DEF CallerTeardown, TeardownStep, After, AfterVerdict
    <3>4. QED BY <3>1, <3>2, <3>3 DEF Core, Inv
  <2>13. CASE OneShot(r)
    <3>1. TypeOK' BY <2>13 DEF OneShot
    <3>2. (OneClientUp /\ Registry)' BY <2>13 DEF OneShot
    <3>3. (Assigned /\ Clocks)' BY <2>13 DEF OneShot
    <3>4. QED BY <3>1, <3>2, <3>3 DEF Core, Inv
  <2>14. QED BY <1>2, <2>1, <2>2, <2>3, <2>4, <2>5, <2>6, <2>7, <2>8, <2>9, <2>10, <2>11,
                <2>12, <2>13 DEF RequestStep
<1>3. ASSUME NEW r \in Requests, WriteStep(r) PROVE Core'
  <2>1. CASE WriteDone(r)
    <3>1. TypeOK' BY <2>1 DEF WriteDone
    <3>2. (OneClientUp /\ Registry)' BY <2>1 DEF WriteDone
    <3>0. /\ pc[r] = "writing" /\ pc' = [pc EXCEPT ![r] = "waiting"]
          /\ UNCHANGED <<latest, client, quiet>>
      BY <2>1 DEF WriteDone
    <3>3. (Assigned /\ Clocks)' BY <3>0
    <3>4. QED BY <3>1, <3>2, <3>3 DEF Core, Inv
  <2>2. CASE WriteFails(r) BY <2>2 DEF WriteFails
  <2>3. CASE PingDone(r) BY <2>3 DEF PingDone, AfterPing
  <2>4. QED BY <1>3, <2>1, <2>2, <2>3 DEF WriteStep
<1>4. ASSUME NEW c \in Clients, ReaderStep(c) PROVE Core'
  <2>1. CASE Hello(c) BY <2>1 DEF Hello
  <2>2. CASE OtherBytes(c) BY <2>2 DEF OtherBytes, StampBytes
  <2>3. CASE ReaderGivesUp(c) BY <2>3 DEF ReaderGivesUp
  <2>4. CASE ReaderTeardown(c) BY <2>4 DEF ReaderTeardown, TeardownStep, After
  <2>5. ASSUME NEW r \in Requests, Route(c, r) PROVE Core'
    BY <2>5 DEF Route, StampBytes
  <2>6. QED BY <1>4, <2>1, <2>2, <2>3, <2>4, <2>5 DEF ReaderStep
<1>5. ASSUME NEW c \in Clients, FarStep(c) PROVE Core'
  <2>1. ASSUME NEW r \in Requests, FarRuns(c, r) PROVE Core' BY <2>1 DEF FarRuns
  <2>2. ASSUME NEW to \in {"wedged", "dead"}, ChildChanges(c, to) PROVE Core'
    BY <2>2 DEF ChildChanges
  <2>3. QED BY <1>5, <2>1, <2>2 DEF FarStep
<1>6. CASE CooldownPasses BY <1>6 DEF CooldownPasses
<1>7. CASE UNCHANGED vars BY <1>7 DEF vars
<1>8. QED BY <1>1, <1>2, <1>3, <1>4, <1>5, <1>6, <1>7 DEF Next

-----------------------------------------------------------------------------
(* Second layer: only a write that was completed reaches the far end, and  *)
(* only OneShot and FarRuns run anything.                                  *)

LEMMA RunsInit == Init => Runs
BY DEF Init, Runs, AtMostOnce

LEMMA RunsStep == Core /\ Runs /\ [Next]_vars => Runs'
<1> SUFFICES ASSUME Core, Runs, [Next]_vars PROVE Runs' OBVIOUS
<1> USE DEF Core, Inv, TypeOK, Assigned, Apart, Runs, AtMostOnce, NotSent, Teardown, Goto,
            Clients, registryVars, farVars, clockVars, clientVars, callVars
<1>1. ASSUME NEW r \in Requests, Call(r) PROVE Runs'
  <2>1. CASE CallReady(r) BY <2>1 DEF CallReady
  <2>2. CASE UNCHANGED farVars /\ Unavailable(r) /\ pc[r] = "idle"
    BY <2>2 DEF Unavailable
  <2>3. QED
    BY <1>1, <2>1, <2>2
    DEF Call, CallStarting, CallFoundDown, CallCooling, CallSpawns, Unavailable
<1>2. ASSUME NEW r \in Requests, RequestStep(r) PROVE Runs'
  <2>1. CASE Check(r) BY <2>1 DEF Check, AfterVerdict
  <2>2. CASE Insert(r) BY <2>2 DEF Insert
  <2>3. CASE LockStdin(r) BY <2>3 DEF LockStdin
  <2>4. CASE Unwritten(r) BY <2>4 DEF Unwritten
  <2>5. CASE Receive(r) BY <2>5 DEF Receive, Leave
  <2>6. CASE Disconnected(r) BY <2>6 DEF Disconnected, Leave
  <2>7. ASSUME NEW starved \in BOOLEAN, Slice(r, starved) PROVE Runs'
    BY <2>7 DEF Slice
  <2>8. CASE PingSkips(r) BY <2>8 DEF PingSkips, AfterPing
  <2>9. CASE PingWrites(r) BY <2>9 DEF PingWrites
  <2>10. CASE Expire(r) BY <2>10 DEF Expire, Leave
  <2>11. CASE JudgeWedged(r) BY <2>11 DEF JudgeWedged, Leave
  <2>12. CASE CallerTeardown(r) BY <2>12 DEF CallerTeardown, After, AfterVerdict
  <2>13. CASE OneShot(r) BY <2>13 DEF OneShot
  <2>14. QED BY <1>2, <2>1, <2>2, <2>3, <2>4, <2>5, <2>6, <2>7, <2>8, <2>9, <2>10, <2>11,
                <2>12, <2>13 DEF RequestStep
<1>3. ASSUME NEW r \in Requests, WriteStep(r) PROVE Runs'
  <2>1. CASE WriteDone(r) BY <2>1 DEF WriteDone
  <2>2. CASE WriteFails(r) BY <2>2 DEF WriteFails
  <2>3. CASE PingDone(r) BY <2>3 DEF PingDone, AfterPing
  <2>4. QED BY <1>3, <2>1, <2>2, <2>3 DEF WriteStep
<1>4. ASSUME NEW c \in Clients, ReaderStep(c) PROVE Runs'
  <2>1. UNCHANGED <<inbox, runs, pc, client, verdict>>
    BY <1>4 DEF ReaderStep, Hello, OtherBytes, ReaderGivesUp, ReaderTeardown, Route
  <2>2. QED BY <2>1
<1>5. ASSUME NEW c \in Clients, FarStep(c) PROVE Runs'
  <2>1. ASSUME NEW r \in Requests, FarRuns(c, r) PROVE Runs' BY <2>1 DEF FarRuns
  <2>2. ASSUME NEW to \in {"wedged", "dead"}, ChildChanges(c, to) PROVE Runs'
    BY <2>2 DEF ChildChanges
  <2>3. QED BY <1>5, <2>1, <2>2 DEF FarStep
<1>6. CASE CooldownPasses BY <1>6 DEF CooldownPasses
<1>7. CASE UNCHANGED vars BY <1>7 DEF vars
<1>8. QED BY <1>1, <1>2, <1>3, <1>4, <1>5, <1>6, <1>7 DEF Next

-----------------------------------------------------------------------------
(* Third layer: a thread stays among those that will clear until it has,   *)
(* and then nothing is parked.                                             *)

LEMMA DropsInit == Init => Drops
BY DEF Init, Drops, ClosedFirst, Cleared, Waiting

(* A request moves on without entering or leaving the ranks of those that  *)
(* will clear, and without coming to wait with a sender parked.            *)
LEMMA RequestMoves ==
    ASSUME Core, Drops, NEW r \in Requests, NEW p,
           pc' = [pc EXCEPT ![r] = p],
           UNCHANGED <<client, down, stdin, reader>>,
           p # "clear", pc[r] \in Clearing => p \in Clearing,
           \A c \in Clients, q \in Requests : q # r /\ q \in pending'[c] => q \in pending[c],
           p \in Sending => pc[r] \in Sending
              /\ (r \in pending'[client[r]] => r \in pending[client[r]])
    PROVE  Drops'
<1> USE DEF Core, Inv, TypeOK, Assigned, Apart, Clearing, Sending, Teardown, Waiting
<1>1. ASSUME NEW c \in Clients, WillClear(c) PROVE WillClear(c)' BY <1>1 DEF WillClear
<1>2. ClosedFirst' BY DEF Drops, ClosedFirst
<1>3. ASSUME NEW c \in Clients, down'[c], stdin'[c] = "open" PROVE WillClear(c)'
  BY <1>1, <1>3 DEF Drops, Cleared
<1>4. ASSUME NEW q \in Requests, (pc[q] = "writing" \/ Waiting(q))',
             q \in pending'[client'[q]], down'[client'[q]]
      PROVE  WillClear(client[q])'
  <2>1. pc[q] \in Sending /\ client[q] \in Clients BY <1>4
  <2>2. q \in pending[client[q]] BY <1>4, <2>1
  <2>3. WillClear(client[q]) BY <1>4, <2>1, <2>2 DEF Drops, Cleared
  <2>4. QED BY <1>1, <2>1, <2>3
<1>5. Cleared'
  <2>1. client' = client OBVIOUS
  <2>2. QED BY <1>3, <1>4, <2>1 DEF Cleared, WillClear
<1>6. QED BY <1>2, <1>5 DEF Drops

(* A step of mark_down, by whichever thread, that is not the last.         *)
LEMMA StepOfTeardown ==
    ASSUME Core, Drops, NEW c \in Clients, NEW step \in Teardown, TeardownStep(step, c),
           UNCHANGED client,
           \A d \in Clients : d # c /\ WillClear(d) => WillClear(d)',
           step # "clear" => WillClear(c)',
           \A r \in Requests : (pc[r] = "writing" \/ Waiting(r))' =>
               pc[r] = "writing" \/ Waiting(r),
           \A r \in Requests : pc'[r] = "clear" =>
               pc[r] = "clear" \/ (step = "close" /\ client[r] = c),
           \A d \in Clients : reader'[d] = "clear" =>
               reader[d] = "clear" \/ (step = "close" /\ d = c),
           step = "clear" => stdin[c] = "closed"
    PROVE  Drops'
<1> USE DEF Core, Inv, TypeOK, Assigned, Apart, Teardown, TeardownStep
<1>1. \A d \in Clients : stdin[d] = "closed" => stdin'[d] = "closed" OBVIOUS
<1>2. step = "close" => stdin'[c] = "closed" OBVIOUS
<1>3. ClosedFirst'
  <2>1. \A r \in Requests : pc[r] = "clear" => client[r] \in Clients OBVIOUS
  <2>2. QED BY <1>1, <1>2, <2>1 DEF Drops, ClosedFirst
<1>4. ASSUME NEW d \in Clients, down'[d], stdin'[d] = "open" PROVE WillClear(d)'
  <2>1. CASE d = c BY <1>1, <1>4, <2>1
  <2>2. CASE d # c BY <1>4, <2>2 DEF Drops, Cleared
  <2>3. QED BY <2>1, <2>2
<1>5. ASSUME NEW q \in Requests, (pc[q] = "writing" \/ Waiting(q))',
             q \in pending'[client[q]], down'[client[q]]
      PROVE  WillClear(client[q])'
  <2>1. (pc[q] = "writing" \/ Waiting(q)) /\ client[q] \in Clients BY <1>5 DEF Waiting
  <2>2. CASE client[q] = c
    <3>1. step # "clear" BY <1>5, <2>1, <2>2
    <3>2. WillClear(c)' BY <3>1
    <3>3. QED BY <2>2, <3>2
  <2>3. CASE client[q] # c
    <3>1. down[client[q]] /\ q \in pending[client[q]] BY <1>5, <2>1, <2>3
    <3>2. WillClear(client[q]) BY <2>1, <3>1 DEF Drops, Cleared
    <3>3. QED BY <2>1, <2>3, <3>2
  <2>4. QED BY <2>2, <2>3
<1>6. Cleared' BY <1>4, <1>5 DEF Cleared, WillClear
<1>7. QED BY <1>3, <1>6 DEF Drops

LEMMA DropsStep == Core /\ Drops /\ [Next]_vars => Drops'
<1> SUFFICES ASSUME Core, Drops, [Next]_vars PROVE Drops' OBVIOUS
<1>0. MaxClients \in Nat BY HelperAssumption DEF HelperAssumption
<1> USE <1>0 DEF Core, Inv, TypeOK, Assigned, Apart, Clearing, Sending, Teardown, Goto,
            Clients, registryVars, farVars, clockVars, clientVars, callVars
<1>1. ASSUME NEW r \in Requests, Call(r) PROVE Drops'
  <2>1. CASE CallReady(r)
    <3>1. /\ pc[r] = "idle" /\ pc' = [pc EXCEPT ![r] = "check"]
          /\ client' = [client EXCEPT ![r] = latest] /\ UNCHANGED clientVars
      BY <2>1 DEF CallReady
    <3>2. \A q \in Requests : q # r => client'[q] = client[q] /\ pc'[q] = pc[q] BY <3>1
    <3>3. ASSUME NEW c \in Clients, WillClear(c) PROVE WillClear(c)'
      BY <3>1, <3>2, <3>3 DEF WillClear
    <3>4. ClosedFirst' BY <3>1, <3>2 DEF Drops, ClosedFirst
    <3>5. ASSUME NEW q \in Requests, (pc[q] = "writing" \/ Waiting(q))',
                 (q \in pending[client[q]] /\ down[client[q]])'
          PROVE  WillClear(client[q])'
      <4>1. q # r BY <3>1, <3>5 DEF Waiting
      <4>2. /\ client'[q] = client[q] /\ client[q] \in Clients
            /\ pc[q] = "writing" \/ Waiting(q)
        BY <3>2, <3>5, <4>1 DEF Waiting
      <4>3. WillClear(client[q]) BY <3>1, <3>5, <4>2 DEF Drops, Cleared
      <4>4. PICK d \in Clients : d = client[q] /\ d = client'[q] BY <4>2
      <4>5. WillClear(d) BY <4>3, <4>4 DEF WillClear
      <4>6. WillClear(d)' BY <3>3, <4>5
      <4>7. QED BY <4>4, <4>6 DEF WillClear
    <3>6. Cleared' BY <3>1, <3>3, <3>5 DEF Drops, Cleared
    <3>7. QED BY <3>4, <3>6 DEF Drops
  <2>2. CASE UNCHANGED clientVars /\ Unavailable(r) /\ pc[r] = "idle"
    <3>1. PICK p \in {"oneshot", "idle"} : pc' = [pc EXCEPT ![r] = p]
      BY <2>2 DEF Unavailable
    <3>2. UNCHANGED <<client, down, stdin, reader, pending>> BY <2>2 DEF Unavailable
    <3>3. QED BY <2>2, <3>1, <3>2, RequestMoves
  <2>3. ASSUME NEW launched \in BOOLEAN, CallSpawns(r, launched) PROVE Drops'
    <3> DEFINE n == latest + 1
    <3>1. n \in Clients BY <2>3 DEF CallSpawns
    <3>2. PICK p \in {"oneshot", "idle"} : pc' = [pc EXCEPT ![r] = p] /\ pc[r] = "idle"
      BY <2>3 DEF CallSpawns, Unavailable
    <3>3. UNCHANGED <<client, pending>> BY <2>3 DEF CallSpawns, Unavailable
    <3>4. /\ reader'[n] \notin Teardown
          /\ \A c \in Clients : c # n => /\ down'[c] = down[c] /\ stdin'[c] = stdin[c]
                                         /\ reader'[c] = reader[c]
      BY <2>3, <3>1 DEF CallSpawns
    <3>5. ~down'[n] \/ stdin'[n] = "closed"
      BY <2>3, <3>1 DEF CallSpawns, Registry
    <3>6. \A q \in Requests : client[q] # n /\ client'[q] = client[q]
      BY <3>1, <3>3
    <3> HIDE DEF n
    <3>7. ASSUME NEW c \in Clients, c # n, WillClear(c) PROVE WillClear(c)'
      BY <3>2, <3>3, <3>4, <3>7 DEF WillClear
    <3>8. ClosedFirst'
      <4>1. ASSUME NEW q \in Requests, pc'[q] = "clear" PROVE stdin'[client'[q]] = "closed"
        <5>1. pc[q] = "clear" /\ client[q] \in Clients BY <3>2, <4>1
        <5>2. QED BY <3>4, <3>6, <5>1 DEF Drops, ClosedFirst
      <4>2. ASSUME NEW c \in Clients, reader'[c] = "clear" PROVE stdin'[c] = "closed"
        BY <3>4, <4>2 DEF Drops, ClosedFirst
      <4>3. QED BY <4>1, <4>2 DEF ClosedFirst
    <3>9. ASSUME NEW c \in Clients, down'[c], stdin'[c] = "open" PROVE WillClear(c)'
      BY <3>4, <3>5, <3>7, <3>9 DEF Drops, Cleared
    <3>10. ASSUME NEW q \in Requests, (pc[q] = "writing" \/ Waiting(q))',
                  (q \in pending[client[q]] /\ down[client[q]])'
           PROVE  WillClear(client[q])'
      <4>1. /\ client'[q] = client[q] /\ client[q] \in Clients /\ client[q] # n
            /\ pc[q] = "writing" \/ Waiting(q)
        BY <3>2, <3>6, <3>10 DEF Waiting
      <4>2. WillClear(client[q]) BY <3>3, <3>4, <3>10, <4>1 DEF Drops, Cleared
      <4>3. QED BY <3>3, <3>7, <4>1, <4>2 DEF WillClear
    <3>11. QED BY <3>8, <3>9, <3>10 DEF Drops, Cleared
  <2>4. QED
    BY <1>1, <2>1, <2>2, <2>3
    DEF Call, CallStarting, CallFoundDown, CallCooling
<1>2. ASSUME NEW r \in Requests, RequestStep(r) PROVE Drops'
  <2>1. CASE Check(r)
    <3>1. PICK p \in {"insert", "oneshot", "done"} : pc' = [pc EXCEPT ![r] = p]
      BY <2>1 DEF Check, AfterVerdict
    <3>2. /\ pc[r] = "check" /\ UNCHANGED <<client, down, stdin, reader>>
          /\ \A c \in Clients, q \in Requests : q # r /\ q \in pending'[c] => q \in pending[c]
      BY <2>1 DEF Check, AfterVerdict
    <3>3. QED BY <3>1, <3>2, RequestMoves
  <2>2. CASE Insert(r)
    <3>1. PICK p \in {"lock"} : pc' = [pc EXCEPT ![r] = p] BY <2>2 DEF Insert
    <3>2. /\ pc[r] = "insert" /\ UNCHANGED <<client, down, stdin, reader>>
          /\ \A c \in Clients, q \in Requests : q # r /\ q \in pending'[c] => q \in pending[c]
      BY <2>2 DEF Insert
    <3>3. QED BY <3>1, <3>2, RequestMoves
  <2>3. CASE LockStdin(r)
    <3>1. CASE stdin[client[r]] = "open"
      <4>1. /\ pc[r] = "lock" /\ pc' = [pc EXCEPT ![r] = "writing"]
            /\ UNCHANGED <<client, down, stdin, reader, pending>>
        BY <2>3, <3>1 DEF LockStdin
      <4>2. ASSUME NEW c \in Clients, WillClear(c) PROVE WillClear(c)'
        BY <4>1, <4>2 DEF WillClear
      <4>3. ASSUME NEW q \in Requests, (pc[q] = "writing" \/ Waiting(q))',
                   (q \in pending[client[q]] /\ down[client[q]])'
            PROVE  WillClear(client[q])'
        <5>1. client[q] \in Clients BY <4>1, <4>3 DEF Waiting
        <5>2. WillClear(client[q])
          BY <3>1, <4>1, <4>3, <5>1 DEF Drops, Cleared, Waiting
        <5>3. QED BY <4>1, <4>2, <5>1, <5>2 DEF WillClear
      <4>4. ClosedFirst' BY <4>1 DEF Drops, ClosedFirst
      <4>5. QED BY <4>1, <4>2, <4>3, <4>4 DEF Drops, Cleared
    <3>2. CASE stdin[client[r]] # "open"
      <4>1. /\ pc[r] = "lock" /\ pc' = [pc EXCEPT ![r] = "unwritten"]
            /\ UNCHANGED <<client, down, stdin, reader, pending>>
        BY <2>3, <3>2 DEF LockStdin
      <4>2. QED BY <4>1, RequestMoves
    <3>3. QED BY <3>1, <3>2
  <2>4. CASE Unwritten(r)
    <3>1. PICK p \in {"down"} : pc' = [pc EXCEPT ![r] = p] BY <2>4 DEF Unwritten
    <3>2. /\ pc[r] = "unwritten" /\ UNCHANGED <<client, down, stdin, reader>>
          /\ \A c \in Clients, q \in Requests : q # r /\ q \in pending'[c] => q \in pending[c]
      BY <2>4 DEF Unwritten
    <3>3. QED BY <3>1, <3>2, RequestMoves
  <2>5. CASE Receive(r)
    <3>1. PICK p \in {"done"} : pc' = [pc EXCEPT ![r] = p] BY <2>5 DEF Receive, Leave
    <3>2. /\ pc[r] = "waiting" /\ UNCHANGED <<client, down, stdin, reader>>
          /\ \A c \in Clients, q \in Requests : q # r /\ q \in pending'[c] => q \in pending[c]
      BY <2>5 DEF Receive, Leave
    <3>3. QED BY <3>1, <3>2, RequestMoves
  <2>6. CASE Disconnected(r)
    <3>1. PICK p \in {"done"} : pc' = [pc EXCEPT ![r] = p] BY <2>6 DEF Disconnected, Leave
    <3>2. /\ pc[r] = "waiting" /\ UNCHANGED <<client, down, stdin, reader>>
          /\ \A c \in Clients, q \in Requests : q # r /\ q \in pending'[c] => q \in pending[c]
      BY <2>6 DEF Disconnected, Leave
    <3>3. QED BY <3>1, <3>2, RequestMoves
  <2>7. ASSUME NEW starved \in BOOLEAN, Slice(r, starved) PROVE Drops'
    <3>1. PICK p \in {"wedged", "ping"} : pc' = [pc EXCEPT ![r] = p] BY <2>7 DEF Slice
    <3>2. pc[r] = "waiting" /\ UNCHANGED <<client, down, stdin, reader, pending>>
      BY <2>7 DEF Slice
    <3>3. QED BY <3>1, <3>2, RequestMoves
  <2>8. CASE PingSkips(r)
    <3>1. PICK p \in {"expired", "waiting"} : pc' = [pc EXCEPT ![r] = p]
      BY <2>8 DEF PingSkips, AfterPing
    <3>2. pc[r] = "ping" /\ UNCHANGED <<client, down, stdin, reader, pending>>
      BY <2>8 DEF PingSkips, AfterPing
    <3>3. QED BY <3>1, <3>2, RequestMoves
  <2>9. CASE PingWrites(r)
    <3>1. PICK p \in {"pinging"} : pc' = [pc EXCEPT ![r] = p] BY <2>9 DEF PingWrites
    <3>2. pc[r] = "ping" /\ UNCHANGED <<client, down, stdin, reader, pending>>
      BY <2>9 DEF PingWrites
    <3>3. QED BY <3>1, <3>2, RequestMoves
  <2>10. CASE Expire(r)
    <3>1. PICK p \in {"done"} : pc' = [pc EXCEPT ![r] = p] BY <2>10 DEF Expire, Leave
    <3>2. /\ pc[r] = "expired" /\ UNCHANGED <<client, down, stdin, reader>>
          /\ \A c \in Clients, q \in Requests : q # r /\ q \in pending'[c] => q \in pending[c]
      BY <2>10 DEF Expire, Leave
    <3>3. QED BY <3>1, <3>2, RequestMoves
  <2>11. CASE JudgeWedged(r)
    <3>1. PICK p \in {"down"} : pc' = [pc EXCEPT ![r] = p] BY <2>11 DEF JudgeWedged, Leave
    <3>2. /\ pc[r] = "wedged" /\ UNCHANGED <<client, down, stdin, reader>>
          /\ \A c \in Clients, q \in Requests : q # r /\ q \in pending'[c] => q \in pending[c]
      BY <2>11 DEF JudgeWedged, Leave
    <3>3. QED BY <3>1, <3>2, RequestMoves
  <2>12. CASE CallerTeardown(r)
    <3>1. /\ pc[r] \in Teardown /\ client[r] \in Clients /\ TeardownStep(pc[r], client[r])
          /\ UNCHANGED <<client, reader>>
      BY <2>12 DEF CallerTeardown
    <3>2. PICK p \in {"kill", "close", "clear", "oneshot", "done"} :
            /\ pc' = [pc EXCEPT ![r] = p]
            /\ pc[r] # "clear" => p \in {"kill", "close", "clear"}
            /\ p = "clear" => pc[r] = "close"
      BY <2>12, <3>1 DEF CallerTeardown, After, AfterVerdict
    <3>3. \A d \in Clients : d # client[r] /\ WillClear(d) => WillClear(d)'
      BY <3>1, <3>2 DEF WillClear
    <3>4. pc[r] # "clear" => WillClear(client[r])' BY <3>1, <3>2 DEF WillClear
    <3>5. \A q \in Requests : (pc[q] = "writing" \/ Waiting(q))' => pc[q] = "writing" \/ Waiting(q)
      BY <3>2 DEF Waiting
    <3>6. \A q \in Requests : pc'[q] = "clear" =>
             pc[q] = "clear" \/ (pc[r] = "close" /\ client[q] = client[r])
      BY <3>2
    <3>7. pc[r] = "clear" => stdin[client[r]] = "closed" BY DEF Drops, ClosedFirst
    <3> HIDE DEF Core, Inv, TypeOK, Assigned
    <3>8. QED BY <3>1, <3>3, <3>4, <3>5, <3>6, <3>7, StepOfTeardown
  <2>13. CASE OneShot(r)
    <3>1. PICK p \in {"done"} : pc' = [pc EXCEPT ![r] = p] BY <2>13 DEF OneShot
    <3>2. pc[r] = "oneshot" /\ UNCHANGED <<client, down, stdin, reader, pending>>
      BY <2>13 DEF OneShot
    <3>3. QED BY <3>1, <3>2, RequestMoves
  <2>14. QED BY <1>2, <2>1, <2>2, <2>3, <2>4, <2>5, <2>6, <2>7, <2>8, <2>9, <2>10, <2>11,
                <2>12, <2>13 DEF RequestStep
<1>3. ASSUME NEW r \in Requests, WriteStep(r) PROVE Drops'
  <2>1. CASE WriteDone(r)
    <3>1. PICK p \in {"waiting"} : pc' = [pc EXCEPT ![r] = p] BY <2>1 DEF WriteDone
    <3>2. pc[r] = "writing" /\ UNCHANGED <<client, down, stdin, reader, pending>>
      BY <2>1 DEF WriteDone
    <3>3. QED BY <3>1, <3>2, RequestMoves
  <2>2. CASE WriteFails(r)
    <3>1. PICK p \in {"unwritten"} : pc' = [pc EXCEPT ![r] = p] BY <2>2 DEF WriteFails
    <3>2. pc[r] = "writing" /\ UNCHANGED <<client, down, stdin, reader, pending>>
      BY <2>2 DEF WriteFails
    <3>3. QED BY <3>1, <3>2, RequestMoves
  <2>3. CASE PingDone(r)
    <3>1. PICK p \in {"expired", "waiting"} : pc' = [pc EXCEPT ![r] = p]
      BY <2>3 DEF PingDone, AfterPing
    <3>2. pc[r] = "pinging" /\ UNCHANGED <<client, down, stdin, reader, pending>>
      BY <2>3 DEF PingDone, AfterPing
    <3>3. QED BY <3>1, <3>2, RequestMoves
  <2>4. QED BY <1>3, <2>1, <2>2, <2>3 DEF WriteStep
<1>4. ASSUME NEW c \in Clients, ReaderStep(c) PROVE Drops'
  <2>1. CASE Hello(c) \/ OtherBytes(c) \/ ReaderGivesUp(c) \/ \E r \in Requests : Route(c, r)
    <3>1. /\ UNCHANGED <<client, down, stdin, pc>>
          /\ \A d \in Clients : pending'[d] \subseteq pending[d]
          /\ \A d \in Clients : reader'[d] = reader[d]
                                \/ (reader[d] \notin Teardown /\ reader'[d] # "clear")
      BY <2>1 DEF Hello, OtherBytes, ReaderGivesUp, Route
    <3>2. ASSUME NEW d \in Clients, WillClear(d) PROVE WillClear(d)'
      BY <3>1, <3>2 DEF WillClear
    <3>3. ClosedFirst' BY <3>1 DEF Drops, ClosedFirst
    <3>4. ASSUME NEW q \in Requests, (pc[q] = "writing" \/ Waiting(q))',
                 (q \in pending[client[q]] /\ down[client[q]])'
          PROVE  WillClear(client[q])'
      <4>1. client[q] \in Clients /\ (pc[q] = "writing" \/ Waiting(q))
        BY <3>1, <3>4 DEF Waiting
      <4>2. WillClear(client[q]) BY <3>1, <3>4, <4>1 DEF Drops, Cleared
      <4>3. QED BY <3>1, <3>2, <4>1, <4>2 DEF WillClear
    <3>5. QED BY <3>1, <3>2, <3>3, <3>4 DEF Drops, Cleared
  <2>2. CASE ReaderTeardown(c)
    <3>1. reader[c] \in Teardown /\ TeardownStep(reader[c], c) /\ UNCHANGED <<client, pc>>
      BY <2>2 DEF ReaderTeardown
    <3>2. PICK p \in {"kill", "close", "clear", "gone"} :
            /\ reader' = [reader EXCEPT ![c] = p]
            /\ reader[c] # "clear" => p \in {"kill", "close", "clear"}
            /\ p = "clear" => reader[c] = "close"
      BY <2>2, <3>1 DEF ReaderTeardown, After
    <3>3. \A d \in Clients : d # c /\ WillClear(d) => WillClear(d)'
      BY <3>1, <3>2 DEF WillClear
    <3>4. reader[c] # "clear" => WillClear(c)' BY <3>1, <3>2 DEF WillClear
    <3>5. \A q \in Requests : (pc[q] = "writing" \/ Waiting(q))' => pc[q] = "writing" \/ Waiting(q)
      BY <3>1 DEF Waiting
    <3>6. \A d \in Clients : reader'[d] = "clear" =>
             reader[d] = "clear" \/ (reader[c] = "close" /\ d = c)
      BY <3>2
    <3>7. reader[c] = "clear" => stdin[c] = "closed" BY DEF Drops, ClosedFirst
    <3> HIDE DEF Core, Inv, TypeOK, Assigned
    <3>8. QED BY <3>1, <3>3, <3>4, <3>5, <3>6, <3>7, StepOfTeardown
  <2>3. QED BY <1>4, <2>1, <2>2 DEF ReaderStep
<1>5. ASSUME UNCHANGED <<pc, client, down, stdin, pending, reader>> PROVE Drops'
  BY <1>5 DEF Drops, ClosedFirst, Cleared, WillClear, Waiting
<1>6. ASSUME NEW c \in Clients, FarStep(c) PROVE Drops'
  BY <1>5, <1>6 DEF FarStep, FarRuns, ChildChanges
<1>7. CASE CooldownPasses BY <1>5, <1>7 DEF CooldownPasses
<1>8. CASE UNCHANGED vars BY <1>5, <1>8 DEF vars
<1>9. QED BY <1>1, <1>2, <1>3, <1>4, <1>6, <1>7, <1>8 DEF Next

-----------------------------------------------------------------------------
LEMMA Inductive == Spec => []IInv
<1>1. Init => IInv BY CoreInit, RunsInit, DropsInit DEF IInv
<1>2. IInv /\ [Next]_vars => IInv' BY CoreStep, RunsStep, DropsStep DEF IInv
<1>3. QED BY <1>1, <1>2, PTL DEF Spec

(* There is never a second helper beside one that starts or serves:        *)
(* client() launches only after it found the last one down.                *)
THEOREM OneHelper == Spec => []Inv
<1>1. IInv => Inv BY DEF IInv, Core
<1>2. QED BY <1>1, Inductive, PTL

(* No script runs twice, at the far end and as a one-shot together,        *)
(* whenever the helper dies or stalls (TransportError, run_batch).         *)
THEOREM RunsAtMostOnce == Spec => []AtMostOnce
<1>1. IInv => AtMostOnce BY DEF IInv, Runs
<1>2. QED BY <1>1, Inductive, PTL

(* A request is never left waiting on a client that was torn down          *)
(* (mark_down against a request between its insert and its write).         *)
THEOREM NobodyOrphaned == Spec => []NoOrphanWaiter
<1>1. IInv => NoOrphanWaiter BY DEF IInv, Drops, Cleared, NoOrphanWaiter
<1>2. QED BY <1>1, Inductive, PTL

-----------------------------------------------------------------------------
(* WslProbes.                                                              *)

(* A key nobody registered has left no trace with the poller, and only a   *)
(* registered one is in the cache.  (Keys are never used again.)           *)
Registered ==
    \A k \in Keys :
        /\ session[k] = "open" <=> cache[k] # "absent"
        /\ session[k] = "new" => k \notin todo /\ asking # k /\ told[k] = "unknown"

(* First layer: the probe cache.                                           *)
CacheInv == ProbesInv /\ Registered

(* Second layer: the sizes.  What is queued is the newest; so is what the  *)
(* writer has in hand, unless a newer one was queued meanwhile.            *)
InHand == phase # "idle" => sending \in Keys /\ batch[sending] # 0

QueueIsNewest ==
    \A k \in Keys :
        /\ sizes[k] \in {0, newest[k]}
        /\ batch[k] # 0 /\ sizes[k] = 0 => batch[k] = newest[k]
        /\ session[k] = "open" => newest[k] # 0

SizeInv == InHand /\ QueueIsNewest /\ NewestSizeKept

ProbesIInv == CacheInv /\ SizeInv

-----------------------------------------------------------------------------
(* First layer.                                                            *)

LEMMA CacheInit == ProbesInit => CacheInv
<1> SUFFICES ASSUME ProbesInit PROVE CacheInv OBVIOUS
<1>1. 0 \in 0..MaxSizes
  <2>1. MaxSizes \in Nat BY ProbesAssumption DEF ProbesAssumption
  <2>2. QED BY <2>1
<1> USE DEF ProbesInit
<1>2. ProbesTypeOK BY <1>1 DEF ProbesTypeOK, Comms
<1>3. NoGhostKeys /\ CacheIsLastReply BY DEF NoGhostKeys, CacheIsLastReply
<1>4. Registered BY ProbesAssumption DEF ProbesAssumption, Registered
<1>5. QED BY <1>2, <1>3, <1>4 DEF CacheInv, ProbesInv

(* The steps of the cell size writer touch nothing of the cache.           *)
LEMMA CacheSteady ==
    ASSUME CacheInv, ProbesTypeOK', UNCHANGED <<session, cacheVars>>
    PROVE  CacheInv'
BY DEF CacheInv, ProbesInv, NoGhostKeys, CacheIsLastReply, Registered, cacheVars

LEMMA WriterTypes ==
    ASSUME ProbesTypeOK, InHand, Writer
    PROVE  ProbesTypeOK' /\ UNCHANGED <<session, cacheVars>>
<1> USE ProbesAssumption
    DEF ProbesAssumption, ProbesTypeOK, InHand, Sequences, cacheVars, worldVars, Discharge
<1>1. CASE Drain BY <1>1 DEF Drain
<1>2. CASE Sent
  <2>1. sending \in Keys /\ batch[sending] \in 1..MaxSizes BY <1>2 DEF Sent
  <2>2. batch' \in [Keys -> 0..MaxSizes] BY <1>2, <2>1 DEF Sent
  <2>3. sent' \in SUBSET (1..MaxSizes) BY <1>2, <2>1 DEF Sent
  <2>4. scripts' \in SUBSET (Keys \X (1..MaxSizes))
    <3>1. <<sending, batch[sending]>> \in Keys \X (1..MaxSizes) BY <2>1, <2>2
    <3>2. scripts' = scripts \cup {<<sending, batch[sending]>>} BY <1>2 DEF Sent
    <3>3. QED BY <3>1, <3>2
  <2>5. QED BY <1>2, <2>2, <2>3, <2>4 DEF Sent
<1>3. CASE SendFails
  <2>1. sending \in Keys /\ batch[sending] \in 1..MaxSizes BY <1>3 DEF SendFails
  <2>2. batch' \in [Keys -> 0..MaxSizes] BY <1>3, <2>1 DEF SendFails
  <2>3. failed' \in SUBSET (1..MaxSizes) BY <1>3, <2>1 DEF SendFails
  <2>4. QED BY <1>3, <2>2, <2>3 DEF SendFails
<1>4. CASE PutBack
  <2>1. sending \in Keys /\ batch[sending] \in 1..MaxSizes BY <1>4 DEF PutBack
  <2>2. QED BY <1>4, <2>1 DEF PutBack
<1>5. ASSUME NEW k \in Keys, SendStarts(k) PROVE ProbesTypeOK' /\ UNCHANGED <<session, cacheVars>>
  BY <1>5 DEF SendStarts
<1>6. ASSUME NEW k \in Keys, Unsent(k) PROVE ProbesTypeOK' /\ UNCHANGED <<session, cacheVars>>
  BY <1>6 DEF Unsent
<1>7. QED BY <1>1, <1>2, <1>3, <1>4, <1>5, <1>6 DEF Writer

LEMMA CacheStep == CacheInv /\ InHand /\ [ProbesNext]_probesVars => CacheInv'
<1> SUFFICES ASSUME CacheInv, InHand, [ProbesNext]_probesVars PROVE CacheInv' OBVIOUS
<1> USE ProbesAssumption
    DEF ProbesAssumption, CacheInv, ProbesInv, ProbesTypeOK, NoGhostKeys,
        CacheIsLastReply, Registered,
        cacheVars, sizeVars, worldVars
<1>1. ASSUME NEW k \in Keys, SetCellSize(k)
      PROVE  /\ sequence' \in 0..MaxSizes
             /\ newest' \in [Keys -> 0..MaxSizes] /\ sizes' \in [Keys -> 0..MaxSizes]
             /\ UNCHANGED <<batch, sending, phase, sent, failed>>
  <2>1. sequence + 1 \in 0..MaxSizes BY <1>1 DEF SetCellSize
  <2>2. QED BY <1>1, <2>1 DEF SetCellSize
<1>2. ASSUME NEW k \in Keys, Attach(k) PROVE CacheInv'
  BY <1>1, <1>2 DEF Attach
<1>3. ASSUME NEW k \in Keys, Rescale(k) PROVE CacheInv'
  BY <1>1, <1>3 DEF Rescale
<1>4. ASSUME NEW k \in Keys, Close(k) PROVE CacheInv'
  BY <1>4 DEF Close
<1>5. CASE Snapshot BY <1>5 DEF Snapshot
<1>6. CASE PollAnswered
  <2>1. asking \in Keys /\ session[asking] # "new" BY <1>6 DEF PollAnswered
  <2>2. Reply(comm[asking]) \in {"unknown", "tui"} BY <2>1 DEF Reply, Comms
  <2>3. CASE cache[asking] = "absent" BY <1>6, <2>1, <2>2, <2>3 DEF PollAnswered
  <2>4. CASE cache[asking] # "absent" BY <1>6, <2>1, <2>2, <2>4 DEF PollAnswered
  <2>5. QED BY <2>3, <2>4
<1>7. CASE PollFails BY <1>7 DEF PollFails
<1>8. ASSUME NEW k \in Keys, PollUnavailable(k) \/ PollAsks(k) PROVE CacheInv'
  BY <1>8 DEF PollUnavailable, PollAsks
<1>9. CASE Writer BY <1>9, WriterTypes, CacheSteady
<1>10. CASE FarEnd
  <2>1. CASE HelperUp \/ HelperDown BY <2>1 DEF HelperUp, HelperDown
  <2>2. ASSUME NEW k \in Keys, NEW n \in Sequences, Watch(k, n) PROVE CacheInv'
    <3>1. n \in 0..MaxSizes /\ scripts' \in SUBSET (Keys \X Sequences)
      BY <2>2 DEF Watch, Sequences
    <3>2. watcher' \in [Keys -> 0..MaxSizes] BY <2>2, <3>1 DEF Watch
    <3>3. QED BY <2>2, <3>1, <3>2 DEF Watch
  <2>3. ASSUME NEW k \in Keys, NEW c \in Comms, Foreground(k, c) PROVE CacheInv'
    BY <2>3 DEF Foreground, Comms
  <2>4. QED BY <1>10, <2>1, <2>2, <2>3 DEF FarEnd
<1>11. CASE UNCHANGED probesVars BY <1>11 DEF probesVars
<1>12. QED
  BY <1>2, <1>3, <1>4, <1>5, <1>6, <1>7, <1>8, <1>9, <1>10, <1>11 DEF ProbesNext, UI, Poller

-----------------------------------------------------------------------------
(* Second layer.                                                           *)

LEMMA SizeInit == ProbesInit => SizeInv
BY DEF ProbesInit, SizeInv, InHand, QueueIsNewest, NewestSizeKept

LEMMA SizeSteady ==
    ASSUME SizeInv, UNCHANGED <<session, sizeVars>>
    PROVE  SizeInv'
BY DEF SizeInv, InHand, QueueIsNewest, NewestSizeKept, sizeVars

LEMMA SizeStep == CacheInv /\ SizeInv /\ [ProbesNext]_probesVars => SizeInv'
<1> SUFFICES ASSUME CacheInv, SizeInv, [ProbesNext]_probesVars PROVE SizeInv' OBVIOUS
<1> USE ProbesAssumption DEF ProbesAssumption, CacheInv, ProbesInv, ProbesTypeOK
<1>1. ASSUME NEW k \in Keys, SetCellSize(k),
             session' = [session EXCEPT ![k] = "open"]
      PROVE  SizeInv'
  BY <1>1 DEF SetCellSize, SizeInv, InHand, QueueIsNewest, NewestSizeKept
<1>2. ASSUME NEW k \in Keys, Attach(k) PROVE SizeInv'
  BY <1>1, <1>2 DEF Attach
<1>3. ASSUME NEW k \in Keys, Rescale(k) PROVE SizeInv'
  <2>1. session' = [session EXCEPT ![k] = "open"] BY <1>3 DEF Rescale
  <2>2. QED BY <1>1, <1>3, <2>1 DEF Rescale
<1>4. ASSUME NEW k \in Keys, Close(k) PROVE SizeInv'
  BY <1>4 DEF Close, SizeInv, InHand, QueueIsNewest, NewestSizeKept, sizeVars
<1>5. CASE Poller
  <2>1. UNCHANGED <<session, sizeVars>>
    BY <1>5 DEF Poller, Snapshot, PollAnswered, PollFails, PollUnavailable, PollAsks
  <2>2. QED BY <2>1, SizeSteady
<1>6. CASE FarEnd
  <2>1. UNCHANGED <<session, sizeVars>>
    BY <1>6 DEF FarEnd, HelperUp, HelperDown, Watch, Foreground
  <2>2. QED BY <2>1, SizeSteady
<1>7. CASE Writer
  <2> USE DEF SizeInv, InHand, QueueIsNewest, NewestSizeKept, Discharge, cacheVars, worldVars
  <2>1. CASE Drain BY <1>7, <2>1 DEF Drain, Idle
  <2>2. CASE Sent BY <2>2 DEF Sent
  <2>3. CASE SendFails BY <2>3 DEF SendFails
  <2>4. CASE PutBack BY <2>4 DEF PutBack
  <2>5. ASSUME NEW k \in Keys, SendStarts(k) PROVE SizeInv' BY <2>5 DEF SendStarts
  <2>6. ASSUME NEW k \in Keys, Unsent(k) PROVE SizeInv'
    BY <2>6 DEF Unsent, Registered
  <2>7. QED BY <1>7, <2>1, <2>2, <2>3, <2>4, <2>5, <2>6 DEF Writer
<1>8. CASE UNCHANGED probesVars BY <1>8, SizeSteady DEF probesVars
<1>9. QED BY <1>2, <1>3, <1>4, <1>5, <1>6, <1>7, <1>8 DEF ProbesNext, UI

-----------------------------------------------------------------------------
LEMMA ProbesInductive == ProbesSpec => []ProbesIInv
<1>1. ProbesInit => ProbesIInv BY CacheInit, SizeInit DEF ProbesIInv
<1>2. ProbesIInv /\ [ProbesNext]_probesVars => ProbesIInv'
  BY CacheStep, SizeStep DEF ProbesIInv, SizeInv
<1>3. QED BY <1>1, <1>2, PTL DEF ProbesSpec

(* A closed session's key never returns to the cache, whatever reply was   *)
(* on its way, and what the cache says is the helper's last reply          *)
(* (unregister_probe against the poller, wsl_helper.rs).                   *)
THEOREM CacheIsSound == ProbesSpec => []ProbesInv
<1>1. ProbesIInv => ProbesInv BY DEF ProbesIInv, CacheInv
<1>2. QED BY <1>1, ProbesInductive, PTL

(* The size a session has now is queued, in the writer's hands, or was     *)
(* tried, through every outage and every size put back (or_insert in the   *)
(* cell size writer, wsl_helper.rs).                                       *)
THEOREM NewestSizeIsKept == ProbesSpec => []NewestSizeKept
<1>1. ProbesIInv => NewestSizeKept BY DEF ProbesIInv, SizeInv
<1>2. QED BY <1>1, ProbesInductive, PTL
=============================================================================
