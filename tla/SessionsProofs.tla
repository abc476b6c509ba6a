--------------------------- MODULE SessionsProofs ---------------------------
(***************************************************************************)
(* Theorems of Sessions, for any set of sessions and templates and any     *)
(* number of inputs.                                                       *)
(***************************************************************************)
EXTENDS Sessions, SelectionLemmas

(* First layer: how far a session got, on the UI thread and in its worker. *)
LifeOf(s) ==
    /\ record[s] = "unopened" <=> opening[s] = "none"
    /\ record[s] = "pending" => s \in spawns
    /\ s \in spawns => record[s] \in {"pending", "gone"}
    /\ result[s] # "none" <=> s \in spawns /\ opening[s] = "done"
    /\ record[s] = "live" \/ result[s] = "attachment" =>
          opening[s] = "done" /\ loop[s] # "none"
    /\ opening[s] \in {"looped", "opened"} => loop[s] # "none"
    /\ opening[s] = "looped" => s \in claimed
    /\ opening[s] \in {"none", "queued"} => s \notin claimed

Lifecycle == \A s \in SessionIds : LifeOf(s)

(* Second layer: a shell is alive while its worker is about to start a     *)
(* loop for it, or while its loop runs; only a loop that runs holds        *)
(* messages; and NoStrayShell, its set of messages spelled out.            *)
Holds(q, m) == \E i \in 1..Len(q) : q[i] = m

ProcessOf(s) ==
    /\ opening[s] \in {"none", "queued"} => shell[s] = "none"
    /\ opening[s] \in {"none", "queued", "replenish", "opening"} => loop[s] = "none"
    /\ shell[s] = "alive" => opening[s] \in {"replenish", "opening"} \/ loop[s] = "running"
    /\ result[s] = "error" => shell[s] # "alive"
    /\ loop[s] # "running" => chan[s] = <<>> /\ writes[s] = <<>> /\ read[s] = <<>>
    /\ record[s] = "gone" /\ shell[s] = "alive" =>
          \/ opening[s] \in {"replenish", "opening", "looped", "opened"}
          \/ s \in spawns /\ result[s] = "attachment"
          \/ Holds(chan[s], Shutdown)

Processes == \A s \in SessionIds : ProcessOf(s)

(* Who launches a spare: before the pool closes, one thread at most, and   *)
(* the slot says so.                                                       *)
Launchers ==
    /\ closed => slot = "empty"
    /\ \A p, q \in SessionIds :
          ~closed /\ thread[p] # "none" =>
              slot = "launching" /\ (thread[q] # "none" => q = p)
    /\ \A p \in SessionIds :
          /\ spare[p] = "starting" => thread[p] = "launching"
          /\ spare[p] = "parked" => thread[p] = "filling" \/ slot = p

(* The types, by the thread that keeps the state.                          *)
UITypes ==
    /\ record \in [SessionIds -> {"unopened", "pending", "live", "gone"}]
    /\ launch \in [SessionIds -> Templates \cup {Cold}]
    /\ size \in [SessionIds -> Nat \ {0}]
    /\ typed \in [SessionIds -> Nat]
    /\ pending \in [SessionIds -> Seq(Msgs)]
    /\ quit \in BOOLEAN

JobTypes ==
    /\ spawns \in SUBSET SessionIds
    /\ opening \in [SessionIds ->
         {"none", "queued", "replenish", "opening", "looped", "opened", "done"}]
    /\ result \in [SessionIds -> {"none", "attachment", "error"}]
    /\ claimed \in SUBSET {s \in SessionIds : launch[s] # Cold}

LoopTypes ==
    /\ shell \in [SessionIds -> {"none", "alive", "exited", "dead"}]
    /\ ptySize \in [SessionIds -> Nat]
    /\ loop \in [SessionIds -> {"none", "running", "ended"}]
    /\ chan \in [SessionIds -> Seq(Msgs)]
    /\ writes \in [SessionIds -> Seq(Msgs)]
    /\ read \in [SessionIds -> Seq(Msgs)]

AskTypes == asks \in [SessionIds -> Nat] /\ inputs \in 0..MaxInputs

PoolTypes ==
    /\ slot \in {"empty", "launching"} \cup SessionIds
    /\ closed \in BOOLEAN
    /\ thread \in [SessionIds -> {"none", "launching", "filling", "abandoning"}]
    /\ spare \in [SessionIds -> {"none", "starting", "parked", "exited"}]

Types == UITypes /\ JobTypes /\ LoopTypes /\ AskTypes /\ PoolTypes

-----------------------------------------------------------------------------
(* Messages.                                                               *)

LEMMA MessageTypes ==
    /\ SpareLine \in Msgs /\ Reply \in Msgs /\ Shutdown \in Msgs
    /\ \A z \in Nat : Resize(z) \in Msgs
    /\ \A k \in Nat, z \in Nat : Msg("key", k, z) \in Msgs
BY DEF SpareLine, Reply, Shutdown, Resize, Msg, Msgs, Kinds

LEMMA PostTypes ==
  ASSUME LoopTypes, NEW out, \A s \in SessionIds : out[s] \in Seq(Msgs), Post(out)
  PROVE  chan' \in [SessionIds -> Seq(Msgs)]
BY DEF LoopTypes, Post

LEMMA WriteTypes ==
  ASSUME LoopTypes, UITypes, NEW out, \A s \in SessionIds : out[s] \in Seq(Msgs), Write(out)
  PROVE  /\ chan' \in [SessionIds -> Seq(Msgs)]
         /\ pending' \in [SessionIds -> Seq(Msgs)]
<1>1. pending' \in [SessionIds -> Seq(Msgs)]
  <2>1. \A s \in SessionIds : pending[s] \in Seq(Msgs) /\ pending[s] \o out[s] \in Seq(Msgs)
    BY DEF UITypes
  <2>2. QED BY <2>1 DEF Write
<1> DEFINE sent == [s \in SessionIds |-> IF record[s] = "live" THEN out[s] ELSE <<>>]
<1>2. Post(sent) BY DEF Write
<1>3. \A s \in SessionIds : sent[s] \in Seq(Msgs) OBVIOUS
<1> HIDE DEF sent
<1>4. QED BY <1>1, <1>2, <1>3, PostTypes

LEMMA PostToTypes ==
  ASSUME LoopTypes, NEW s \in SessionIds, NEW ms \in Seq(Msgs), PostTo(s, ms)
  PROVE  /\ chan' \in [SessionIds -> Seq(Msgs)]
         /\ \A t \in SessionIds :
              chan'[t] = IF t = s /\ loop[s] = "running" THEN chan[s] \o ms ELSE chan[t]
<1> DEFINE out == [t \in SessionIds |-> IF t = s THEN ms ELSE <<>>]
<1>1. \A t \in SessionIds : chan[t] \in Seq(Msgs) /\ chan[t] \o <<>> = chan[t]
  BY DEF LoopTypes
<1>2. chan' = [t \in SessionIds |-> IF loop[t] = "running" THEN chan[t] \o out[t] ELSE chan[t]]
  BY DEF PostTo, Post
<1>3. \A t \in SessionIds :
        chan'[t] = IF t = s /\ loop[s] = "running" THEN chan[s] \o ms ELSE chan[t]
  BY <1>1, <1>2
<1>4. chan[s] \o ms \in Seq(Msgs) BY <1>1
<1>5. QED BY <1>1, <1>2, <1>3, <1>4

-----------------------------------------------------------------------------
(* Types.                                                                  *)

LEMMA TypesAre == TypeOK <=> Types
BY DEF TypeOK, Types, UITypes, JobTypes, LoopTypes, AskTypes, PoolTypes

LEMMA TypesInit == Init => Types
<1> SUFFICES ASSUME Init PROVE Types OBVIOUS
<1>1. 0 \in 0..MaxInputs
  <2>1. MaxInputs \in Nat BY SessionsAssumption DEF SessionsAssumption
  <2>2. QED BY <2>1
<1>2. UITypes
  <2>1. 1 \in Nat \ {0} /\ <<>> \in Seq(Msgs) OBVIOUS
  <2>2. size \in [SessionIds -> Nat \ {0}] BY <2>1 DEF Init
  <2>3. QED BY <2>1, <2>2 DEF Init, UITypes
<1>3. JobTypes BY DEF Init, JobTypes
<1>4. LoopTypes BY DEF Init, LoopTypes
<1>5. AskTypes BY <1>1 DEF Init, AskTypes
<1>6. PoolTypes BY DEF Init, PoolTypes
<1>7. QED BY <1>2, <1>3, <1>4, <1>5, <1>6 DEF Types

LEMMA CountedTypes ==
  ASSUME AskTypes, NEW k \in Nat, Counted(k)
  PROVE  inputs' \in 0..MaxInputs
BY SessionsAssumption DEF SessionsAssumption, AskTypes, Counted

(* What a step leaves alone keeps its type.                                *)
LEMMA Frames ==
  /\ UITypes /\ UNCHANGED uiVars => UITypes'
  /\ JobTypes /\ UNCHANGED <<jobVars, launch>> => JobTypes'
  /\ LoopTypes /\ UNCHANGED loopVars => LoopTypes'
  /\ AskTypes /\ UNCHANGED askVars => AskTypes'
  /\ PoolTypes /\ UNCHANGED poolVars => PoolTypes'
BY DEF UITypes, JobTypes, LoopTypes, AskTypes, PoolTypes, uiVars, jobVars, loopVars, askVars,
       poolVars

LEMMA UITypesStep ==
  ASSUME Types, Lifecycle, UIStep
  PROVE  Types'
<1> USE DEF Types
<1>1. ASSUME NEW s \in SessionIds, NEW t \in Templates \cup {Cold}, OpenSession(s, t)
      PROVE  Types'
  <2>1. UITypes' BY <1>1 DEF OpenSession, UITypes
  <2>2. JobTypes' BY <1>1 DEF OpenSession, UITypes, JobTypes, Lifecycle, LifeOf
  <2>3. QED BY <1>1, <2>1, <2>2, Frames DEF OpenSession
<1>2. ASSUME NEW s \in SessionIds, Type(s) PROVE Types'
  <2> DEFINE out == [t \in SessionIds |->
                       IF t = s THEN <<Msg("key", typed'[s], size[s])>> ELSE <<>>]
  <2>1. typed' \in [SessionIds -> Nat] BY <1>2 DEF Type, UITypes
  <2>2. Msg("key", typed'[s], size[s]) \in Msgs
    <3>1. typed'[s] \in Nat /\ size[s] \in Nat BY <2>1 DEF UITypes
    <3>2. QED BY <3>1, MessageTypes
  <2>3. \A t \in SessionIds : out[t] \in Seq(Msgs) BY <2>2
  <2>4. Write(out) BY <1>2 DEF Type
  <2> HIDE DEF out
  <2>5. UITypes' /\ LoopTypes' BY <1>2, <2>1, <2>3, <2>4, WriteTypes DEF Type, UITypes, LoopTypes
  <2>6. AskTypes'
    <3>1. inputs' \in 0..MaxInputs BY <1>2, CountedTypes DEF Type
    <3>2. QED BY <1>2, <3>1 DEF Type, AskTypes
  <2>7. QED BY <1>2, <2>5, <2>6, Frames DEF Type
<1>3. ASSUME NEW s \in SessionIds, ResizePane(s) PROVE Types'
  <2>1. size[s] + 1 \in Nat \ {0} BY DEF UITypes
  <2>2. UITypes' BY <1>3, <2>1 DEF ResizePane, UITypes
  <2>3. chan' \in [SessionIds -> Seq(Msgs)]
    <3>1. <<Resize(size[s] + 1)>> \in Seq(Msgs) BY <2>1, MessageTypes
    <3>2. QED BY <1>3, <3>1, PostToTypes DEF ResizePane, LoopTypes
  <2>4. LoopTypes' BY <1>3, <2>3 DEF ResizePane, LoopTypes
  <2>5. AskTypes'
    <3>1. inputs' \in 0..MaxInputs BY <1>3, CountedTypes DEF ResizePane
    <3>2. QED BY <1>3, <3>1 DEF ResizePane, AskTypes
  <2>6. QED BY <1>3, <2>2, <2>4, <2>5, Frames DEF ResizePane
<1>4. ASSUME NEW s \in SessionIds, CloseSession(s) PROVE Types'
  <2>1. UITypes' BY <1>4 DEF CloseSession, UITypes
  <2>2. chan' \in [SessionIds -> Seq(Msgs)]
    <3>1. <<Shutdown>> \in Seq(Msgs) BY MessageTypes
    <3>2. QED BY <1>4, <3>1, PostToTypes DEF CloseSession, LoopTypes
  <2>3. LoopTypes' BY <1>4, <2>2 DEF CloseSession, LoopTypes
  <2>4. AskTypes' BY <1>4 DEF CloseSession, AskTypes
  <2>5. QED BY <1>4, <2>1, <2>3, <2>4, Frames DEF CloseSession
<1>5. CASE DrainEvents
  <2> DEFINE out == [s \in SessionIds |-> [i \in 1..asks[s] |-> Reply]]
  <2>1. \A s \in SessionIds : out[s] \in Seq(Msgs)
    BY MessageTypes DEF AskTypes
  <2>2. Write(out) BY <1>5 DEF DrainEvents
  <2> HIDE DEF out
  <2>3. UITypes' /\ LoopTypes'
    BY <1>5, <2>1, <2>2, WriteTypes DEF DrainEvents, UITypes, LoopTypes
  <2>4. AskTypes' BY <1>5 DEF DrainEvents, AskTypes
  <2>5. QED BY <1>5, <2>3, <2>4, Frames DEF DrainEvents
<1>6. CASE PollPendingSpawns
  <2>1. \A s \in SessionIds : pending[s] \in Seq(Msgs) /\ size[s] \in Nat \ {0} BY DEF UITypes
  <2>2. UITypes' BY <1>6, <2>1 DEF PollPendingSpawns, UITypes
  <2>3. chan' \in [SessionIds -> Seq(Msgs)]
    <3>1. \A s \in SessionIds : Replay(s) \in Seq(Msgs)
      <4>1. \A s \in SessionIds : <<Resize(size[s])>> \in Seq(Msgs) BY <2>1, MessageTypes
      <4>2. QED BY <2>1, <4>1 DEF Replay
    <3>2. Dropped \in Seq(Msgs) /\ <<>> \in Seq(Msgs) BY MessageTypes DEF Dropped
    <3>3. PICK out : (\A s \in SessionIds : out[s] \in Seq(Msgs)) /\ Post(out)
      BY <1>6, <3>1, <3>2 DEF PollPendingSpawns
    <3>4. QED BY <3>3, PostTypes
  <2>4. LoopTypes' BY <1>6, <2>3 DEF PollPendingSpawns, LoopTypes
  <2>5. AskTypes' BY <1>6 DEF PollPendingSpawns, AskTypes
  <2>6. JobTypes' BY <1>6 DEF PollPendingSpawns, JobTypes
  <2>7. QED BY <1>6, <2>2, <2>4, <2>5, <2>6, Frames DEF PollPendingSpawns
<1>7. CASE Quit
  <2>1. UITypes' BY <1>7 DEF Quit, UITypes
  <2>2. chan' \in [SessionIds -> Seq(Msgs)]
    <3>1. Dropped \in Seq(Msgs) /\ <<Shutdown>> \in Seq(Msgs) /\ <<>> \in Seq(Msgs)
      BY MessageTypes DEF Dropped
    <3>2. PICK out : (\A s \in SessionIds : out[s] \in Seq(Msgs)) /\ Post(out)
      BY <1>7, <3>1 DEF Quit
    <3>3. QED BY <3>2, PostTypes
  <2>3. LoopTypes' BY <1>7, <2>2 DEF Quit, LoopTypes
  <2>4. AskTypes' BY <1>7 DEF Quit, AskTypes
  <2>5. JobTypes' BY <1>7 DEF Quit, JobTypes
  <2>6. QED BY <1>7, <2>1, <2>3, <2>4, <2>5, Frames DEF Quit
<1>8. CASE CloseSpares
  <2>1. PoolTypes' BY <1>8 DEF CloseSpares, PoolTypes
  <2>2. QED BY <1>8, <2>1, Frames DEF CloseSpares, uiVars
<1>9. QED BY <1>1, <1>2, <1>3, <1>4, <1>5, <1>6, <1>7, <1>8 DEF UIStep

LEMMA OtherTypesStep ==
  ASSUME Types, NEW s \in SessionIds, WorkerStep(s) \/ SpareStep(s) \/ LoopStep(s)
  PROVE  Types'
<1> USE DEF Types
<1>1. CASE SkipOpen(s) \/ OpenCold(s)
  <2>1. JobTypes' BY <1>1 DEF SkipOpen, OpenCold, JobTypes, uiVars
  <2>2. QED BY <1>1, <2>1, Frames DEF SkipOpen, OpenCold
<1>2. ASSUME NEW r \in {"attachment", "error"}, Finish(s, r), UNCHANGED <<spawns, claimed, launch>>
      PROVE  JobTypes' /\ chan' \in [SessionIds -> Seq(Msgs)]
  <2>1. JobTypes' BY <1>2 DEF Finish, JobTypes
  <2>2. chan' \in [SessionIds -> Seq(Msgs)]
    <3>1. Dropped \in Seq(Msgs) BY MessageTypes DEF Dropped
    <3>2. QED BY <1>2, <3>1, PostToTypes DEF Finish, LoopTypes
  <2>3. QED BY <2>1, <2>2
<1>3. CASE OpenFails(s)
  <2>1. JobTypes' /\ chan' \in [SessionIds -> Seq(Msgs)] BY <1>2, <1>3 DEF OpenFails, uiVars
  <2>2. LoopTypes' BY <1>3, <2>1 DEF OpenFails, LoopTypes
  <2>3. QED BY <1>3, <2>1, <2>2, Frames DEF OpenFails
<1>4. ASSUME NEW fits \in BOOLEAN, Claim(s, fits) PROVE Types'
  <2>1. JobTypes' BY <1>4 DEF Claim, JobTypes, uiVars
  <2>2. LoopTypes' BY <1>4 DEF Claim, LoopTypes
  <2>3. PoolTypes' BY <1>4 DEF Claim, PoolTypes
  <2>4. QED BY <1>4, <2>1, <2>2, <2>3, Frames DEF Claim
<1>5. ASSUME NEW started \in BOOLEAN, Replenish(s, started) PROVE Types'
  <2>1. JobTypes' BY <1>5 DEF Replenish, JobTypes, uiVars
  <2>2. PoolTypes' BY <1>5 DEF Replenish, PoolTypes
  <2>3. QED BY <1>5, <2>1, <2>2, Frames DEF Replenish
<1>6. ASSUME NEW queries \in 0..1, StartLoop(s, queries) PROVE Types'
  <2>1. JobTypes' BY <1>6 DEF StartLoop, JobTypes, uiVars
  <2>2. LoopTypes' BY <1>6 DEF StartLoop, LoopTypes
  <2>3. AskTypes'
    <3>1. inputs' \in 0..MaxInputs BY <1>6, CountedTypes DEF StartLoop
    <3>2. QED BY <1>6, <3>1 DEF StartLoop, AskTypes
  <2>4. QED BY <1>6, <2>1, <2>2, <2>3, Frames DEF StartLoop
<1>7. CASE SendLine(s)
  <2>1. JobTypes' BY <1>7 DEF SendLine, JobTypes, uiVars
  <2>2. chan' \in [SessionIds -> Seq(Msgs)]
    <3>1. <<SpareLine>> \in Seq(Msgs) BY MessageTypes
    <3>2. QED BY <1>7, <3>1, PostToTypes DEF SendLine
  <2>3. LoopTypes' BY <1>7, <2>2 DEF SendLine, LoopTypes
  <2>4. QED BY <1>7, <2>1, <2>3, Frames DEF SendLine
<1>8. CASE Deliver(s)
  <2>1. JobTypes' /\ chan' \in [SessionIds -> Seq(Msgs)] BY <1>2, <1>8 DEF Deliver, uiVars
  <2>2. LoopTypes' BY <1>8, <2>1 DEF Deliver, LoopTypes
  <2>3. QED BY <1>8, <2>1, <2>2, Frames DEF Deliver
<1>9. CASE SpareStep(s)
  <2>1. PoolTypes'
    BY <1>9 DEF SpareStep, LaunchReady, LaunchFails, Fill, Abandon, SpareExits, PoolTypes
  <2>2. QED
    BY <1>9, <2>1, Frames
       DEF SpareStep, LaunchReady, LaunchFails, Fill, Abandon, SpareExits, jobVars, uiVars
<1>10. CASE LoopInput(s) \/ LoopResize(s)
  <2>1. Head(chan[s]) \in Msgs /\ Tail(chan[s]) \in Seq(Msgs)
    BY <1>10 DEF LoopInput, LoopResize, LoopTypes
  <2>2. Head(chan[s]).size \in Nat BY <2>1 DEF Msgs
  <2>3. CASE LoopInput(s)
    <3>1. LoopTypes' BY <2>1, <2>3 DEF LoopInput, LoopTypes
    <3>2. QED BY <2>3, <3>1, Frames DEF LoopInput, uiVars
  <2>4. CASE LoopResize(s)
    <3>1. LoopTypes' BY <2>1, <2>2, <2>4 DEF LoopResize, LoopTypes
    <3>2. QED BY <2>4, <3>1, Frames DEF LoopResize, uiVars
  <2>5. QED BY <1>10, <2>3, <2>4
<1>11. CASE LoopShutdown(s) \/ LoopBreaks(s)
  <2>1. EndLoop(s) BY <1>11 DEF LoopShutdown, LoopBreaks
  <2>2. <<>> \in Seq(Msgs) /\ 0 \in Nat OBVIOUS
  <2>3. LoopTypes' BY <2>1, <2>2 DEF EndLoop, LoopTypes
  <2>4. QED BY <2>1, <2>3, Frames DEF EndLoop, uiVars
<1>12. CASE ShellReads(s)
  <2>1. Head(writes[s]) \in Msgs /\ Tail(writes[s]) \in Seq(Msgs)
    BY <1>12 DEF ShellReads, LoopTypes
  <2>2. LoopTypes' BY <1>12, <2>1 DEF ShellReads, LoopTypes
  <2>3. QED BY <1>12, <2>2, Frames DEF ShellReads, uiVars
<1>13. CASE ShellAsks(s)
  <2>1. inputs' \in 0..MaxInputs BY <1>13, CountedTypes DEF ShellAsks
  <2>2. AskTypes' BY <1>13, <2>1 DEF ShellAsks, AskTypes
  <2>3. QED BY <1>13, <2>2, Frames DEF ShellAsks, uiVars
<1>14. CASE ShellExits(s)
  <2>1. LoopTypes' BY <1>14 DEF ShellExits, LoopTypes
  <2>2. QED BY <1>14, <2>1, Frames DEF ShellExits, uiVars
<1>15. QED
  BY <1>1, <1>3, <1>4, <1>5, <1>6, <1>7, <1>8, <1>9, <1>10, <1>11, <1>12, <1>13, <1>14
     DEF WorkerStep, LoopStep

LEMMA TypesStep == Types /\ Lifecycle /\ [Next]_vars => Types'
<1> SUFFICES ASSUME Types, Lifecycle, [Next]_vars PROVE Types' OBVIOUS
<1>1. CASE UNCHANGED vars BY <1>1, Frames DEF vars, Types, uiVars
<1>2. QED BY <1>1, UITypesStep, OtherTypesStep DEF Next

-----------------------------------------------------------------------------
(* How far a session got.                                                  *)

LEMMA LifecycleInit == Init => Lifecycle
BY DEF Init, Lifecycle, LifeOf

LEMMA LifecycleStep == Types /\ Lifecycle /\ [Next]_vars => Lifecycle'
<1> SUFFICES ASSUME Types, Lifecycle, [Next]_vars, NEW x \in SessionIds PROVE LifeOf(x)'
  BY DEF Lifecycle
<1>0. LifeOf(x) BY DEF Lifecycle
<1> USE <1>0 DEF Types, UITypes, JobTypes, LoopTypes, LifeOf, uiVars, jobVars, loopVars
<1>1. ASSUME NEW s \in SessionIds, NEW t \in Templates \cup {Cold}, OpenSession(s, t)
      PROVE  LifeOf(x)'
  BY <1>1 DEF OpenSession
<1>2. ASSUME NEW s \in SessionIds, Type(s) \/ ResizePane(s) PROVE LifeOf(x)'
  BY <1>2 DEF Type, ResizePane, Write
<1>3. ASSUME NEW s \in SessionIds, CloseSession(s) PROVE LifeOf(x)'
  BY <1>3 DEF CloseSession, Open
<1>4. CASE DrainEvents \/ CloseSpares BY <1>4 DEF DrainEvents, CloseSpares, Write
<1>5. CASE PollPendingSpawns BY <1>5 DEF PollPendingSpawns
<1>6. CASE Quit BY <1>6 DEF Quit, Open
<1>7. ASSUME NEW s \in SessionIds, SkipOpen(s) \/ OpenFails(s) \/ OpenCold(s) PROVE LifeOf(x)'
  BY <1>7 DEF SkipOpen, OpenFails, OpenCold, Finish
<1>8. ASSUME NEW s \in SessionIds, NEW fits \in BOOLEAN, Claim(s, fits) PROVE LifeOf(x)'
  BY <1>8 DEF Claim
<1>9. ASSUME NEW s \in SessionIds, NEW started \in BOOLEAN, Replenish(s, started)
      PROVE  LifeOf(x)'
  BY <1>9 DEF Replenish
<1>10. ASSUME NEW s \in SessionIds, NEW queries \in 0..1, StartLoop(s, queries)
       PROVE  LifeOf(x)'
  BY <1>10 DEF StartLoop
<1>11. ASSUME NEW s \in SessionIds, SendLine(s) \/ Deliver(s) PROVE LifeOf(x)'
  BY <1>11 DEF SendLine, Deliver, Finish
<1>12. ASSUME NEW p \in SessionIds, SpareStep(p) PROVE LifeOf(x)'
  BY <1>12 DEF SpareStep, LaunchReady, LaunchFails, Fill, Abandon, SpareExits
<1>13. ASSUME NEW s \in SessionIds, LoopStep(s) PROVE LifeOf(x)'
  BY <1>13
     DEF LoopStep, LoopInput, LoopResize, LoopShutdown, LoopBreaks, EndLoop, ShellReads,
         ShellAsks, ShellExits
<1>14. CASE UNCHANGED vars BY <1>14 DEF vars
<1>15. QED
  BY <1>1, <1>2, <1>3, <1>4, <1>5, <1>6, <1>7, <1>8, <1>9, <1>10, <1>11, <1>12, <1>13, <1>14
     DEF Next, UIStep, WorkerStep

-----------------------------------------------------------------------------
(* Second layer.                                                           *)

LEMMA HoldsConcat ==
  ASSUME NEW p \in Seq(Msgs), NEW q \in Seq(Msgs), NEW m, Holds(p, m) \/ Holds(q, m)
  PROVE  Holds(p \o q, m)
<1>1. Len(p) \in Nat /\ Len(q) \in Nat /\ Len(p \o q) = Len(p) + Len(q) OBVIOUS
<1>2. CASE Holds(p, m)
  <2>1. PICK i \in 1..Len(p) : p[i] = m BY <1>2 DEF Holds
  <2>2. i \in 1..Len(p \o q) /\ (p \o q)[i] = m BY <1>1, <2>1
  <2>3. QED BY <2>2 DEF Holds
<1>3. CASE Holds(q, m)
  <2>1. PICK i \in 1..Len(q) : q[i] = m BY <1>3 DEF Holds
  <2>2. Len(p) + i \in 1..Len(p \o q) /\ (p \o q)[Len(p) + i] = m BY <1>1, <2>1
  <2>3. QED BY <2>2 DEF Holds
<1>4. QED BY <1>2, <1>3

LEMMA HoldsTail ==
  ASSUME NEW q \in Seq(Msgs), q # <<>>, NEW m, Holds(q, m), Head(q) # m
  PROVE  Holds(Tail(q), m)
<1>1. PICK i \in 1..Len(q) : q[i] = m BY DEF Holds
<1>2. i # 1 BY <1>1
<1>3. i - 1 \in 1..Len(Tail(q)) /\ Tail(q)[i - 1] = m BY <1>1, <1>2
<1>4. QED BY <1>3 DEF Holds

LEMMA HoldsShutdown == Holds(<<Shutdown>>, Shutdown)
BY DEF Holds

LEMMA PostKeeps ==
  ASSUME LoopTypes, NEW out, \A s \in SessionIds : out[s] \in Seq(Msgs), Post(out),
         NEW s \in SessionIds, NEW m
  PROVE  /\ Holds(chan[s], m) => Holds(chan'[s], m)
         /\ loop[s] = "running" /\ Holds(out[s], m) => Holds(chan'[s], m)
         /\ loop[s] # "running" => chan'[s] = chan[s]
<1>1. chan[s] \in Seq(Msgs) /\ out[s] \in Seq(Msgs) BY DEF LoopTypes
<1>2. chan'[s] = IF loop[s] = "running" THEN chan[s] \o out[s] ELSE chan[s] BY DEF Post
<1>3. QED BY <1>1, <1>2, HoldsConcat

LEMMA PostToKeeps ==
  ASSUME LoopTypes, NEW r \in SessionIds, NEW ms \in Seq(Msgs), PostTo(r, ms),
         NEW s \in SessionIds, NEW m
  PROVE  /\ Holds(chan[s], m) => Holds(chan'[s], m)
         /\ s = r /\ loop[s] = "running" /\ Holds(ms, m) => Holds(chan'[s], m)
         /\ s # r \/ loop[s] # "running" => chan'[s] = chan[s]
<1>1. chan[s] \in Seq(Msgs) BY DEF LoopTypes
<1>2. chan'[s] = IF s = r /\ loop[r] = "running" THEN chan[r] \o ms ELSE chan[s]
  BY PostToTypes
<1>3. QED BY <1>1, <1>2, HoldsConcat

LEMMA ProcessesInit == Init => Processes
BY DEF Init, Processes, ProcessOf

LEMMA ProcessesStep ==
  Types /\ Lifecycle /\ Processes /\ [Next]_vars => Processes'
<1> SUFFICES ASSUME Types, Lifecycle, Processes, [Next]_vars, NEW x \in SessionIds
             PROVE  ProcessOf(x)'
  BY DEF Processes
<1>0. Types' /\ Lifecycle' BY TypesStep, LifecycleStep
<1>a. /\ <<Shutdown>> \in Seq(Msgs) /\ <<SpareLine>> \in Seq(Msgs) /\ Dropped \in Seq(Msgs)
      /\ Holds(Dropped, Shutdown)
  BY MessageTypes, HoldsShutdown DEF Dropped
<1>b. LifeOf(x) /\ ProcessOf(x) BY DEF Lifecycle, Processes
<1> USE <1>b DEF Types, UITypes, JobTypes, LoopTypes, AskTypes, LifeOf, ProcessOf,
                 uiVars, jobVars, loopVars
<1>1. ASSUME NEW s \in SessionIds, NEW t \in Templates \cup {Cold}, OpenSession(s, t)
      PROVE  ProcessOf(x)'
  BY <1>1 DEF OpenSession
<1>2. ASSUME NEW out, \A s \in SessionIds : out[s] \in Seq(Msgs), Post(out),
             UNCHANGED <<record, jobVars, shell, loop, writes, read>>
      PROVE  ProcessOf(x)'
  BY <1>2, PostKeeps
<1>3. ASSUME NEW s \in SessionIds, NEW ms \in Seq(Msgs), PostTo(s, ms) \/ UNCHANGED chan,
             UNCHANGED <<record, jobVars, shell, loop, writes, read>>
      PROVE  ProcessOf(x)'
  BY <1>3, PostToKeeps
<1>4. ASSUME NEW s \in SessionIds, Type(s) PROVE ProcessOf(x)'
  <2> DEFINE out == [t \in SessionIds |->
                       IF record[t] = "live"
                       THEN [u \in SessionIds |->
                               IF u = s THEN <<Msg("key", typed'[s], size[s])>> ELSE <<>>][t]
                       ELSE <<>>]
  <2>1. <<Msg("key", typed'[s], size[s])>> \in Seq(Msgs)
    <3>1. typed'[s] \in Nat /\ size[s] \in Nat BY <1>0
    <3>2. Msg("key", typed'[s], size[s]) \in Msgs BY ONLY <3>1, MessageTypes
    <3>3. QED BY <3>2
  <2>2. \A t \in SessionIds : out[t] \in Seq(Msgs) BY <2>1
  <2>3. Post(out) BY <1>4 DEF Type, Write
  <2> HIDE DEF out
  <2>4. QED BY <1>2, <1>4, <2>2, <2>3 DEF Type
<1>5. ASSUME NEW s \in SessionIds, ResizePane(s) PROVE ProcessOf(x)'
  <2>1. <<Resize(size[s] + 1)>> \in Seq(Msgs) BY MessageTypes
  <2>2. QED BY <1>3, <1>5, <2>1 DEF ResizePane
<1>6. ASSUME NEW s \in SessionIds, CloseSession(s) PROVE ProcessOf(x)'
  BY <1>6, <1>a, PostToKeeps, HoldsShutdown DEF CloseSession, Open
<1>7. CASE DrainEvents
  <2> DEFINE out == [s \in SessionIds |->
                       IF record[s] = "live"
                       THEN [u \in SessionIds |-> [i \in 1..asks[u] |-> Reply]][s] ELSE <<>>]
  <2>1. \A s \in SessionIds : out[s] \in Seq(Msgs)
    <3>1. \A s \in SessionIds : [i \in 1..asks[s] |-> Reply] \in Seq(Msgs)
      BY ONLY AskTypes, MessageTypes DEF AskTypes
    <3>2. ASSUME NEW s \in SessionIds PROVE out[s] \in Seq(Msgs)
      <4>1. <<>> \in Seq(Msgs) OBVIOUS
      <4>2. out[s] = IF record[s] = "live" THEN [i \in 1..asks[s] |-> Reply] ELSE <<>>
        OBVIOUS
      <4>3. QED BY <3>1, <4>1, <4>2
    <3>3. QED BY <3>2
  <2>2. Post(out) BY <1>7 DEF DrainEvents, Write
  <2> HIDE DEF out
  <2>3. QED BY <1>2, <1>7, <2>1, <2>2 DEF DrainEvents
<1>8. CASE PollPendingSpawns
  <2> DEFINE finished == {s \in spawns : result[s] # "none"}
             attached == {s \in finished : result[s] = "attachment" /\ record[s] = "pending"}
             orphaned == {s \in finished : result[s] = "attachment" /\ record[s] = "gone"}
             out == [s \in SessionIds |-> IF s \in attached THEN Replay(s)
                                          ELSE IF s \in orphaned THEN Dropped ELSE <<>>]
  <2>1. \A s \in SessionIds : out[s] \in Seq(Msgs)
    <3>1. \A s \in SessionIds : <<Resize(size[s])>> \in Seq(Msgs) BY MessageTypes
    <3>2. \A s \in SessionIds : Replay(s) \in Seq(Msgs) BY <3>1 DEF Replay
    <3>3. QED BY <1>a, <3>2
  <2>2. Post(out) BY <1>8 DEF PollPendingSpawns
  <2>3. x \in orphaned => Holds(out[x], Shutdown) BY <1>a
  <2> HIDE DEF out, orphaned
  <2>4. /\ Holds(chan[x], Shutdown) => Holds(chan'[x], Shutdown)
        /\ x \in orphaned /\ loop[x] = "running" => Holds(chan'[x], Shutdown)
        /\ loop[x] # "running" => chan'[x] = chan[x]
    BY <2>1, <2>2, <2>3, PostKeeps
  <2>5. QED BY <1>8, <2>4 DEF PollPendingSpawns, orphaned
<1>9. CASE Quit
  <2> DEFINE out == [s \in SessionIds |->
                       IF record[s] = "live" THEN <<Shutdown>>
                       ELSE IF result[s] = "attachment" THEN Dropped ELSE <<>>]
  <2>1. \A s \in SessionIds : out[s] \in Seq(Msgs) BY <1>a
  <2>2. Post(out) BY <1>9 DEF Quit
  <2>3. \A s \in SessionIds :
          record[s] = "live" \/ result[s] = "attachment" => Holds(out[s], Shutdown)
    BY <1>a, HoldsShutdown
  <2> HIDE DEF out
  <2>4. /\ Holds(chan[x], Shutdown) => Holds(chan'[x], Shutdown)
        /\ loop[x] = "running" /\ (record[x] = "live" \/ result[x] = "attachment") =>
              Holds(chan'[x], Shutdown)
        /\ loop[x] # "running" => chan'[x] = chan[x]
    BY <2>1, <2>2, <2>3, PostKeeps
  <2>5. QED BY <1>9, <2>4 DEF Quit, Open
<1>10. ASSUME NEW s \in SessionIds, SkipOpen(s) \/ OpenCold(s) PROVE ProcessOf(x)'
  BY <1>10 DEF SkipOpen, OpenCold
<1>11. ASSUME NEW s \in SessionIds, OpenFails(s) PROVE ProcessOf(x)'
  BY <1>11 DEF OpenFails, Finish
<1>12. ASSUME NEW s \in SessionIds, NEW fits \in BOOLEAN, Claim(s, fits)
       PROVE  ProcessOf(x)'
  BY <1>12 DEF Claim
<1>13. ASSUME NEW s \in SessionIds, NEW started \in BOOLEAN, Replenish(s, started)
       PROVE  ProcessOf(x)'
  BY <1>13 DEF Replenish
<1>14. ASSUME NEW s \in SessionIds, NEW queries \in 0..1, StartLoop(s, queries)
       PROVE  ProcessOf(x)'
  BY <1>14 DEF StartLoop
<1>15. ASSUME NEW s \in SessionIds, SendLine(s) PROVE ProcessOf(x)'
  <2>1. PostTo(s, <<SpareLine>>) BY <1>15 DEF SendLine
  <2>2. Holds(chan[x], Shutdown) => Holds(chan'[x], Shutdown)
    BY <1>a, <2>1, PostToKeeps
  <2>3. loop[x] # "running" => chan'[x] = chan[x] BY <1>a, <2>1, PostToKeeps
  <2>4. QED BY <1>15, <2>2, <2>3 DEF SendLine
<1>16. ASSUME NEW s \in SessionIds, Deliver(s) PROVE ProcessOf(x)'
  BY <1>16, <1>a, PostToKeeps DEF Deliver, Finish
<1>17. ASSUME NEW p \in SessionIds, SpareStep(p) PROVE ProcessOf(x)'
  BY <1>17 DEF SpareStep, LaunchReady, LaunchFails, Fill, Abandon, SpareExits
<1>18. ASSUME NEW s \in SessionIds, LoopInput(s) \/ LoopResize(s) PROVE ProcessOf(x)'
  <2>1. chan[s] \in Seq(Msgs) /\ chan[s] # <<>> /\ Head(chan[s]) # Shutdown
    <3>1. Shutdown.kind = "shutdown" BY DEF Shutdown, Msg
    <3>2. Head(chan[s]).kind # "shutdown" BY <1>18 DEF LoopInput, LoopResize
    <3>3. QED BY <1>18, <3>1, <3>2 DEF LoopInput, LoopResize
  <2>2. loop[s] = "running"
    <3>1. ProcessOf(s) BY DEF Processes
    <3>2. QED BY <2>1, <3>1
  <2>3. Holds(chan[s], Shutdown) => Holds(chan'[s], Shutdown)
    BY <1>18, <2>1, HoldsTail DEF LoopInput, LoopResize
  <2>4. QED BY <1>18, <2>2, <2>3 DEF LoopInput, LoopResize
<1>19. ASSUME NEW s \in SessionIds, LoopShutdown(s) \/ LoopBreaks(s)
       PROVE  ProcessOf(x)'
  <2>1. loop[s] = "running" /\ EndLoop(s)
    <3>1. ProcessOf(s) BY DEF Processes
    <3>2. QED BY <1>19, <3>1 DEF LoopShutdown, LoopBreaks
  <2>2. QED BY <2>1 DEF EndLoop
<1>20. ASSUME NEW s \in SessionIds, ShellReads(s) PROVE ProcessOf(x)'
  BY <1>20 DEF ShellReads
<1>21. ASSUME NEW s \in SessionIds, ShellAsks(s) \/ ShellExits(s)
       PROVE  ProcessOf(x)'
  BY <1>21 DEF ShellAsks, ShellExits
<1>22. CASE CloseSpares \/ UNCHANGED vars BY <1>22 DEF CloseSpares, vars
<1>23. QED
  BY <1>1, <1>4, <1>5, <1>6, <1>7, <1>8, <1>9, <1>10, <1>11, <1>12, <1>13, <1>14, <1>15,
     <1>16, <1>17, <1>18, <1>19, <1>20, <1>21, <1>22
     DEF Next, UIStep, WorkerStep, LoopStep

-----------------------------------------------------------------------------
(* The spares.                                                             *)

LEMMA LaunchersInit == Init => Launchers
BY DEF Init, Launchers

LEMMA LaunchersStep == Types /\ Launchers /\ [Next]_vars => Launchers'
<1> SUFFICES ASSUME Types, Launchers, [Next]_vars PROVE Launchers' OBVIOUS
<1>0. \A p \in SessionIds : p # "empty" /\ p # "launching"
  BY SessionsAssumption DEF SessionsAssumption
<1> USE <1>0 DEF Types, PoolTypes, Launchers, poolVars
<1>1. CASE UNCHANGED poolVars BY <1>1
<1>2. CASE CloseSpares BY <1>2 DEF CloseSpares
<1>3. ASSUME NEW s \in SessionIds, NEW fits \in BOOLEAN, Claim(s, fits) PROVE Launchers'
  BY <1>3 DEF Claim
<1>4. ASSUME NEW s \in SessionIds, NEW started \in BOOLEAN, Replenish(s, started)
      PROVE  Launchers'
  BY <1>4 DEF Replenish, Reserve
<1>5. ASSUME NEW p \in SessionIds, LaunchReady(p) PROVE Launchers'
  BY <1>5 DEF LaunchReady
<1>6. ASSUME NEW p \in SessionIds, LaunchFails(p) PROVE Launchers'
  BY <1>6 DEF LaunchFails
<1>7. ASSUME NEW p \in SessionIds, Fill(p) PROVE Launchers'
  BY <1>7 DEF Fill
<1>8. ASSUME NEW p \in SessionIds, Abandon(p) PROVE Launchers'
  BY <1>8 DEF Abandon
<1>9. ASSUME NEW p \in SessionIds, SpareExits(p) PROVE Launchers'
  BY <1>9 DEF SpareExits
<1>10. CASE UIStep
  BY <1>1, <1>2, <1>10
     DEF UIStep, OpenSession, Type, ResizePane, CloseSession, DrainEvents, PollPendingSpawns,
         Quit
<1>11. ASSUME NEW s \in SessionIds, WorkerStep(s) PROVE Launchers'
  BY <1>1, <1>3, <1>4, <1>11
     DEF WorkerStep, SkipOpen, OpenFails, OpenCold, StartLoop, SendLine, Deliver
<1>12. ASSUME NEW s \in SessionIds, LoopStep(s) PROVE UNCHANGED poolVars
  BY <1>12
     DEF LoopStep, LoopInput, LoopResize, LoopShutdown, LoopBreaks, EndLoop, ShellReads,
         ShellAsks, ShellExits
<1>13. CASE UNCHANGED vars BY <1>13 DEF vars
<1>14. QED
  BY <1>1, <1>5, <1>6, <1>7, <1>8, <1>9, <1>10, <1>11, <1>12, <1>13 DEF Next, SpareStep

LEMMA LaunchersGiveOneSpare == Types /\ Launchers => OneSpare
<1> SUFFICES ASSUME Types, Launchers PROVE OneSpare OBVIOUS
<1> USE DEF Types, PoolTypes, Launchers
<1>1. ASSUME ~closed
      PROVE  Cardinality(Running) + (IF slot \in SessionIds THEN 1 ELSE 0) <= 1
  <2>1. CASE Running = {}
    BY <2>1, FS_EmptySet
  <2>2. CASE Running # {}
    <3>1. PICK p \in SessionIds : thread[p] # "none" /\ p \in Running
      BY <2>2 DEF Running
    <3>2. Running = {p} BY <1>1, <3>1 DEF Running
    <3>3. slot \notin SessionIds
      BY <1>1, <3>1, SessionsAssumption DEF SessionsAssumption
    <3>4. Cardinality({p}) = 1 BY FS_Singleton
    <3>5. QED BY <3>2, <3>3, <3>4
  <2>3. QED BY <2>1, <2>2
<1>2. QED BY <1>1 DEF OneSpare, Running

-----------------------------------------------------------------------------
(* Messages of a kind.                                                     *)

LEMMA OfKindEmpty ==
  ASSUME NEW K
  PROVE  OfKind(<<>>, K) = <<>>
BY SelectEmpty DEF OfKind

LEMMA OfKindType ==
  ASSUME NEW K, NEW q \in Seq(Msgs)
  PROVE  /\ OfKind(q, K) \in Seq(Msgs)
         /\ \A i \in 1..Len(OfKind(q, K)) :
              /\ OfKind(q, K)[i].kind \in K
              /\ \E j \in 1..Len(q) : OfKind(q, K)[i] = q[j]
<1> DEFINE S == [kind : K, n : Nat, size : Nat]
           k == Select(q, S)
<1>1. k \in Seq(S \cap Msgs) BY SelectType
<1>2. k \in Seq(Msgs)
  <2> HIDE DEF S
  <2>1. QED BY SelectSeqType
<1>3. \A i \in 1..Len(k) : \E j \in 1..Len(q) : k[i] = q[j]
  <2> HIDE DEF S
  <2>1. QED BY SelectMember
<1>4. \A i \in 1..Len(k) : k[i].kind \in K
  <2>1. \A i \in 1..Len(k) : k[i] \in S \cap Msgs
    <3> HIDE DEF k, S
    <3>1. QED BY <1>1, ElementOfSeq
  <2>2. QED BY <2>1
<1>5. QED BY <1>2, <1>3, <1>4 DEF OfKind

LEMMA OfKindConcat ==
  ASSUME NEW K, NEW p \in Seq(Msgs), NEW q \in Seq(Msgs)
  PROVE  OfKind(p \o q, K) = OfKind(p, K) \o OfKind(q, K)
<1> DEFINE S == [kind : K, n : Nat, size : Nat]
<1> HIDE DEF S
<1>1. Select(p \o q, S) = Select(p, S) \o Select(q, S) BY SelectConcat
<1>2. QED BY <1>1 DEF OfKind, S

LEMMA OfKindOne ==
  ASSUME NEW K, NEW m \in Msgs
  PROVE  OfKind(<<m>>, K) = IF m.kind \in K THEN <<m>> ELSE <<>>
<1> DEFINE S == [kind : K, n : Nat, size : Nat]
<1>1. m \in S <=> m.kind \in K BY DEF Msgs
<1>2. Select(<<m>>, S) = IF m \in S THEN <<m>> ELSE <<>>
  <2> HIDE DEF S
  <2>1. QED BY SelectOne
<1>3. QED BY <1>1, <1>2 DEF OfKind

LEMMA OfKindAll ==
  ASSUME NEW K, NEW q \in Seq(Msgs), \A i \in 1..Len(q) : q[i].kind \in K
  PROVE  OfKind(q, K) = q
<1> DEFINE S == [kind : K, n : Nat, size : Nat]
<1>1. \A i \in 1..Len(q) : q[i] \in S
  <2>1. \A i \in 1..Len(q) : q[i] \in Msgs OBVIOUS
  <2>2. QED BY <2>1 DEF Msgs
<1>2. q \in Seq(S)
  <2> HIDE DEF S
  <2>1. QED BY <1>1
<1>3. Select(q, S) = q
  <2> HIDE DEF S
  <2>1. QED BY <1>2, SelectAll
<1>4. QED BY <1>3 DEF OfKind

LEMMA OfKindNone ==
  ASSUME NEW K, NEW q \in Seq(Msgs), \A i \in 1..Len(q) : q[i].kind \notin K
  PROVE  OfKind(q, K) = <<>>
<1>1. OfKind(q, K) \in Seq(Msgs) BY OfKindType
<1>2. Len(OfKind(q, K)) = 0
  <2>1. SUFFICES ASSUME 1 \in 1..Len(OfKind(q, K)) PROVE FALSE
    BY <1>1
  <2>2. QED BY <2>1, OfKindType
<1>3. QED BY <1>1, <1>2

LEMMA OfKindTail ==
  ASSUME NEW K, NEW q \in Seq(Msgs), q # <<>>
  PROVE  /\ Head(q) \in Msgs /\ Tail(q) \in Seq(Msgs)
         /\ OfKind(q, K) = IF Head(q).kind \in K THEN <<Head(q)>> \o OfKind(Tail(q), K)
                           ELSE OfKind(Tail(q), K)
<1> DEFINE S == [kind : K, n : Nat, size : Nat]
<1>1. Head(q) \in Msgs /\ Tail(q) \in Seq(Msgs) OBVIOUS
<1>2. Head(q) \in S <=> Head(q).kind \in K BY <1>1 DEF Msgs
<1>3. Select(q, S) = IF Head(q) \in S THEN <<Head(q)>> \o Select(Tail(q), S)
                     ELSE Select(Tail(q), S)
  <2> HIDE DEF S
  <2>1. QED BY SelectTail
<1>4. QED BY <1>1, <1>2, <1>3 DEF OfKind

-----------------------------------------------------------------------------
(* What the shell has been sent, and the keys in it.                       *)

SentOf(r, w, c) == r \o w \o Inputs(c)

LEMMA SentType ==
  ASSUME NEW r \in Seq(Msgs), NEW w \in Seq(Msgs), NEW c \in Seq(Msgs)
  PROVE  SentOf(r, w, c) \in Seq(Msgs)
<1>1. Inputs(c) \in Seq(Msgs) BY OfKindType DEF Inputs
<1>2. QED BY <1>1 DEF SentOf

LEMMA SentMore ==
  ASSUME NEW r \in Seq(Msgs), NEW w \in Seq(Msgs), NEW c \in Seq(Msgs), NEW ms \in Seq(Msgs)
  PROVE  SentOf(r, w, c \o ms) = SentOf(r, w, c) \o Inputs(ms)
<1> DEFINE rw == r \o w
           ic == Inputs(c)
           im == Inputs(ms)
<1>1. ic \in Seq(Msgs) /\ im \in Seq(Msgs) BY OfKindType DEF Inputs
<1>2. Inputs(c \o ms) = ic \o im BY OfKindConcat DEF Inputs
<1>3. rw \in Seq(Msgs) OBVIOUS
<1>4. (rw \o ic) \o im = rw \o (ic \o im)
  <2>1. ASSUME NEW a \in Seq(Msgs), NEW b \in Seq(Msgs), NEW d \in Seq(Msgs)
        PROVE  (a \o b) \o d = a \o (b \o d)
    OBVIOUS
  <2> HIDE DEF rw, ic, im
  <2>2. QED BY <1>1, <1>3, <2>1
<1>5. QED BY <1>2, <1>4 DEF SentOf

(* The loop takes an input out of its channel, or drops a resize.          *)
LEMMA SentTaken ==
  ASSUME NEW r \in Seq(Msgs), NEW w \in Seq(Msgs), NEW c \in Seq(Msgs), c # <<>>
  PROVE  /\ Head(c).kind \in InputKinds => SentOf(r, Append(w, Head(c)), Tail(c)) = SentOf(r, w, c)
         /\ Head(c).kind \notin InputKinds => SentOf(r, w, Tail(c)) = SentOf(r, w, c)
<1> DEFINE h == Head(c)
           t == Inputs(Tail(c))
<1>1. h \in Msgs /\ t \in Seq(Msgs)
  BY OfKindTail, OfKindType DEF Inputs
<1>2. Inputs(c) = IF h.kind \in InputKinds THEN <<h>> \o t ELSE t
  BY OfKindTail DEF Inputs
<1> HIDE DEF h, t
<1>3. (r \o Append(w, h)) \o t = (r \o w) \o (<<h>> \o t)
  <2>1. Append(w, h) = w \o <<h>> /\ <<h>> \in Seq(Msgs) BY <1>1
  <2>2. r \o (w \o <<h>>) = (r \o w) \o <<h>> BY <2>1, ConcatAssociative
  <2>3. r \o w \in Seq(Msgs) OBVIOUS
  <2>4. ((r \o w) \o <<h>>) \o t = (r \o w) \o (<<h>> \o t)
    BY <1>1, <2>1, <2>3, ConcatAssociative
  <2>5. QED BY <2>1, <2>2, <2>4
<1>4. QED BY <1>2, <1>3 DEF SentOf, h, t

LEMMA SentRead ==
  ASSUME NEW r \in Seq(Msgs), NEW w \in Seq(Msgs), NEW c, w # <<>>
  PROVE  SentOf(Append(r, Head(w)), Tail(w), c) = SentOf(r, w, c)
<1>1. Append(r, Head(w)) \o Tail(w) = r \o w OBVIOUS
<1>2. QED BY <1>1 DEF SentOf

(* The two halves of InputInOrder for a sequence: only the first may be    *)
(* the line, and is if there is one; and its keys are numbered up to n.    *)
LineFirst(q, warm) == \A i \in 1..Len(q) : q[i].kind = "line" <=> (i = 1 /\ warm)
Numbered(q, n) == Len(Keys(q)) = n /\ \A i \in 1..Len(Keys(q)) : Keys(q)[i].n = i

LEMMA LineFirstMore ==
  ASSUME NEW q \in Seq(Msgs), NEW ms \in Seq(Msgs), NEW warm,
         LineFirst(q, warm), warm => q # <<>>,
         \A i \in 1..Len(ms) : ms[i].kind # "line"
  PROVE  LineFirst(q \o ms, warm)
<1>1. SUFFICES ASSUME NEW i \in 1..Len(q \o ms)
               PROVE  (q \o ms)[i].kind = "line" <=> (i = 1 /\ warm)
  BY DEF LineFirst
<1>2. CASE i <= Len(q)
  <2>1. i \in 1..Len(q) /\ (q \o ms)[i] = q[i] BY <1>2
  <2>2. QED BY <2>1 DEF LineFirst
<1>3. CASE i > Len(q)
  <2>1. i - Len(q) \in 1..Len(ms) /\ (q \o ms)[i] = ms[i - Len(q)] BY <1>3
  <2>2. i = 1 => ~warm BY <1>3
  <2>3. QED BY <2>1, <2>2
<1>4. QED BY <1>2, <1>3

LEMMA NumberedNoKeys ==
  ASSUME NEW q \in Seq(Msgs), NEW ms \in Seq(Msgs), NEW n \in Nat, Numbered(q, n),
         \A i \in 1..Len(ms) : ms[i].kind # "key"
  PROVE  Numbered(q \o ms, n)
<1>1. Keys(ms) = <<>> BY OfKindNone DEF Keys
<1>2. Keys(q) \in Seq(Msgs) BY OfKindType DEF Keys
<1>3. Keys(q \o ms) = Keys(q) \o Keys(ms) BY OfKindConcat DEF Keys
<1>4. Keys(q) \o <<>> = Keys(q) BY <1>2, ConcatEmptySeq
<1>5. QED BY <1>1, <1>3, <1>4 DEF Numbered

LEMMA NumberedKey ==
  ASSUME NEW q \in Seq(Msgs), NEW n \in Nat, NEW m \in Msgs, Numbered(q, n),
         m.kind = "key", m.n = n + 1
  PROVE  Numbered(q \o <<m>>, n + 1)
<1> DEFINE k == Keys(q)
<1>1. Keys(<<m>>) = <<m>> BY OfKindOne DEF Keys
<1>2. k \in Seq(Msgs) BY OfKindType DEF Keys
<1>3. Keys(q \o <<m>>) = k \o <<m>>
  <2>1. <<m>> \in Seq(Msgs) OBVIOUS
  <2>2. QED BY <1>1, <2>1, OfKindConcat DEF Keys
<1>4. Len(k) = n /\ \A i \in 1..Len(k) : k[i].n = i BY DEF Numbered
<1> HIDE DEF k
<1>5. Len(k \o <<m>>) = n + 1 BY <1>2, <1>4
<1>6. ASSUME NEW i \in 1..(n + 1) PROVE (k \o <<m>>)[i].n = i
  BY <1>2, <1>4
<1>7. QED BY <1>3, <1>5, <1>6 DEF Numbered

(* The line ahead of what is buffered is no key.                           *)
LEMMA NumberedLine ==
  ASSUME NEW q \in Seq(Msgs), NEW n \in Nat, Numbered(q, n)
  PROVE  Numbered(<<SpareLine>> \o q, n)
<1>1. SpareLine \in Msgs /\ SpareLine.kind = "line" /\ <<SpareLine>> \in Seq(Msgs)
  BY MessageTypes DEF SpareLine, Msg
<1>2. Keys(<<SpareLine>>) = <<>> BY <1>1, OfKindOne DEF Keys
<1>3. Keys(<<SpareLine>> \o q) = <<>> \o Keys(q) BY <1>1, <1>2, OfKindConcat DEF Keys
<1>4. Keys(q) \in Seq(Msgs) BY OfKindType DEF Keys
<1>5. <<>> \o Keys(q) = Keys(q) BY <1>4, ConcatEmptySeq
<1>6. QED BY <1>3, <1>5 DEF Numbered

-----------------------------------------------------------------------------
(* What a step can do to one session's messages.                           *)

(* The worker of a session in a spare has sent the line.                   *)
Started(s) == s \in claimed /\ opening[s] \in {"opened", "done"}

UISame(x) == UNCHANGED <<record[x], size[x], typed[x], pending[x]>>
LoopSame(x) == UNCHANGED <<loop[x], ptySize[x], chan[x], writes[x], read[x]>>
WarmSame(x) == (x \in claimed' <=> x \in claimed) /\ (Started(x)' <=> Started(x))

Rests(x) == UISame(x) /\ LoopSame(x) /\ WarmSame(x)
Leaves(x) == ~Open(x)' \/ loop'[x] = "ended"

Opens(x) ==
    /\ record[x] = "unopened" /\ record'[x] = "pending" /\ loop[x] = "none"
    /\ UNCHANGED <<size[x], typed[x], pending[x]>> /\ LoopSame(x) /\ WarmSame(x)

IsClaimed(x) == loop[x] = "none" /\ UISame(x) /\ LoopSame(x)

Starts(x) ==
    /\ loop[x] = "none" /\ loop'[x] = "running" /\ ptySize'[x] = 1 /\ ~Started(x)'
    /\ UISame(x) /\ UNCHANGED <<chan[x], writes[x], read[x]>>
    /\ x \in claimed' <=> x \in claimed

SendsLine(x) ==
    /\ record[x] # "live" /\ loop[x] = "running" /\ x \in claimed /\ ~Started(x)
    /\ x \in claimed' /\ Started(x)'
    /\ chan'[x] = chan[x] \o <<SpareLine>>
    /\ UISame(x) /\ UNCHANGED <<loop[x], ptySize[x], writes[x], read[x]>>

(* Keys and replies: into the channel, or into the buffer.                 *)
Enters(x, ms) ==
    /\ Open(x) /\ UNCHANGED <<record[x], size[x]>> /\ WarmSame(x)
    /\ UNCHANGED <<loop[x], ptySize[x], writes[x], read[x]>>
    /\ record[x] = "live" =>
          loop[x] = "running" /\ chan'[x] = chan[x] \o ms /\ UNCHANGED pending[x]
    /\ record[x] = "pending" => pending'[x] = pending[x] \o ms /\ UNCHANGED chan[x]

TypesKey(x) == Enters(x, <<Msg("key", typed[x] + 1, size[x])>>) /\ typed'[x] = typed[x] + 1
GetsReplies(x) == Enters(x, [i \in 1..asks[x] |-> Reply]) /\ UNCHANGED typed[x]

Grows(x) ==
    /\ Open(x) /\ size'[x] = size[x] + 1 /\ UNCHANGED <<record[x], typed[x], pending[x]>>
    /\ WarmSame(x) /\ UNCHANGED <<loop[x], ptySize[x], writes[x], read[x]>>
    /\ record[x] = "live" => loop[x] = "running" /\ chan'[x] = chan[x] \o <<Resize(size[x] + 1)>>
    /\ record[x] = "pending" => UNCHANGED chan[x]

Attaches(x) ==
    /\ record[x] = "pending" /\ record'[x] = "live" /\ loop[x] = "running"
    /\ opening[x] = "done"
    /\ chan'[x] = chan[x] \o Replay(x) /\ pending'[x] = <<>>
    /\ UNCHANGED <<size[x], typed[x]>> /\ WarmSame(x)
    /\ UNCHANGED <<loop[x], ptySize[x], writes[x], read[x]>>

TakesInput(x) ==
    /\ chan[x] # <<>> /\ Head(chan[x]).kind \in InputKinds /\ chan'[x] = Tail(chan[x])
    /\ writes'[x] = Append(writes[x], Head(chan[x]))
    /\ UISame(x) /\ WarmSame(x) /\ UNCHANGED <<loop[x], ptySize[x], read[x]>>

TakesResize(x) ==
    /\ chan[x] # <<>> /\ Head(chan[x]).kind = "resize" /\ chan'[x] = Tail(chan[x])
    /\ ptySize'[x] = Head(chan[x]).size
    /\ UISame(x) /\ WarmSame(x) /\ UNCHANGED <<loop[x], writes[x], read[x]>>

Reads(x) ==
    /\ writes[x] # <<>> /\ writes'[x] = Tail(writes[x])
    /\ read'[x] = Append(read[x], Head(writes[x]))
    /\ UISame(x) /\ WarmSame(x) /\ UNCHANGED <<loop[x], ptySize[x], chan[x]>>

Moves(x) ==
    \/ Rests(x) \/ Leaves(x) \/ Opens(x) \/ IsClaimed(x) \/ Starts(x) \/ SendsLine(x)
    \/ TypesKey(x) \/ GetsReplies(x) \/ Grows(x) \/ Attaches(x)
    \/ TakesInput(x) \/ TakesResize(x) \/ Reads(x)

LEMMA PostAt ==
  ASSUME LoopTypes, NEW out, \A s \in SessionIds : out[s] \in Seq(Msgs), Post(out),
         NEW x \in SessionIds
  PROVE  /\ chan'[x] = IF loop[x] = "running" THEN chan[x] \o out[x] ELSE chan[x]
         /\ out[x] = <<>> => chan'[x] = chan[x]
<1>1. chan[x] \in Seq(Msgs) /\ out[x] \in Seq(Msgs) BY DEF LoopTypes
<1>2. chan'[x] = IF loop[x] = "running" THEN chan[x] \o out[x] ELSE chan[x] BY DEF Post
<1>3. chan[x] \o <<>> = chan[x] BY <1>1
<1>4. QED BY <1>2, <1>3

LEMMA PostToAt ==
  ASSUME LoopTypes, NEW r \in SessionIds, NEW ms \in Seq(Msgs), PostTo(r, ms),
         NEW x \in SessionIds
  PROVE  chan'[x] = IF x = r /\ loop[r] = "running" THEN chan[r] \o ms ELSE chan[x]
BY PostToTypes

LEMMA WriteAt ==
  ASSUME LoopTypes, UITypes, NEW out, \A s \in SessionIds : out[s] \in Seq(Msgs), Write(out),
         NEW x \in SessionIds
  PROVE  /\ record[x] = "live" /\ loop[x] = "running" => chan'[x] = chan[x] \o out[x]
         /\ record[x] # "live" \/ out[x] = <<>> => chan'[x] = chan[x]
         /\ pending'[x] = IF record[x] = "pending" THEN pending[x] \o out[x] ELSE pending[x]
         /\ out[x] = <<>> => pending'[x] = pending[x]
<1> DEFINE sent == [s \in SessionIds |-> IF record[s] = "live" THEN out[s] ELSE <<>>]
<1>1. Post(sent) /\ (\A s \in SessionIds : sent[s] \in Seq(Msgs))
  BY DEF Write
<1>2. sent[x] = IF record[x] = "live" THEN out[x] ELSE <<>> OBVIOUS
<1> HIDE DEF sent
<1>3. /\ chan'[x] = IF loop[x] = "running" THEN chan[x] \o sent[x] ELSE chan[x]
      /\ sent[x] = <<>> => chan'[x] = chan[x]
  BY <1>1, PostAt
<1>4. pending[x] \in Seq(Msgs) /\ pending[x] \o <<>> = pending[x] BY DEF UITypes
<1>5. pending'[x] = IF record[x] = "pending" THEN pending[x] \o out[x] ELSE pending[x]
  BY DEF Write
<1>6. QED BY <1>2, <1>3, <1>4, <1>5

LEMMA MovesStep ==
  ASSUME Types, Lifecycle, Processes, [Next]_vars, NEW x \in SessionIds
  PROVE  Moves(x)
<1>1. /\ <<Shutdown>> \in Seq(Msgs) /\ <<SpareLine>> \in Seq(Msgs) /\ Dropped \in Seq(Msgs)
  BY MessageTypes DEF Dropped
<1>2. LifeOf(x) /\ ProcessOf(x) BY DEF Lifecycle, Processes
<1> USE DEF Types, UITypes, JobTypes, LoopTypes, Rests, UISame, LoopSame, WarmSame,
            Started, uiVars, jobVars, loopVars
<1>3. ASSUME NEW s \in SessionIds, NEW t \in Templates \cup {Cold}, OpenSession(s, t)
      PROVE  Moves(x)
  <2>1. CASE x = s BY <1>2, <1>3, <2>1 DEF OpenSession, Moves, Opens, LifeOf, ProcessOf
  <2>2. CASE x # s BY <1>3, <2>2 DEF OpenSession, Moves
  <2>3. QED BY <2>1, <2>2
<1>4. ASSUME NEW s \in SessionIds, Type(s) PROVE Moves(x)
  <2> DEFINE out == [t \in SessionIds |->
                       IF t = s THEN <<Msg("key", typed'[s], size[s])>> ELSE <<>>]
  <2>1. typed'[s] = typed[s] + 1 /\ typed[s] + 1 \in Nat /\ size[s] \in Nat BY <1>4 DEF Type
  <2>2. \A t \in SessionIds : out[t] \in Seq(Msgs)
    <3>1. Msg("key", typed'[s], size[s]) \in Msgs BY ONLY <2>1, MessageTypes
    <3>2. QED BY <3>1
  <2>3. Write(out) BY <1>4 DEF Type
  <2>4. out[x] = IF x = s THEN <<Msg("key", typed[x] + 1, size[x])>> ELSE <<>> BY <2>1
  <2> HIDE DEF out
  <2>5. /\ record[x] = "live" /\ loop[x] = "running" => chan'[x] = chan[x] \o out[x]
        /\ record[x] # "live" \/ out[x] = <<>> => chan'[x] = chan[x]
        /\ pending'[x] = IF record[x] = "pending" THEN pending[x] \o out[x] ELSE pending[x]
        /\ out[x] = <<>> => pending'[x] = pending[x]
    BY <2>2, <2>3, WriteAt
  <2>6. CASE x = s /\ record[x] = "live" /\ loop[x] # "running"
    BY <1>2, <1>4, <2>6 DEF Type, Moves, Leaves, LifeOf
  <2>7. CASE x = s /\ ~(record[x] = "live" /\ loop[x] # "running")
    <3>1. TypesKey(x) BY <1>4, <2>1, <2>4, <2>5, <2>7 DEF Type, TypesKey, Enters
    <3>2. QED BY <3>1 DEF Moves
  <2>8. CASE x # s BY <1>4, <2>4, <2>5, <2>8 DEF Type, Moves
  <2>9. QED BY <2>6, <2>7, <2>8
<1>5. ASSUME NEW s \in SessionIds, ResizePane(s) PROVE Moves(x)
  <2>1. <<Resize(size[s] + 1)>> \in Seq(Msgs) BY MessageTypes
  <2>2. chan'[x] = IF x = s /\ record[s] = "live" /\ loop[s] = "running"
                   THEN chan[s] \o <<Resize(size[s] + 1)>> ELSE chan[x]
    BY <1>5, <2>1, PostToAt DEF ResizePane
  <2>3. CASE x = s /\ record[x] = "live" /\ loop[x] # "running"
    BY <1>2, <1>5, <2>3 DEF ResizePane, Moves, Leaves, LifeOf
  <2>4. CASE x = s /\ ~(record[x] = "live" /\ loop[x] # "running")
    <3>1. Grows(x) BY <1>5, <2>2, <2>4 DEF ResizePane, Grows
    <3>2. QED BY <3>1 DEF Moves
  <2>5. CASE x # s BY <1>5, <2>2, <2>5 DEF ResizePane, Moves
  <2>6. QED BY <2>3, <2>4, <2>5
<1>6. ASSUME NEW s \in SessionIds, CloseSession(s) PROVE Moves(x)
  <2>1. CASE x = s BY <1>6, <2>1 DEF CloseSession, Moves, Leaves, Open
  <2>2. CASE x # s
    <3>1. chan'[x] = chan[x] BY <1>1, <1>6, <2>2, PostToAt DEF CloseSession
    <3>2. QED BY <1>6, <2>2, <3>1 DEF CloseSession, Moves
  <2>3. QED BY <2>1, <2>2
<1>7. CASE DrainEvents
  <2> DEFINE out == [s \in SessionIds |-> [i \in 1..asks[s] |-> Reply]]
  <2>1. \A s \in SessionIds : out[s] \in Seq(Msgs)
    BY ONLY AskTypes, MessageTypes DEF AskTypes
  <2>2. Write(out) BY <1>7 DEF DrainEvents
  <2>3. out[x] = [i \in 1..asks[x] |-> Reply] OBVIOUS
  <2> HIDE DEF out
  <2>4. /\ record[x] = "live" /\ loop[x] = "running" => chan'[x] = chan[x] \o out[x]
        /\ record[x] # "live" => chan'[x] = chan[x]
        /\ pending'[x] = IF record[x] = "pending" THEN pending[x] \o out[x] ELSE pending[x]
    BY <2>1, <2>2, WriteAt
  <2>5. CASE ~Open(x) \/ (record[x] = "live" /\ loop[x] # "running")
    BY <1>2, <1>7, <2>5 DEF DrainEvents, Moves, Leaves, LifeOf, Open
  <2>6. CASE Open(x) /\ ~(record[x] = "live" /\ loop[x] # "running")
    <3>1. GetsReplies(x)
      BY <1>7, <2>3, <2>4, <2>6 DEF DrainEvents, GetsReplies, Enters
    <3>2. QED BY <3>1 DEF Moves
  <2>7. QED BY <2>5, <2>6
<1>8. CASE PollPendingSpawns
  <2> DEFINE finished == {s \in spawns : result[s] # "none"}
             attached == {s \in finished : result[s] = "attachment" /\ record[s] = "pending"}
             orphaned == {s \in finished : result[s] = "attachment" /\ record[s] = "gone"}
             failed == {s \in finished : result[s] = "error" /\ record[s] = "pending"}
             out == [s \in SessionIds |-> IF s \in attached THEN Replay(s)
                                          ELSE IF s \in orphaned THEN Dropped ELSE <<>>]
  <2>1. \A s \in SessionIds : out[s] \in Seq(Msgs)
    <3>1. \A s \in SessionIds : <<Resize(size[s])>> \in Seq(Msgs) BY MessageTypes
    <3>2. \A s \in SessionIds : Replay(s) \in Seq(Msgs) BY <3>1 DEF Replay
    <3>3. QED BY <1>1, <3>2
  <2>2. Post(out) BY <1>8 DEF PollPendingSpawns
  <2>3. /\ x \in attached => out[x] = Replay(x)
        /\ x \notin attached /\ x \notin orphaned => out[x] = <<>>
    OBVIOUS
  <2> HIDE DEF out
  <2>4. /\ chan'[x] = IF loop[x] = "running" THEN chan[x] \o out[x] ELSE chan[x]
        /\ out[x] = <<>> => chan'[x] = chan[x]
    BY <2>1, <2>2, PostAt
  <2>5. CASE x \in orphaned \/ x \in failed \/ (x \in attached /\ loop[x] # "running")
    BY <1>2, <1>8, <2>5 DEF PollPendingSpawns, Moves, Leaves, LifeOf, Open
  <2>6. CASE x \in attached /\ loop[x] = "running"
    <3>1. Attaches(x)
      BY <1>2, <1>8, <2>3, <2>4, <2>6 DEF PollPendingSpawns, Attaches, LifeOf
    <3>2. QED BY <3>1 DEF Moves
  <2>7. CASE x \notin attached /\ x \notin orphaned /\ x \notin failed
    BY <1>8, <2>3, <2>4, <2>7 DEF PollPendingSpawns, Moves
  <2>8. QED BY <2>5, <2>6, <2>7
<1>9. CASE Quit BY <1>9 DEF Quit, Moves, Leaves, Open
<1>10. ASSUME NEW s \in SessionIds, SkipOpen(s) \/ OpenCold(s) PROVE Moves(x)
  BY <1>2, <1>10 DEF SkipOpen, OpenCold, Moves, LifeOf
<1>11. ASSUME NEW s \in SessionIds, NEW r \in {"attachment", "error"}, Finish(s, r),
              UNCHANGED <<uiVars, claimed, ptySize, loop, writes, read>>,
              opening[s] \in {"queued", "opening", "opened"}, opening[s] = "opened" \/ r = "error"
       PROVE  Moves(x)
  <2>1. CASE x = s /\ r = "attachment" /\ s \notin spawns
    BY <1>2, <1>11, <2>1 DEF Finish, Moves, Leaves, Open, LifeOf
  <2>2. CASE x # s \/ r # "attachment" \/ s \in spawns
    <3>1. chan'[x] = chan[x] BY <1>1, <1>11, <2>2, PostToAt DEF Finish
    <3>2. CASE loop[x] = "none" \/ x # s \/ opening[s] = "opened"
      BY <1>11, <3>1, <3>2 DEF Finish, Moves, IsClaimed
    <3>3. QED BY <1>2, <1>11, <3>2 DEF ProcessOf
  <2>3. QED BY <2>1, <2>2
<1>12. ASSUME NEW s \in SessionIds, OpenFails(s) PROVE Moves(x)
  BY <1>11, <1>12 DEF OpenFails
<1>13. ASSUME NEW s \in SessionIds, NEW fits \in BOOLEAN, Claim(s, fits) PROVE Moves(x)
  BY <1>2, <1>13 DEF Claim, Moves, IsClaimed, ProcessOf
<1>14. ASSUME NEW s \in SessionIds, NEW started \in BOOLEAN, Replenish(s, started)
       PROVE  Moves(x)
  BY <1>14 DEF Replenish, Moves
<1>15. ASSUME NEW s \in SessionIds, NEW queries \in 0..1, StartLoop(s, queries) PROVE Moves(x)
  <2>1. CASE x = s BY <1>2, <1>15, <2>1 DEF StartLoop, Moves, Starts, ProcessOf
  <2>2. CASE x # s BY <1>15, <2>2 DEF StartLoop, Moves
  <2>3. QED BY <2>1, <2>2
<1>16. ASSUME NEW s \in SessionIds, SendLine(s) PROVE Moves(x)
  <2>1. chan'[x] = IF x = s /\ loop[s] = "running" THEN chan[s] \o <<SpareLine>> ELSE chan[x]
    BY <1>1, <1>16, PostToAt DEF SendLine
  <2>2. CASE x = s /\ loop[x] = "running"
    <3>1. SendsLine(x) BY <1>2, <1>16, <2>1, <2>2 DEF SendLine, SendsLine, LifeOf
    <3>2. QED BY <3>1 DEF Moves
  <2>3. CASE x = s /\ loop[x] # "running"
    BY <1>2, <1>16, <2>3 DEF SendLine, Moves, Leaves, LifeOf
  <2>4. CASE x # s BY <1>16, <2>1, <2>4 DEF SendLine, Moves
  <2>5. QED BY <2>2, <2>3, <2>4
<1>17. ASSUME NEW s \in SessionIds, Deliver(s) PROVE Moves(x)
  BY <1>11, <1>17 DEF Deliver
<1>18. ASSUME NEW p \in SessionIds, SpareStep(p) PROVE Moves(x)
  BY <1>18 DEF SpareStep, LaunchReady, LaunchFails, Fill, Abandon, SpareExits, Moves
<1>19. ASSUME NEW s \in SessionIds, LoopInput(s) PROVE Moves(x)
  <2>1. CASE x = s BY <1>19, <2>1 DEF LoopInput, Moves, TakesInput, InputKinds
  <2>2. CASE x # s BY <1>19, <2>2 DEF LoopInput, Moves
  <2>3. QED BY <2>1, <2>2
<1>20. ASSUME NEW s \in SessionIds, LoopResize(s) PROVE Moves(x)
  <2>1. CASE x = s BY <1>20, <2>1 DEF LoopResize, Moves, TakesResize
  <2>2. CASE x # s BY <1>20, <2>2 DEF LoopResize, Moves
  <2>3. QED BY <2>1, <2>2
<1>21. ASSUME NEW s \in SessionIds, LoopShutdown(s) \/ LoopBreaks(s) PROVE Moves(x)
  <2>1. EndLoop(s) BY <1>21 DEF LoopShutdown, LoopBreaks
  <2>2. QED BY <2>1 DEF EndLoop, Moves, Leaves
<1>22. ASSUME NEW s \in SessionIds, ShellReads(s) PROVE Moves(x)
  <2>1. CASE x = s BY <1>22, <2>1 DEF ShellReads, Moves, Reads
  <2>2. CASE x # s BY <1>22, <2>2 DEF ShellReads, Moves
  <2>3. QED BY <2>1, <2>2
<1>23. ASSUME NEW s \in SessionIds, ShellAsks(s) \/ ShellExits(s) PROVE Moves(x)
  BY <1>23 DEF ShellAsks, ShellExits, Moves
<1>24. CASE CloseSpares \/ UNCHANGED vars BY <1>24 DEF CloseSpares, vars, Moves
<1>25. QED
  BY <1>3, <1>4, <1>5, <1>6, <1>7, <1>8, <1>9, <1>10, <1>12, <1>13, <1>14, <1>15, <1>16,
     <1>17, <1>18, <1>19, <1>20, <1>21, <1>22, <1>23, <1>24
     DEF Next, UIStep, WorkerStep, LoopStep

-----------------------------------------------------------------------------
(* Third layer: what is typed reaches the shell once and in order.         *)

(* What is buffered, and how large the grid was for it.                    *)
BufferOf(s) ==
    /\ record[s] = "unopened" => typed[s] = 0
    /\ record[s] # "pending" => pending[s] = <<>>
    /\ \A i \in 1..Len(pending[s]) :
          pending[s][i].kind \in {"key", "reply"} /\ pending[s][i].size <= size[s]

Buffers == \A s \in SessionIds : BufferOf(s)

(* Before the session is attached, its PTY is as it was opened, and nothing *)
(* but the line of a spare is on its way; and once the line was sent, there *)
(* is something in front of what is typed.                                 *)
WaitingOf(s) ==
    loop[s] = "running" =>
        /\ record[s] = "pending" =>
              /\ ptySize[s] = 1
              /\ \A i \in 1..Len(chan[s]) : chan[s][i] = SpareLine
              /\ \A i \in 1..Len(writes[s]) : writes[s][i] = SpareLine
              /\ ~Started(s) => Sent(s) = <<>>
        /\ Open(s) /\ Started(s) => Sent(s) # <<>>

(* InputInOrder, of one session.                                           *)
OrderOf(s) ==
    Open(s) /\ loop[s] # "ended" =>
        /\ Numbered(Sent(s) \o pending[s], typed[s])
        /\ LineFirst(Sent(s), s \in claimed)

Ordered == \A s \in SessionIds : BufferOf(s) /\ WaitingOf(s) /\ OrderOf(s)

LEMMA OrderedIs == Ordered => InputInOrder
BY DEF Ordered, OrderOf, InputInOrder, Numbered, LineFirst

LEMMA OrderedInit == Types /\ Init => Ordered
<1> SUFFICES ASSUME Types, Init, NEW x \in SessionIds
             PROVE  BufferOf(x) /\ WaitingOf(x) /\ OrderOf(x)
  BY DEF Ordered
<1>1. record[x] = "unopened" /\ typed[x] = 0 /\ pending[x] = <<>> /\ loop[x] = "none"
  BY DEF Init
<1>2. QED BY <1>1 DEF BufferOf, WaitingOf, OrderOf, Open

LEMMA BuffersStep == Types /\ Lifecycle /\ Buffers /\ [Next]_vars => Buffers'
<1> SUFFICES ASSUME Types, Lifecycle, Buffers, [Next]_vars, NEW x \in SessionIds
             PROVE  BufferOf(x)'
  BY DEF Buffers
<1>1. BufferOf(x) BY DEF Buffers
<1>a. /\ pending[x] \in Seq(Msgs) /\ size[x] \in Nat \ {0} /\ typed[x] \in Nat
      /\ record[x] \in {"unopened", "pending", "live", "gone"}
  BY DEF Types, UITypes
<1>2. ASSUME NEW ms \in Seq(Msgs),
             record[x] = "pending", pending'[x] = pending[x] \o ms,
             \A i \in 1..Len(ms) : ms[i].kind \in {"key", "reply"} /\ ms[i].size <= size[x],
             UNCHANGED <<record[x], size[x]>>
      PROVE  BufferOf(x)'
  <2>1. ASSUME NEW i \in 1..Len(pending'[x])
        PROVE  pending'[x][i].kind \in {"key", "reply"} /\ pending'[x][i].size <= size[x]
    <3>1. CASE i <= Len(pending[x])
      <4>1. i \in 1..Len(pending[x]) /\ pending'[x][i] = pending[x][i] BY <1>a, <1>2, <3>1
      <4>2. QED BY <1>1, <4>1 DEF BufferOf
    <3>2. CASE i > Len(pending[x])
      <4>1. /\ i - Len(pending[x]) \in 1..Len(ms)
            /\ pending'[x][i] = ms[i - Len(pending[x])]
        BY <1>a, <1>2, <3>2
      <4>2. QED BY <1>2, <4>1
    <3>3. QED BY <1>a, <3>1, <3>2
  <2>2. QED BY <1>2, <2>1 DEF BufferOf
<1>3. ASSUME NEW s \in SessionIds, Type(s) PROVE BufferOf(x)'
  <2>1. CASE x = s /\ record[x] = "pending"
    <3> DEFINE m == Msg("key", typed[x] + 1, size[x])
    <3>1. typed'[x] = typed[x] + 1 BY <1>3, <2>1 DEF Type, Types, UITypes
    <3>2. pending'[x] = pending[x] \o <<m>> BY <1>3, <2>1, <3>1 DEF Type, Write
    <3>3. m \in Msgs /\ m.kind = "key" /\ m.size = size[x]
      <4>1. typed[x] + 1 \in Nat /\ size[x] \in Nat BY <1>a
      <4>2. QED BY <4>1, MessageTypes DEF Msg
    <3>4. <<m>> \in Seq(Msgs) /\ Len(<<m>>) = 1 /\ <<m>>[1] = m BY <3>3
    <3>5. UNCHANGED <<record[x], size[x]>> BY <1>3 DEF Type
    <3> HIDE DEF m
    <3>6. \A i \in 1..Len(<<m>>) : <<m>>[i].kind \in {"key", "reply"} /\ <<m>>[i].size <= size[x]
      BY <1>a, <3>3, <3>4
    <3>7. QED BY <1>2, <2>1, <3>2, <3>4, <3>5, <3>6
  <2>2. CASE ~(x = s /\ record[x] = "pending")
    <3>0. pending[x] \o <<>> = pending[x] BY <1>a
    <3>1. pending'[x] = pending[x]
      BY <3>0, <1>3, <2>2 DEF Type, Write
    <3>2. UNCHANGED <<record[x], size[x]>> /\ (record[x] = "unopened" => typed'[x] = typed[x])
      BY <1>3 DEF Type, Open
    <3>3. QED BY <1>1, <3>1, <3>2 DEF BufferOf
  <2>3. QED BY <2>1, <2>2
<1>4. CASE DrainEvents
  <2>1. CASE record[x] = "pending"
    <3> DEFINE ms == [i \in 1..asks[x] |-> Reply]
    <3>1. pending'[x] = pending[x] \o ms BY <1>4, <2>1 DEF DrainEvents, Write
    <3>2. ms \in Seq(Msgs) BY MessageTypes DEF Types, AskTypes
    <3>3. \A i \in 1..Len(ms) : ms[i] = Reply BY DEF Types, AskTypes
    <3>4. Reply.kind = "reply" /\ Reply.size <= size[x] BY <1>a DEF Reply, Msg
    <3>5. UNCHANGED <<record[x], size[x]>> BY <1>4 DEF DrainEvents
    <3> HIDE DEF ms
    <3>6. QED BY <1>2, <2>1, <3>1, <3>2, <3>3, <3>4, <3>5
  <2>2. CASE record[x] # "pending"
    <3>1. UNCHANGED <<record[x], size[x], typed[x], pending[x]>>
      BY <1>4, <2>2 DEF DrainEvents, Write
    <3>2. QED BY <1>1, <3>1 DEF BufferOf
  <2>3. QED BY <2>1, <2>2
<1>5. ASSUME NEW s \in SessionIds, ResizePane(s) PROVE BufferOf(x)'
  <2>1. /\ UNCHANGED <<record[x], typed[x], pending[x]>>
        /\ size'[x] \in Nat /\ size[x] <= size'[x]
    BY <1>a, <1>5 DEF ResizePane, Types, UITypes
  <2>2. \A i \in 1..Len(pending[x]) : pending[x][i].size \in Nat
    <3>1. \A i \in 1..Len(pending[x]) : pending[x][i] \in Msgs BY <1>a
    <3>2. QED BY <3>1 DEF Msgs
  <2>3. QED BY <1>1, <1>a, <2>1, <2>2 DEF BufferOf
<1>6. ASSUME NEW s \in SessionIds, CloseSession(s) PROVE BufferOf(x)'
  <2>1. CASE x = s
    <3>1. record'[x] = "gone" /\ pending'[x] = <<>>
      BY <1>6, <2>1 DEF CloseSession, Types, UITypes
    <3>2. QED BY <3>1 DEF BufferOf
  <2>2. CASE x # s
    <3>1. UNCHANGED <<record[x], size[x], typed[x], pending[x]>> BY <1>6, <2>2 DEF CloseSession
    <3>2. QED BY <1>1, <3>1 DEF BufferOf
  <2>3. QED BY <2>1, <2>2
<1>7. CASE PollPendingSpawns
  <2>1. \/ record'[x] \in {"live", "gone"} /\ pending'[x] = <<>>
        \/ UNCHANGED <<record[x], size[x], typed[x], pending[x]>>
    BY <1>7 DEF PollPendingSpawns
  <2>2. QED BY <1>1, <2>1 DEF BufferOf
<1>8. CASE Quit
  <2>1. pending'[x] = <<>> /\ typed'[x] = 0 BY <1>8 DEF Quit
  <2>2. QED BY <2>1 DEF BufferOf
<1>9. ASSUME NEW s \in SessionIds, NEW t \in Templates \cup {Cold}, OpenSession(s, t)
      PROVE  BufferOf(x)'
  <2>1. UNCHANGED <<size, typed, pending>> /\ record[s] = "unopened" BY <1>9 DEF OpenSession
  <2>2. record'[x] = IF x = s THEN "pending" ELSE record[x]
    BY <1>9 DEF OpenSession, Types, UITypes
  <2>3. QED BY <1>1, <2>1, <2>2 DEF BufferOf
<1>10. ASSUME UNCHANGED uiVars PROVE BufferOf(x)'
  BY <1>1, <1>10 DEF BufferOf, uiVars
<1>11. CASE CloseSpares \/ UNCHANGED vars BY <1>10, <1>11 DEF CloseSpares, vars
<1>12. ASSUME NEW s \in SessionIds, WorkerStep(s) \/ SpareStep(s) \/ LoopStep(s)
       PROVE  UNCHANGED uiVars
  BY <1>12
     DEF WorkerStep, SkipOpen, OpenFails, OpenCold, Claim, Replenish, StartLoop, SendLine, Deliver,
         SpareStep, LaunchReady, LaunchFails, Fill, Abandon, SpareExits,
         LoopStep, LoopInput, LoopResize, LoopShutdown, LoopBreaks, EndLoop, ShellReads,
         ShellAsks, ShellExits
<1>13. QED
  BY <1>3, <1>4, <1>5, <1>6, <1>7, <1>8, <1>9, <1>10, <1>11, <1>12 DEF Next, UIStep

(* What is read and on its way, of one session.                            *)
LEMMA SentIs ==
  /\ \A s \in SessionIds : Sent(s) = SentOf(read[s], writes[s], chan[s])
  /\ \A s \in SessionIds : Sent(s)' = SentOf(read'[s], writes'[s], chan'[s])
BY DEF Sent, SentOf

LEMMA SessionTypes ==
  ASSUME Types, NEW x \in SessionIds
  PROVE  /\ chan[x] \in Seq(Msgs) /\ writes[x] \in Seq(Msgs) /\ read[x] \in Seq(Msgs)
         /\ pending[x] \in Seq(Msgs) /\ typed[x] \in Nat /\ size[x] \in Nat /\ size[x] >= 1
         /\ ptySize[x] \in Nat /\ asks[x] \in Nat /\ Sent(x) \in Seq(Msgs)
         /\ record[x] \in {"unopened", "pending", "live", "gone"}
         /\ loop[x] \in {"none", "running", "ended"}
<1>1. chan[x] \in Seq(Msgs) /\ writes[x] \in Seq(Msgs) /\ read[x] \in Seq(Msgs)
  BY DEF Types, LoopTypes
<1>2. Sent(x) \in Seq(Msgs) BY <1>1, SentType, SentIs
<1>3. pending[x] \in Seq(Msgs) /\ typed[x] \in Nat /\ size[x] \in Nat \ {0}
  BY DEF Types, UITypes
<1>4. QED BY <1>1, <1>2, <1>3 DEF Types, UITypes, LoopTypes, AskTypes

LEMMA EntersInOrder ==
  ASSUME Types, NEW x \in SessionIds, NEW ms \in Seq(Msgs), Enters(x, ms),
         LifeOf(x), BufferOf(x), WaitingOf(x), OrderOf(x), loop[x] # "ended",
         \A i \in 1..Len(ms) : ms[i].kind \in {"key", "reply"}
  PROVE  /\ Sent(x)' \o pending'[x] = (Sent(x) \o pending[x]) \o ms
         /\ LineFirst(Sent(x)', (x \in claimed)')
         /\ WaitingOf(x)'
<1> DEFINE q == Sent(x)
           p == pending[x]
<1>1. /\ q \in Seq(Msgs) /\ p \in Seq(Msgs) /\ q \o ms \in Seq(Msgs) /\ p \o ms \in Seq(Msgs)
      /\ chan[x] \in Seq(Msgs) /\ writes[x] \in Seq(Msgs) /\ read[x] \in Seq(Msgs)
      /\ record[x] \in {"pending", "live"} /\ record'[x] = record[x]
      /\ loop'[x] = loop[x] /\ (x \in claimed' <=> x \in claimed) /\ (Started(x)' <=> Started(x))
      /\ ptySize'[x] = ptySize[x] /\ writes'[x] = writes[x] /\ read'[x] = read[x]
  BY SessionTypes DEF Enters, Open, WarmSame
<1>2. Inputs(ms) = ms
  <2>1. \A i \in 1..Len(ms) : ms[i].kind \in InputKinds BY DEF InputKinds
  <2>2. QED BY <2>1, OfKindAll DEF Inputs
<1>3. LineFirst(q, x \in claimed) BY <1>1 DEF OrderOf, Open
<1>4. CASE record[x] = "live"
  <2>1. chan'[x] = chan[x] \o ms /\ pending'[x] = p /\ p = <<>> /\ loop[x] = "running"
    BY <1>4 DEF Enters, BufferOf
  <2>2. Sent(x)' = q \o ms
    <3>1. SentOf(read[x], writes[x], chan[x] \o ms) =
            SentOf(read[x], writes[x], chan[x]) \o Inputs(ms)
      <4> DEFINE c == chan[x]
                 w == writes[x]
                 r == read[x]
      <4>1. c \in Seq(Msgs) /\ w \in Seq(Msgs) /\ r \in Seq(Msgs) /\ ms \in Seq(Msgs) BY <1>1
      <4> HIDE DEF c, w, r
      <4>2. SentOf(r, w, c \o ms) = SentOf(r, w, c) \o Inputs(ms) BY ONLY <4>1, SentMore
      <4>3. QED BY ONLY <4>2 DEF c, w, r
    <3>2. QED BY <1>1, <1>2, <2>1, <3>1, SentIs
  <2>3. x \in claimed => Started(x) BY <1>4 DEF LifeOf, Started
  <2>4. x \in claimed => q # <<>> BY <1>4, <2>1, <2>3 DEF WaitingOf, Open
  <2> HIDE DEF q, p
  <2>5. LineFirst(q \o ms, x \in claimed)
    <3>1. \A i \in 1..Len(ms) : ms[i].kind # "line" OBVIOUS
    <3>2. ms \in Seq(Msgs) OBVIOUS
    <3>3. QED BY ONLY <1>1, <1>3, <2>4, <3>1, <3>2, LineFirstMore
  <2>6. Started(x) => q \o ms # <<>>
    <3>1. Started(x) => q # <<>> BY <1>4, <2>1 DEF WaitingOf, Open, q
    <3>2. QED BY <1>1, <3>1
  <2>7. WaitingOf(x)' BY <1>1, <1>4, <2>2, <2>6 DEF WaitingOf
  <2>8. (q \o ms) \o <<>> = (q \o <<>>) \o ms BY <1>1
  <2>9. LineFirst(Sent(x)', (x \in claimed)') BY <1>1, <2>2, <2>5 DEF LineFirst
  <2>10. QED BY <2>1, <2>2, <2>7, <2>8, <2>9 DEF p, q
<1>5. CASE record[x] = "pending"
  <2>1. chan'[x] = chan[x] /\ pending'[x] = p \o ms BY <1>5 DEF Enters
  <2>2. Sent(x)' = q BY <1>1, <2>1, SentIs
  <2>3. WaitingOf(x)' BY <1>1, <1>5, <2>1, <2>2 DEF WaitingOf, Open
  <2>4. LineFirst(Sent(x)', (x \in claimed)') BY <1>1, <1>3, <2>2 DEF LineFirst
  <2> HIDE DEF q, p
  <2>5. q \o (p \o ms) = (q \o p) \o ms
    <3>1. ASSUME NEW a \in Seq(Msgs), NEW b \in Seq(Msgs), NEW d \in Seq(Msgs)
          PROVE  a \o (b \o d) = (a \o b) \o d
      OBVIOUS
    <3>2. QED BY <1>1, <3>1
  <2>6. QED BY <2>1, <2>2, <2>3, <2>4, <2>5 DEF p, q
<1>6. QED BY <1>1, <1>4, <1>5

LEMMA OrderedMove ==
  ASSUME Types, NEW x \in SessionIds, LifeOf(x), ProcessOf(x), BufferOf(x), WaitingOf(x),
         OrderOf(x), Moves(x)
  PROVE  WaitingOf(x)' /\ OrderOf(x)'
<1>1. /\ chan[x] \in Seq(Msgs) /\ writes[x] \in Seq(Msgs) /\ read[x] \in Seq(Msgs)
      /\ pending[x] \in Seq(Msgs) /\ typed[x] \in Nat /\ size[x] \in Nat
      /\ asks[x] \in Nat /\ Sent(x) \in Seq(Msgs)
  BY SessionTypes
<1> DEFINE c == chan[x]
           w == writes[x]
           r == read[x]
<1>2. c \in Seq(Msgs) /\ w \in Seq(Msgs) /\ r \in Seq(Msgs) BY <1>1
<1>3. /\ Sent(x) = SentOf(r, w, c)
      /\ Sent(x)' = SentOf(read'[x], writes'[x], chan'[x])
  BY SentIs
<1>4. loop[x] = "none" => Sent(x) = <<>> /\ c = <<>> /\ w = <<>> /\ r = <<>>
  <2>1. SentOf(<<>>, <<>>, <<>>) = <<>> BY OfKindEmpty DEF SentOf, Inputs
  <2>2. QED BY <1>3, <2>1 DEF ProcessOf
<1> HIDE DEF c, w, r
<1>5. ASSUME Sent(x)' = Sent(x), UISame(x), loop'[x] = loop[x] \/ loop[x] = "none",
             (x \in claimed' <=> x \in claimed) \/ Sent(x) = <<>>
      PROVE  OrderOf(x)'
  <2>1. SUFFICES ASSUME Open(x)', loop'[x] # "ended" PROVE OrderOf(x)'
    BY DEF OrderOf
  <2>2. /\ Numbered(Sent(x) \o pending[x], typed[x])
        /\ LineFirst(Sent(x), x \in claimed)
    BY <1>5, <2>1 DEF OrderOf, Open, UISame
  <2>3. Numbered(Sent(x)' \o pending'[x], typed'[x]) BY <1>5, <2>2 DEF UISame
  <2>4. LineFirst(Sent(x)', (x \in claimed)')
    <3>1. CASE x \in claimed' <=> x \in claimed BY <1>5, <2>2, <3>1 DEF LineFirst
    <3>2. CASE Sent(x) = <<>> BY <1>5, <3>2 DEF LineFirst
    <3>3. QED BY <1>5, <3>1, <3>2
  <2>5. QED BY <2>3, <2>4 DEF OrderOf
<1>6. CASE Rests(x)
  <2>1. Sent(x)' = Sent(x) BY <1>6, SentIs DEF Rests, LoopSame
  <2>2. WaitingOf(x)'
    BY <1>6, <2>1 DEF WaitingOf, Rests, UISame, LoopSame, WarmSame, Open
  <2>3. QED BY <1>5, <1>6, <2>1, <2>2 DEF Rests, LoopSame, WarmSame
<1>7. CASE Leaves(x) BY <1>7 DEF Leaves, WaitingOf, OrderOf, Open
<1>8. CASE Opens(x)
  <2>1. Sent(x)' = <<>> BY <1>3, <1>4, <1>8, SentIs DEF Opens, LoopSame
  <2>2. pending'[x] = <<>> /\ typed'[x] = 0 /\ loop'[x] = "none"
    BY <1>8 DEF Opens, BufferOf, LoopSame
  <2>3. Numbered(<<>> \o <<>>, 0) /\ LineFirst(<<>>, (x \in claimed)')
    <3>1. <<>> \o <<>> = <<>> /\ Len(<<>>) = 0 OBVIOUS
    <3>2. Keys(<<>>) = <<>> BY OfKindEmpty DEF Keys
    <3>3. QED BY <3>1, <3>2 DEF Numbered, LineFirst
  <2>4. QED BY <2>1, <2>2, <2>3 DEF WaitingOf, OrderOf
<1>9. CASE IsClaimed(x)
  <2>1. Sent(x)' = Sent(x) /\ Sent(x) = <<>> BY <1>4, <1>9, SentIs DEF IsClaimed, LoopSame
  <2>2. QED BY <1>5, <1>9, <2>1 DEF IsClaimed, LoopSame, WaitingOf
<1>10. CASE Starts(x)
  <2>1. Sent(x)' = Sent(x) /\ Sent(x) = <<>> BY <1>4, <1>10, SentIs DEF Starts
  <2>2. WaitingOf(x)' BY <1>4, <1>10, <2>1 DEF Starts, WaitingOf, c, w
  <2>3. QED BY <1>5, <1>10, <2>1, <2>2 DEF Starts
<1>11. CASE SendsLine(x)
  <2>1. CASE record[x] # "pending"
    BY <1>11, <2>1 DEF SendsLine, UISame, WaitingOf, OrderOf, Open
  <2>2. CASE record[x] = "pending"
    <3>1. /\ SpareLine \in Msgs /\ SpareLine.kind = "line" /\ <<SpareLine>> \in Seq(Msgs)
      BY MessageTypes DEF SpareLine, Msg
    <3>2. Sent(x) = <<>> BY <1>11, <2>2 DEF SendsLine, WaitingOf
    <3>3. Inputs(<<SpareLine>>) = <<SpareLine>> BY <3>1, OfKindOne DEF Inputs, InputKinds
    <3>4. Sent(x)' = <<SpareLine>>
      <4>1. SentOf(r, w, c \o <<SpareLine>>) = SentOf(r, w, c) \o Inputs(<<SpareLine>>)
        BY ONLY <1>2, <3>1, SentMore
      <4>2. Sent(x)' = SentOf(r, w, c \o <<SpareLine>>) BY <1>3, <1>11 DEF SendsLine, c, w, r
      <4>3. <<>> \o <<SpareLine>> = <<SpareLine>> OBVIOUS
      <4>4. QED BY <1>3, <3>2, <3>3, <4>1, <4>2, <4>3
    <3>5. Numbered(<<SpareLine>> \o pending[x], typed[x])
      <4>1. <<>> \o pending[x] = pending[x] BY <1>1
      <4>2. Numbered(pending[x], typed[x])
        BY <1>11, <2>2, <3>2, <4>1 DEF OrderOf, Open, SendsLine
      <4>3. QED BY <1>1, <4>2, NumberedLine
    <3>6. LineFirst(<<SpareLine>>, (x \in claimed)') BY <1>11, <3>1 DEF SendsLine, LineFirst
    <3>7. OrderOf(x)' BY <1>11, <3>4, <3>5, <3>6 DEF SendsLine, OrderOf, UISame
    <3>8. \A i \in 1..Len(chan'[x]) : chan'[x][i] = SpareLine
      <4>1. \A i \in 1..Len(chan[x]) : chan[x][i] = SpareLine
        BY <1>11, <2>2 DEF WaitingOf, SendsLine
      <4>2. \A i \in 1..Len(chan[x] \o <<SpareLine>>) : (chan[x] \o <<SpareLine>>)[i] = SpareLine
        BY <1>1, <4>1
      <4>3. QED BY <1>11, <4>2 DEF SendsLine
    <3>9. WaitingOf(x)'
      BY <1>11, <2>2, <3>4, <3>8 DEF SendsLine, WaitingOf, UISame
    <3>10. QED BY <3>7, <3>9
  <2>3. QED BY <2>1, <2>2
<1>12. CASE TypesKey(x)
  <2> DEFINE m == Msg("key", typed[x] + 1, size[x])
             q == Sent(x) \o pending[x]
             n == typed[x]
  <2>1. m \in Msgs /\ m.kind = "key" /\ m.n = n + 1 /\ q \in Seq(Msgs) /\ n \in Nat
    <3>1. typed[x] + 1 \in Nat BY <1>1
    <3>2. m \in Msgs BY <1>1, <3>1, MessageTypes
    <3>3. QED BY <1>1, <3>2 DEF Msg
  <2>2. Enters(x, <<m>>) /\ typed'[x] = n + 1 BY <1>12 DEF TypesKey
  <2>3. CASE loop[x] = "ended" BY <2>2, <2>3 DEF Enters, OrderOf, WaitingOf
  <2>4. CASE loop[x] # "ended"
    <3>1. Numbered(q, n) BY <2>2, <2>4 DEF OrderOf, Enters
    <3>2. /\ Sent(x)' \o pending'[x] = q \o <<m>>
          /\ LineFirst(Sent(x)', (x \in claimed)') /\ WaitingOf(x)'
      <4> HIDE DEF m, n
      <4>1. <<m>> \in Seq(Msgs) /\ \A i \in 1..Len(<<m>>) : <<m>>[i].kind \in {"key", "reply"}
        BY <2>1
      <4>2. QED BY <2>2, <2>4, <4>1, EntersInOrder
    <3> HIDE DEF m, q, n
    <3>3. Numbered(q \o <<m>>, n + 1) BY ONLY <2>1, <3>1, NumberedKey
    <3>4. OrderOf(x)' BY <2>2, <3>2, <3>3 DEF OrderOf
    <3>5. QED BY <3>2, <3>4
  <2>5. QED BY <2>3, <2>4
<1>13. CASE GetsReplies(x)
  <2> DEFINE ms == [i \in 1..asks[x] |-> Reply]
             q == Sent(x) \o pending[x]
             n == typed[x]
  <2>1. ms \in Seq(Msgs) /\ q \in Seq(Msgs) /\ n \in Nat
    <3>1. Reply \in Msgs BY MessageTypes
    <3>2. ms \in Seq(Msgs)
      <4>1. ASSUME NEW k \in Nat, NEW m \in Msgs PROVE [i \in 1..k |-> m] \in Seq(Msgs)
        OBVIOUS
      <4>2. QED BY <1>1, <3>1, <4>1
    <3>3. QED BY <1>1, <3>2
  <2>2. \A i \in 1..Len(ms) : ms[i].kind = "reply"
    <3>1. \A i \in 1..Len(ms) : ms[i] = Reply BY <1>1
    <3>2. Reply.kind = "reply" BY DEF Reply, Msg
    <3> HIDE DEF ms
    <3>3. QED BY <3>1, <3>2
  <2>3. Enters(x, ms) /\ typed'[x] = n BY <1>13 DEF GetsReplies
  <2>4. CASE loop[x] = "ended" BY <2>3, <2>4 DEF Enters, OrderOf, WaitingOf
  <2>5. CASE loop[x] # "ended"
    <3>1. Numbered(q, n) BY <2>3, <2>5 DEF OrderOf, Enters
    <3> HIDE DEF ms
    <3>2. /\ Sent(x)' \o pending'[x] = q \o ms
          /\ LineFirst(Sent(x)', (x \in claimed)') /\ WaitingOf(x)'
      <4>1. \A i \in 1..Len(ms) : ms[i].kind \in {"key", "reply"} BY <2>2
      <4>2. QED BY <2>1, <2>3, <2>5, <4>1, EntersInOrder
    <3> HIDE DEF q, n
    <3>3. Numbered(q \o ms, n)
      <4>1. \A i \in 1..Len(ms) : ms[i].kind # "key" BY <2>2
      <4>2. QED BY ONLY <2>1, <3>1, <4>1, NumberedNoKeys
    <3>4. OrderOf(x)' BY <2>3, <3>2, <3>3 DEF OrderOf
    <3>5. QED BY <3>2, <3>4
  <2>6. QED BY <2>4, <2>5
<1>14. ASSUME NEW z \in Nat PROVE <<Resize(z)>> \in Seq(Msgs) /\ Inputs(<<Resize(z)>>) = <<>>
  <2>1. Resize(z) \in Msgs /\ Resize(z).kind = "resize" BY MessageTypes DEF Resize, Msg
  <2>2. QED BY <2>1, OfKindOne DEF Inputs, InputKinds
<1>15. CASE Grows(x)
  <2>1. Sent(x)' = Sent(x)
    <3>1. CASE record[x] = "live"
      <4> DEFINE z == size[x] + 1
                 one == <<Resize(z)>>
      <4>1. z \in Nat BY <1>1
      <4>2. one \in Seq(Msgs) /\ Inputs(one) = <<>> BY <1>14, <4>1
      <4> HIDE DEF one
      <4>3. SentOf(r, w, c \o one) = SentOf(r, w, c) \o Inputs(one) BY ONLY <1>2, <4>2, SentMore
      <4>4. Sent(x)' = SentOf(r, w, c \o one) BY <1>3, <1>15, <3>1 DEF Grows, c, w, r, one
      <4>5. Sent(x) \o <<>> = Sent(x) BY <1>1
      <4>6. QED BY <1>3, <4>2, <4>3, <4>4, <4>5
    <3>2. CASE record[x] = "pending" BY <1>15, <3>2, SentIs DEF Grows
    <3>3. QED BY <1>15, <3>1, <3>2 DEF Grows, Open
  <2>2. OrderOf(x)'
    <3>1. CASE loop[x] = "ended" BY <1>15, <3>1 DEF Grows, OrderOf
    <3>2. CASE loop[x] # "ended"
      <4>1. LineFirst(Sent(x)', (x \in claimed)')
        BY <1>15, <2>1, <3>2 DEF Grows, OrderOf, LineFirst, WarmSame
      <4>2. QED BY <1>15, <2>1, <3>2, <4>1 DEF Grows, OrderOf
    <3>3. QED BY <3>1, <3>2
  <2>3. WaitingOf(x)' BY <1>15, <2>1 DEF Grows, WaitingOf, WarmSame, Open
  <2>4. QED BY <2>2, <2>3
<1>16. CASE Attaches(x)
  <2> DEFINE p == pending[x]
             one == <<Resize(size[x])>>
             q == Sent(x)
  <2>1. one \in Seq(Msgs) /\ Inputs(one) = <<>> /\ p \in Seq(Msgs) /\ q \in Seq(Msgs)
    BY <1>1, <1>14
  <2>2. Replay(x) = one \o p BY DEF Replay
  <2>3. Inputs(p) = p
    <3>1. \A i \in 1..Len(p) : p[i].kind \in InputKinds BY DEF BufferOf, InputKinds
    <3>2. QED BY <2>1, <3>1, OfKindAll DEF Inputs
  <2>4. /\ record[x] = "pending" /\ record'[x] = "live" /\ loop[x] = "running"
        /\ loop'[x] = loop[x] /\ opening[x] = "done" /\ typed'[x] = typed[x]
        /\ (x \in claimed' <=> x \in claimed) /\ (Started(x)' <=> Started(x))
        /\ pending'[x] = <<>> /\ Sent(x)' = SentOf(r, w, c \o (one \o p))
    BY <1>3, <1>16, <2>2 DEF Attaches, WarmSame, c, w, r
  <2>5. x \in claimed => q # <<>> BY <2>4 DEF Started, WaitingOf, Open
  <2>6. Numbered(q \o p, typed[x]) /\ LineFirst(q, x \in claimed)
    BY <2>4 DEF OrderOf, Open
  <2>7. \A i \in 1..Len(p) : p[i].kind # "line" BY DEF BufferOf
  <2> HIDE DEF p, one, q
  <2>8. Sent(x)' = q \o p
    <3>1. one \o p \in Seq(Msgs) BY <2>1
    <3>2. SentOf(r, w, c \o (one \o p)) = SentOf(r, w, c) \o Inputs(one \o p)
      <4> DEFINE ms == one \o p
      <4>1. ms \in Seq(Msgs) BY <3>1
      <4> HIDE DEF ms
      <4>2. SentOf(r, w, c \o ms) = SentOf(r, w, c) \o Inputs(ms) BY ONLY <1>2, <4>1, SentMore
      <4>3. QED BY <4>2 DEF ms
    <3>3. Inputs(one \o p) = Inputs(one) \o Inputs(p) BY <2>1, OfKindConcat DEF Inputs
    <3>4. <<>> \o p = p BY <2>1
    <3>5. QED BY <1>3, <2>1, <2>3, <2>4, <3>2, <3>3, <3>4 DEF q
  <2>9. (q \o p) \o <<>> = q \o p
    <3>1. q \o p \in Seq(Msgs) BY <2>1
    <3>2. QED BY <3>1, ConcatEmptySeq
  <2>10. LineFirst(q \o p, x \in claimed) BY ONLY <2>1, <2>5, <2>6, <2>7, LineFirstMore
  <2>11. LineFirst(Sent(x)', (x \in claimed)') BY <2>4, <2>8, <2>10 DEF LineFirst
  <2>12. OrderOf(x)' BY <2>4, <2>6, <2>8, <2>9, <2>11 DEF OrderOf
  <2>13. x \in claimed => q \o p # <<>> BY <2>1, <2>5
  <2>14. Started(x) => x \in claimed BY DEF Started
  <2>15. WaitingOf(x)' BY <2>4, <2>8, <2>13, <2>14 DEF WaitingOf
  <2>16. QED BY <2>12, <2>15
<1>17. CASE TakesInput(x)
  <2>1. c # <<>> /\ Head(c).kind \in InputKinds BY <1>17 DEF TakesInput, c
  <2>2. Sent(x)' = Sent(x)
    <3>1. SentOf(r, Append(w, Head(c)), Tail(c)) = SentOf(r, w, c)
      BY ONLY <1>2, <2>1, SentTaken
    <3>2. Sent(x)' = SentOf(r, Append(w, Head(c)), Tail(c))
      BY <1>3, <1>17 DEF TakesInput, c, w, r
    <3>3. QED BY <1>3, <3>1, <3>2
  <2>3. WaitingOf(x)'
    <3>1. ASSUME \A i \in 1..Len(c) : c[i] = SpareLine, \A i \in 1..Len(w) : w[i] = SpareLine
          PROVE  /\ \A i \in 1..Len(Tail(c)) : Tail(c)[i] = SpareLine
                 /\ \A i \in 1..Len(Append(w, Head(c))) : Append(w, Head(c))[i] = SpareLine
      BY <1>2, <2>1, <3>1
    <3>2. chan'[x] = Tail(c) /\ writes'[x] = Append(w, Head(c)) BY <1>17 DEF TakesInput, c, w
    <3>3. loop[x] = "running" /\ record[x] = "pending" =>
             /\ \A i \in 1..Len(c) : c[i] = SpareLine
             /\ \A i \in 1..Len(w) : w[i] = SpareLine
      BY DEF WaitingOf, c, w
    <3>4. QED
      BY <1>17, <2>2, <3>1, <3>2, <3>3 DEF TakesInput, UISame, WarmSame, WaitingOf, Open
  <2>4. QED BY <1>5, <1>17, <2>2, <2>3 DEF TakesInput, WarmSame
<1>18. CASE TakesResize(x)
  <2>1. c # <<>> /\ Head(c).kind \notin InputKinds /\ Head(c).kind = "resize"
    BY <1>18 DEF TakesResize, c, InputKinds
  <2>2. Sent(x)' = Sent(x)
    <3>1. SentOf(r, w, Tail(c)) = SentOf(r, w, c) BY ONLY <1>2, <2>1, SentTaken
    <3>2. Sent(x)' = SentOf(r, w, Tail(c)) BY <1>3, <1>18 DEF TakesResize, c, w, r
    <3>3. QED BY <1>3, <3>1, <3>2
  <2>3. ~(loop[x] = "running" /\ record[x] = "pending")
    <3>1. SpareLine.kind # "resize" BY DEF SpareLine, Msg
    <3>2. Head(c) = c[1] /\ 1 \in 1..Len(c) BY <1>2, <2>1
    <3>3. QED BY <2>1, <3>1, <3>2 DEF WaitingOf, c
  <2>4. WaitingOf(x)'
    BY <1>18, <2>2, <2>3 DEF TakesResize, UISame, WarmSame, WaitingOf, Open
  <2>5. QED BY <1>5, <1>18, <2>2, <2>4 DEF TakesResize, WarmSame
<1>19. CASE Reads(x)
  <2>1. w # <<>> BY <1>19 DEF Reads, w
  <2>2. Sent(x)' = Sent(x)
    <3>1. SentOf(Append(r, Head(w)), Tail(w), c) = SentOf(r, w, c)
      BY ONLY <1>2, <2>1, SentRead
    <3>2. Sent(x)' = SentOf(Append(r, Head(w)), Tail(w), c) BY <1>3, <1>19 DEF Reads, c, w, r
    <3>3. QED BY <1>3, <3>1, <3>2
  <2>3. WaitingOf(x)'
    <3>1. ASSUME \A i \in 1..Len(w) : w[i] = SpareLine
          PROVE  \A i \in 1..Len(Tail(w)) : Tail(w)[i] = SpareLine
      BY <1>2, <2>1, <3>1
    <3>2. writes'[x] = Tail(w) BY <1>19 DEF Reads, w
    <3>3. loop[x] = "running" /\ record[x] = "pending" => \A i \in 1..Len(w) : w[i] = SpareLine
      BY DEF WaitingOf, w
    <3>4. QED BY <1>19, <2>2, <3>1, <3>2, <3>3 DEF Reads, UISame, WarmSame, WaitingOf, Open
  <2>4. QED BY <1>5, <1>19, <2>2, <2>3 DEF Reads, WarmSame
<1>20. QED
  BY <1>6, <1>7, <1>8, <1>9, <1>10, <1>11, <1>12, <1>13, <1>15, <1>16, <1>17, <1>18, <1>19
     DEF Moves

LEMMA OrderedStep ==
  Types /\ Lifecycle /\ Processes /\ Ordered /\ [Next]_vars => Ordered'
<1> SUFFICES ASSUME Types, Lifecycle, Processes, Ordered, [Next]_vars PROVE Ordered'
  OBVIOUS
<1>1. Buffers' BY BuffersStep DEF Ordered, Buffers
<1>2. ASSUME NEW x \in SessionIds PROVE WaitingOf(x)' /\ OrderOf(x)'
  BY OrderedMove, MovesStep DEF Lifecycle, Processes, Ordered
<1>3. QED BY <1>1, <1>2 DEF Ordered, Buffers

-----------------------------------------------------------------------------
(* Fourth layer: the PTY follows the session's size.                       *)

(* The sizes on their way only grow, from the PTY's to the session's; and  *)
(* no input is ahead of the resize it was typed after.                     *)
EndsAt(q, p, z) ==
    LET sizes == Resizes(q) IN IF sizes = <<>> THEN p = z ELSE sizes[Len(sizes)].size = z

Covered(q, p, z) ==
    /\ p <= z
    /\ \A i \in 1..Len(q) : q[i].kind = "resize" => p <= q[i].size /\ q[i].size <= z
    /\ \A i, j \in 1..Len(q) :
          i < j /\ q[i].kind = "resize" /\ q[j].kind = "resize" => q[i].size <= q[j].size
    /\ \A j \in 1..Len(q) : q[j].kind \in InputKinds =>
          \/ q[j].size <= p
          \/ \E i \in 1..Len(q) : i < j /\ q[i].kind = "resize" /\ q[j].size <= q[i].size
    /\ EndsAt(q, p, z)

SizesOf(s) ==
    record[s] = "live" /\ loop[s] = "running" =>
        /\ Covered(chan[s], ptySize[s], size[s])
        /\ \A i \in 1..Len(writes[s]) : writes[s][i].size <= ptySize[s]

Sized == \A s \in SessionIds : SizesOf(s)

LEMMA SizedIs == Sized => PtyFollowsSession
BY DEF Sized, SizesOf, Covered, EndsAt, PtyFollowsSession

LEMMA MessageSizes ==
  ASSUME NEW q \in Seq(Msgs)
  PROVE  \A i \in 1..Len(q) : q[i] \in Msgs /\ q[i].size \in Nat
<1>1. \A i \in 1..Len(q) : q[i] \in Msgs OBVIOUS
<1>2. QED BY <1>1 DEF Msgs

LEMMA CoveredInputs ==
  ASSUME NEW q \in Seq(Msgs), NEW p \in Nat, NEW z \in Nat, Covered(q, p, z),
         NEW ms \in Seq(Msgs),
         \A i \in 1..Len(ms) : ms[i].kind \in InputKinds /\ ms[i].size <= z
  PROVE  Covered(q \o ms, p, z)
<1> DEFINE all == q \o ms
<1>1. /\ Len(q) \in Nat /\ Len(ms) \in Nat /\ Len(all) = Len(q) + Len(ms)
      /\ \A i \in 1..Len(q) : all[i] = q[i]
      /\ \A i \in 1..Len(ms) : all[Len(q) + i] = ms[i]
  OBVIOUS
<1>2. \A i \in 1..Len(all) : all[i].kind = "resize" => i \in 1..Len(q) /\ all[i] = q[i]
  <2>1. SUFFICES ASSUME NEW i \in 1..Len(all), i > Len(q) PROVE all[i].kind # "resize"
    BY <1>1
  <2>2. i - Len(q) \in 1..Len(ms) /\ all[i] = ms[i - Len(q)] BY <1>1, <2>1
  <2>3. QED BY <2>2 DEF InputKinds
<1>3. EndsAt(all, p, z)
  <2>1. Resizes(ms) = <<>>
    <3>1. \A i \in 1..Len(ms) : ms[i].kind \notin {"resize"} BY DEF InputKinds
    <3>2. QED BY <3>1, OfKindNone DEF Resizes
  <2>2. Resizes(all) = Resizes(q) \o <<>> BY <2>1, OfKindConcat DEF Resizes
  <2>3. Resizes(q) \in Seq(Msgs) BY OfKindType DEF Resizes
  <2>4. Resizes(all) = Resizes(q) BY <2>2, <2>3, ConcatEmptySeq
  <2>5. QED BY <2>4 DEF EndsAt, Covered
<1>4. p = z \/ \E i \in 1..Len(q) : q[i].kind = "resize" /\ q[i].size = z
  <2>1. CASE Resizes(q) = <<>> BY <2>1 DEF Covered, EndsAt
  <2>2. CASE Resizes(q) # <<>>
    <3> DEFINE k == Resizes(q)
    <3>1. k \in Seq(Msgs) BY OfKindType DEF Resizes
    <3>2. k[Len(k)].size = z BY <2>2 DEF Covered, EndsAt
    <3>3. \A i \in 1..Len(k) : k[i].kind = "resize" /\ \E j \in 1..Len(q) : k[i] = q[j]
      BY OfKindType DEF Resizes
    <3>4. Len(k) \in 1..Len(k)
      <4> HIDE DEF k
      <4>1. QED BY <2>2, <3>1 DEF k
    <3> HIDE DEF k
    <3>5. QED BY <3>2, <3>3, <3>4
  <2>3. QED BY <2>1, <2>2
<1>5. ASSUME NEW j \in 1..Len(all), all[j].kind \in InputKinds
      PROVE  \/ all[j].size <= p
             \/ \E i \in 1..Len(all) : i < j /\ all[i].kind = "resize" /\ all[j].size <= all[i].size
  <2>1. CASE j <= Len(q)
    <3>1. j \in 1..Len(q) /\ all[j] = q[j] BY <1>1, <2>1
    <3>2. \/ q[j].size <= p
          \/ \E i \in 1..Len(q) : i < j /\ q[i].kind = "resize" /\ q[j].size <= q[i].size
      BY <1>5, <3>1 DEF Covered
    <3> HIDE DEF all
    <3>3. QED BY <1>1, <3>1, <3>2
  <2>2. CASE j > Len(q)
    <3>1. j - Len(q) \in 1..Len(ms) /\ all[j] = ms[j - Len(q)] BY <1>1, <2>2
    <3>2. all[j].size <= z BY <3>1
    <3> HIDE DEF all
    <3>3. QED BY <1>1, <1>4, <2>2, <3>2
  <2>3. QED BY <1>1, <2>1, <2>2
<1> HIDE DEF all
<1>6. \A i \in 1..Len(all) : all[i].kind = "resize" => p <= all[i].size /\ all[i].size <= z
  BY <1>2 DEF Covered
<1>7. \A i, j \in 1..Len(all) :
        i < j /\ all[i].kind = "resize" /\ all[j].kind = "resize" => all[i].size <= all[j].size
  BY <1>2 DEF Covered
<1>8. QED BY <1>3, <1>5, <1>6, <1>7 DEF Covered, all

LEMMA CoveredResize ==
  ASSUME NEW q \in Seq(Msgs), NEW p \in Nat, NEW z \in Nat, Covered(q, p, z),
         NEW y \in Nat, z <= y
  PROVE  Covered(q \o <<Resize(y)>>, p, y)
<1> DEFINE m == Resize(y)
           all == q \o <<m>>
           last == Len(q) + 1
<1>1. m \in Msgs /\ m.kind = "resize" /\ m.size = y BY MessageTypes DEF Resize, Msg
<1>2. \A i \in 1..Len(q) : q[i].size \in Nat BY MessageSizes
<1>3. EndsAt(all, p, y)
  <2> DEFINE k == Resizes(q)
  <2>1. <<m>> \in Seq(Msgs) /\ Resizes(<<m>>) = <<m>> BY <1>1, OfKindOne DEF Resizes
  <2>2. Resizes(all) = k \o <<m>>
    <3> HIDE DEF m
    <3>1. QED BY <2>1, OfKindConcat DEF Resizes
  <2>3. k \in Seq(Msgs) BY OfKindType DEF Resizes
  <2> HIDE DEF k, m
  <2>4. (k \o <<m>>) # <<>> /\ (k \o <<m>>)[Len(k \o <<m>>)] = m BY <2>3
  <2>5. QED BY <1>1, <2>2, <2>4 DEF EndsAt
<1> HIDE DEF m
<1>4. /\ Len(all) = last /\ all[last] = m /\ Len(q) \in Nat
      /\ \A i \in 1..Len(q) : all[i] = q[i]
      /\ \A i \in 1..Len(all) : i \in 1..Len(q) \/ i = last
  OBVIOUS
<1>5. \A i \in 1..Len(q) : i < last /\ i \in 1..Len(all) BY <1>4
<1> HIDE DEF all, last
<1>6. p <= y BY DEF Covered
<1>7. \A i \in 1..Len(all) : all[i].kind = "resize" => p <= all[i].size /\ all[i].size <= y
  BY <1>1, <1>2, <1>4, <1>6 DEF Covered
<1>8. ASSUME NEW i \in 1..Len(all), NEW j \in 1..Len(all),
             i < j, all[i].kind = "resize", all[j].kind = "resize"
      PROVE  all[i].size <= all[j].size
  <2>1. i \in 1..Len(q) BY <1>4, <1>8 DEF last
  <2>2. CASE j \in 1..Len(q) BY <1>4, <1>8, <2>1, <2>2 DEF Covered
  <2>3. CASE j = last BY <1>1, <1>4, <1>7, <1>8, <2>3
  <2>4. QED BY <1>4, <2>2, <2>3
<1>9. ASSUME NEW j \in 1..Len(all), all[j].kind \in InputKinds
      PROVE  \/ all[j].size <= p
             \/ \E i \in 1..Len(all) : i < j /\ all[i].kind = "resize" /\ all[j].size <= all[i].size
  <2>1. j \in 1..Len(q) BY <1>1, <1>4, <1>9 DEF InputKinds
  <2>2. \/ q[j].size <= p
        \/ \E i \in 1..Len(q) : i < j /\ q[i].kind = "resize" /\ q[j].size <= q[i].size
    BY <1>4, <1>9, <2>1 DEF Covered
  <2>3. QED BY <1>4, <1>5, <2>1, <2>2
<1>10. QED BY <1>3, <1>6, <1>7, <1>8, <1>9 DEF Covered, all, m

LEMMA CoveredTail ==
  ASSUME NEW q \in Seq(Msgs), q # <<>>, NEW p \in Nat, NEW z \in Nat, Covered(q, p, z)
  PROVE  /\ Head(q).kind \in InputKinds => Head(q).size <= p /\ Covered(Tail(q), p, z)
         /\ Head(q).kind = "resize" => p <= Head(q).size /\ Covered(Tail(q), Head(q).size, z)
<1> DEFINE h == Head(q)
           t == Tail(q)
<1>1. /\ Len(q) \in Nat /\ 1 \in 1..Len(q) /\ h = q[1] /\ Len(t) = Len(q) - 1
      /\ h \in Msgs /\ t \in Seq(Msgs)
      /\ \A i \in 1..Len(t) : i + 1 \in 1..Len(q) /\ t[i] = q[i + 1]
  OBVIOUS
<1>2. \A i \in 1..Len(q) : q[i].size \in Nat BY MessageSizes
<1>3. Resizes(q) = IF h.kind \in {"resize"} THEN <<h>> \o Resizes(t) ELSE Resizes(t)
  BY OfKindTail DEF Resizes
<1>4. Resizes(t) \in Seq(Msgs) BY <1>1, OfKindType DEF Resizes
<1> HIDE DEF h, t
<1>5. \A i, j \in 1..Len(t) :
        i < j /\ t[i].kind = "resize" /\ t[j].kind = "resize" => t[i].size <= t[j].size
  <2>1. SUFFICES ASSUME NEW i \in 1..Len(t), NEW j \in 1..Len(t), i < j,
                        t[i].kind = "resize", t[j].kind = "resize"
                 PROVE  t[i].size <= t[j].size
    OBVIOUS
  <2>2. i + 1 \in 1..Len(q) /\ j + 1 \in 1..Len(q) /\ i + 1 < j + 1 BY <1>1, <2>1
  <2>3. QED BY <1>1, <2>1, <2>2 DEF Covered
<1>6. ASSUME NEW j \in 1..Len(t), t[j].kind \in InputKinds
      PROVE  \/ t[j].size <= p
             \/ h.kind = "resize" /\ t[j].size <= h.size
             \/ \E i \in 1..Len(t) : i < j /\ t[i].kind = "resize" /\ t[j].size <= t[i].size
  <2>1. j + 1 \in 1..Len(q) /\ q[j + 1] = t[j] BY <1>1
  <2>2. CASE q[j + 1].size <= p BY <2>1, <2>2
  <2>3. CASE \E i \in 1..Len(q) : i < j + 1 /\ q[i].kind = "resize" /\ q[j + 1].size <= q[i].size
    <3>1. PICK i \in 1..Len(q) : i < j + 1 /\ q[i].kind = "resize" /\ q[j + 1].size <= q[i].size
      BY <2>3
    <3>2. CASE i = 1 BY <1>1, <2>1, <3>1, <3>2
    <3>3. CASE i # 1
      <4>1. i - 1 \in 1..Len(t) /\ i - 1 < j /\ (i - 1) + 1 = i BY <1>1, <3>1, <3>3
      <4>2. t[i - 1] = q[i] BY <1>1, <4>1
      <4>3. QED BY <2>1, <3>1, <4>1, <4>2
    <3>4. QED BY <3>2, <3>3
  <2>4. QED BY <1>6, <2>1, <2>2, <2>3 DEF Covered
<1>7. ASSUME h.kind \in InputKinds PROVE h.size <= p /\ Covered(t, p, z)
  <2>1. h.kind # "resize" BY <1>7 DEF InputKinds
  <2>2. h.size <= p
    <3>1. ~\E i \in 1..Len(q) : i < 1 OBVIOUS
    <3>2. QED BY <1>1, <1>7, <3>1 DEF Covered
  <2>3. EndsAt(t, p, z) BY <1>3, <2>1 DEF EndsAt, Covered
  <2>4. \A i \in 1..Len(t) : t[i].kind = "resize" => p <= t[i].size /\ t[i].size <= z
    BY <1>1 DEF Covered
  <2>5. p <= z BY DEF Covered
  <2>6. \A j \in 1..Len(t) : t[j].kind \in InputKinds =>
          \/ t[j].size <= p
          \/ \E i \in 1..Len(t) : i < j /\ t[i].kind = "resize" /\ t[j].size <= t[i].size
    BY <1>6, <2>1
  <2>7. QED BY <1>5, <2>2, <2>3, <2>4, <2>5, <2>6 DEF Covered
<1>8. ASSUME h.kind = "resize" PROVE p <= h.size /\ Covered(t, h.size, z)
  <2>1. p <= h.size /\ h.size <= z /\ h.size \in Nat BY <1>1, <1>2, <1>8 DEF Covered
  <2>2. EndsAt(t, h.size, z)
    <3> DEFINE k == Resizes(t)
    <3>1. Resizes(q) = <<h>> \o k BY <1>3, <1>8
    <3>2. k \in Seq(Msgs) BY <1>4
    <3> HIDE DEF k
    <3>3. CASE k = <<>>
      <4>1. <<h>> \o k = <<h>> BY <3>3
      <4>2. <<h>> # <<>> /\ <<h>>[Len(<<h>>)] = h OBVIOUS
      <4>3. h.size = z BY <3>1, <4>1, <4>2 DEF Covered, EndsAt
      <4>4. QED BY <3>3, <4>3 DEF EndsAt, k
    <3>4. CASE k # <<>>
      <4>1. <<h>> \o k # <<>> /\ (<<h>> \o k)[Len(<<h>> \o k)] = k[Len(k)] BY <1>1, <3>2, <3>4
      <4>2. k[Len(k)].size = z BY <3>1, <4>1 DEF Covered, EndsAt
      <4>3. QED BY <3>4, <4>2 DEF EndsAt, k
    <3>5. QED BY <3>3, <3>4
  <2>3. \A i \in 1..Len(t) : t[i].kind = "resize" => h.size <= t[i].size /\ t[i].size <= z
    <3>1. SUFFICES ASSUME NEW i \in 1..Len(t), t[i].kind = "resize"
                   PROVE  h.size <= t[i].size /\ t[i].size <= z
      OBVIOUS
    <3>2. i + 1 \in 1..Len(q) /\ 1 < i + 1 /\ t[i] = q[i + 1] BY <1>1
    <3>3. QED BY <1>1, <1>8, <3>1, <3>2 DEF Covered
  <2>4. \A j \in 1..Len(t) : t[j].size \in Nat BY <1>1, <1>2
  <2>5. \A j \in 1..Len(t) : t[j].kind \in InputKinds =>
          \/ t[j].size <= h.size
          \/ \E i \in 1..Len(t) : i < j /\ t[i].kind = "resize" /\ t[j].size <= t[i].size
    BY <1>6, <2>1, <2>4
  <2>6. QED BY <1>5, <2>1, <2>2, <2>3, <2>5 DEF Covered
<1>9. QED BY <1>7, <1>8 DEF h, t

LEMMA SizedMove ==
  ASSUME Types, NEW x \in SessionIds, LifeOf(x), ProcessOf(x), BufferOf(x), WaitingOf(x),
         SizesOf(x), Moves(x)
  PROVE  SizesOf(x)'
<1>1. /\ chan[x] \in Seq(Msgs) /\ writes[x] \in Seq(Msgs) /\ pending[x] \in Seq(Msgs)
      /\ typed[x] \in Nat /\ size[x] \in Nat /\ size[x] >= 1 /\ ptySize[x] \in Nat
      /\ asks[x] \in Nat
  BY SessionTypes
<1> DEFINE c == chan[x]
           w == writes[x]
           p == ptySize[x]
           z == size[x]
<1>2. c \in Seq(Msgs) /\ w \in Seq(Msgs) /\ p \in Nat /\ z \in Nat /\ z >= 1 BY <1>1
<1>3. record[x] = "live" /\ loop[x] = "running" =>
        Covered(c, p, z) /\ \A i \in 1..Len(w) : w[i].size <= p
  BY DEF SizesOf
<1> SUFFICES ASSUME record'[x] = "live", loop'[x] = "running"
             PROVE  /\ Covered(chan'[x], ptySize'[x], size'[x])
                    /\ \A i \in 1..Len(writes'[x]) : writes'[x][i].size <= ptySize'[x]
  BY DEF SizesOf
<1>4. CASE Rests(x) BY <1>4 DEF Rests, UISame, LoopSame, SizesOf
<1>5. CASE Leaves(x) BY <1>5 DEF Leaves, Open
<1>6. CASE Opens(x) BY <1>6 DEF Opens
<1>7. CASE IsClaimed(x) BY <1>7 DEF IsClaimed, LoopSame
<1>8. CASE Starts(x) BY <1>8 DEF Starts, UISame, LifeOf
<1>9. CASE SendsLine(x) BY <1>9 DEF SendsLine, UISame
<1>10. ASSUME NEW ms \in Seq(Msgs), Enters(x, ms),
              \A i \in 1..Len(ms) : ms[i].kind \in InputKinds /\ ms[i].size <= z
       PROVE  /\ Covered(chan'[x], ptySize'[x], size'[x])
              /\ \A i \in 1..Len(writes'[x]) : writes'[x][i].size <= ptySize'[x]
  <2>1. /\ record[x] = "live" /\ loop[x] = "running" /\ chan'[x] = c \o ms
        /\ size'[x] = z /\ ptySize'[x] = p /\ writes'[x] = w
    BY <1>10 DEF Enters
  <2>2. Covered(c, p, z) /\ \A i \in 1..Len(w) : w[i].size <= p BY <1>3, <2>1
  <2> HIDE DEF c, w, p, z
  <2>3. Covered(c \o ms, p, z) BY <1>2, <1>10, <2>2, CoveredInputs
  <2>4. QED BY <2>1, <2>2, <2>3
<1>11. CASE TypesKey(x)
  <2> DEFINE m == Msg("key", typed[x] + 1, size[x])
  <2>1. m \in Msgs /\ m.kind = "key" /\ m.size = z
    <3>1. typed[x] + 1 \in Nat BY <1>1
    <3>2. QED BY <1>1, <3>1, MessageTypes DEF Msg
  <2>2. Enters(x, <<m>>) BY <1>11 DEF TypesKey
  <2> HIDE DEF m, z
  <2>3. /\ <<m>> \in Seq(Msgs)
        /\ \A i \in 1..Len(<<m>>) : <<m>>[i].kind \in InputKinds /\ <<m>>[i].size <= z
    BY <1>2, <2>1 DEF InputKinds
  <2>4. QED BY <1>10, <2>2, <2>3
<1>12. CASE GetsReplies(x)
  <2> DEFINE ms == [i \in 1..asks[x] |-> Reply]
  <2>1. Reply \in Msgs /\ Reply.kind = "reply" /\ Reply.size = 0 BY MessageTypes DEF Reply, Msg
  <2>2. ms \in Seq(Msgs) /\ \A i \in 1..Len(ms) : ms[i] = Reply
    <3>1. ASSUME NEW k \in Nat, NEW m \in Msgs
          PROVE  /\ [i \in 1..k |-> m] \in Seq(Msgs)
                 /\ \A i \in 1..Len([j \in 1..k |-> m]) : [j \in 1..k |-> m][i] = m
      OBVIOUS
    <3>2. asks[x] \in Nat BY <1>1
    <3> HIDE DEF c, w, p, z
    <3>3. QED BY ONLY <2>1, <3>1, <3>2 DEF ms
  <2>3. Enters(x, ms) BY <1>12 DEF GetsReplies
  <2> HIDE DEF ms, z
  <2>4. \A i \in 1..Len(ms) : ms[i].kind \in InputKinds /\ ms[i].size <= z
    BY <1>2, <2>1, <2>2 DEF InputKinds
  <2>5. QED BY <1>10, <2>2, <2>3, <2>4
<1>13. CASE Grows(x)
  <2>1. /\ record[x] = "live" /\ loop[x] = "running" /\ chan'[x] = c \o <<Resize(z + 1)>>
        /\ size'[x] = z + 1 /\ ptySize'[x] = p /\ writes'[x] = w
    BY <1>13 DEF Grows
  <2>2. Covered(c, p, z) /\ \A i \in 1..Len(w) : w[i].size <= p BY <1>3, <2>1
  <2> HIDE DEF c, w, p, z
  <2> DEFINE y == z + 1
  <2>3. y \in Nat /\ z <= y BY <1>2
  <2> HIDE DEF y
  <2>4. Covered(c \o <<Resize(y)>>, p, y) BY <1>2, <2>2, <2>3, CoveredResize
  <2>5. QED BY <2>1, <2>2, <2>4 DEF y
<1>14. CASE Attaches(x)
  <2> DEFINE buffer == pending[x]
             one == <<Resize(z)>>
  <2>1. /\ record[x] = "pending" /\ loop[x] = "running" /\ size'[x] = z /\ ptySize'[x] = p
        /\ writes'[x] = w /\ chan'[x] = c \o (one \o buffer)
    BY <1>14 DEF Attaches, Replay
  <2>2. /\ p = 1 /\ (\A i \in 1..Len(c) : c[i] = SpareLine)
        /\ \A i \in 1..Len(w) : w[i] = SpareLine
    BY <2>1 DEF WaitingOf
  <2>3. SpareLine.kind = "line" /\ SpareLine.size = 0 BY DEF SpareLine, Msg
  <2>4. /\ buffer \in Seq(Msgs)
        /\ \A i \in 1..Len(buffer) : buffer[i].kind \in InputKinds /\ buffer[i].size <= z
    BY <1>1 DEF BufferOf, InputKinds
  <2>5. one \in Seq(Msgs)
    <3>1. Resize(z) \in Msgs BY <1>2, MessageTypes
    <3>2. QED BY <3>1
  <2> HIDE DEF c, w, p, z, buffer
  <2>6. Covered(c, p, p)
    <3>1. Resizes(c) = <<>>
      <4>1. \A i \in 1..Len(c) : c[i].kind \notin {"resize"} BY <2>2, <2>3
      <4>2. QED BY <1>2, <4>1, OfKindNone DEF Resizes
    <3>2. EndsAt(c, p, p) BY <3>1 DEF EndsAt
    <3>3. \A i \in 1..Len(c) : c[i].kind # "resize" /\ c[i].size <= p BY <2>2, <2>3
    <3>4. QED BY <1>2, <3>2, <3>3 DEF Covered
  <2>7. Covered(c \o one, p, z) BY <1>2, <2>2, <2>6, CoveredResize
  <2>8. c \o (one \o buffer) = (c \o one) \o buffer /\ c \o one \in Seq(Msgs)
    <3> HIDE DEF one
    <3>1. ASSUME NEW a \in Seq(Msgs), NEW b \in Seq(Msgs), NEW d \in Seq(Msgs)
          PROVE  a \o (b \o d) = (a \o b) \o d /\ a \o b \in Seq(Msgs)
      OBVIOUS
    <3>2. QED BY <1>2, <2>4, <2>5, <3>1
  <2>9. Covered((c \o one) \o buffer, p, z)
    <3> DEFINE q == c \o one
    <3>1. q \in Seq(Msgs) /\ Covered(q, p, z) BY <2>7, <2>8
    <3> HIDE DEF q
    <3>2. Covered(q \o buffer, p, z) BY <1>2, <2>4, <3>1, CoveredInputs
    <3>3. QED BY <3>2 DEF q
  <2>10. \A i \in 1..Len(w) : w[i].size <= p BY <1>2, <2>2, <2>3
  <2>11. QED BY <2>1, <2>8, <2>9, <2>10
<1>15. CASE TakesInput(x)
  <2>1. /\ record[x] = "live" /\ loop[x] = "running" /\ chan'[x] = Tail(c) /\ c # <<>>
        /\ Head(c).kind \in InputKinds
        /\ size'[x] = z /\ ptySize'[x] = p /\ writes'[x] = Append(w, Head(c))
    BY <1>15 DEF TakesInput, UISame
  <2>2. Covered(c, p, z) /\ \A i \in 1..Len(w) : w[i].size <= p BY <1>3, <2>1
  <2> HIDE DEF c, w, p, z
  <2>3. Head(c).size <= p /\ Covered(Tail(c), p, z) BY <1>2, <2>1, <2>2, CoveredTail
  <2>4. \A i \in 1..Len(Append(w, Head(c))) : Append(w, Head(c))[i].size <= p
    BY <1>2, <2>2, <2>3
  <2>5. QED BY <2>1, <2>3, <2>4
<1>16. CASE TakesResize(x)
  <2>1. /\ record[x] = "live" /\ loop[x] = "running" /\ chan'[x] = Tail(c) /\ c # <<>>
        /\ Head(c).kind = "resize"
        /\ size'[x] = z /\ ptySize'[x] = Head(c).size /\ writes'[x] = w
    BY <1>16 DEF TakesResize, UISame
  <2>2. Covered(c, p, z) /\ \A i \in 1..Len(w) : w[i].size <= p BY <1>3, <2>1
  <2> HIDE DEF c, w, p, z
  <2>3. p <= Head(c).size /\ Covered(Tail(c), Head(c).size, z)
    BY <1>2, <2>1, <2>2, CoveredTail
  <2>4. Head(c).size \in Nat /\ \A i \in 1..Len(w) : w[i].size \in Nat
    <3>1. Head(c) \in Msgs BY <1>2, <2>1
    <3>2. QED BY <1>2, <3>1, MessageSizes DEF Msgs
  <2>5. \A i \in 1..Len(w) : w[i].size <= Head(c).size BY <1>2, <2>2, <2>3, <2>4
  <2>6. QED BY <2>1, <2>3, <2>5
<1>17. CASE Reads(x)
  <2>1. /\ record[x] = "live" /\ loop[x] = "running" /\ chan'[x] = c /\ w # <<>>
        /\ size'[x] = z /\ ptySize'[x] = p /\ writes'[x] = Tail(w)
    BY <1>17 DEF Reads, UISame
  <2>2. Covered(c, p, z) /\ \A i \in 1..Len(w) : w[i].size <= p BY <1>3, <2>1
  <2> HIDE DEF c, w, p, z
  <2>3. \A i \in 1..Len(Tail(w)) : Tail(w)[i].size <= p BY <1>2, <2>1, <2>2
  <2>4. QED BY <2>1, <2>2, <2>3
<1>18. QED
  BY <1>4, <1>5, <1>6, <1>7, <1>8, <1>9, <1>11, <1>12, <1>13, <1>14, <1>15, <1>16, <1>17
     DEF Moves

LEMMA SizedInit == Init => Sized
BY DEF Init, Sized, SizesOf

LEMMA SizedStep ==
  Types /\ Lifecycle /\ Processes /\ Ordered /\ Sized /\ [Next]_vars => Sized'
<1> SUFFICES ASSUME Types, Lifecycle, Processes, Ordered, Sized, [Next]_vars,
                    NEW x \in SessionIds
             PROVE  SizesOf(x)'
  BY DEF Sized
<1>1. QED BY SizedMove, MovesStep DEF Lifecycle, Processes, Ordered, Sized

-----------------------------------------------------------------------------
(* The theorems.                                                           *)

IInv == Types /\ Lifecycle /\ Processes /\ Launchers /\ Ordered /\ Sized

THEOREM Inductive == Spec => []IInv
<1>1. Init => IInv
  BY TypesInit, LifecycleInit, ProcessesInit, LaunchersInit, OrderedInit, SizedInit DEF IInv
<1>2. IInv /\ [Next]_vars => IInv'
  BY TypesStep, LifecycleStep, ProcessesStep, LaunchersStep, OrderedStep, SizedStep DEF IInv
<1>3. QED BY <1>1, <1>2, PTL DEF Spec

(* The state is well typed, and before the pool closes at most one spare   *)
(* is parked or on its way, whatever the workers claim, the launches'      *)
(* threads do and the parked shells exit (Pool::reserve, fill, abandon,    *)
(* close).                                                                 *)
THEOREM SpareInvariant == Spec => []Inv
<1>1. IInv => Inv BY TypesAre, LaunchersGiveOneSpare DEF IInv, Inv
<1>2. QED BY <1>1, Inductive, PTL

(* A shell whose session is gone always has someone who will end it, from  *)
(* the click that closes the session while its PTY opens to the loop that  *)
(* reads the Shutdown (Attachment's and Session's drop,                    *)
(* poll_pending_spawns).                                                   *)
THEOREM NoShellStrays == Spec => []NoStrayShell
<1>1. IInv => NoStrayShell
  <2>1. SUFFICES ASSUME IInv, NEW s \in SessionIds, record[s] = "gone", shell[s] = "alive"
                 PROVE  \/ opening[s] \in {"replenish", "opening", "looped", "opened"}
                        \/ s \in spawns /\ result[s] = "attachment"
                        \/ Shutdown \in {chan[s][i] : i \in 1..Len(chan[s])}
    BY DEF NoStrayShell
  <2>2. ProcessOf(s) BY <2>1 DEF IInv, Processes
  <2>3. Holds(chan[s], Shutdown) => Shutdown \in {chan[s][i] : i \in 1..Len(chan[s])}
    BY DEF Holds
  <2>4. QED BY <2>1, <2>2, <2>3 DEF ProcessOf
<1>2. QED BY <1>1, Inductive, PTL

(* Every key typed reaches the shell once and in the order typed, also     *)
(* those typed before there was a shell to read them, and in a spare the   *)
(* line that says what to run comes before all (Session::write,            *)
(* attach_replay, open).                                                   *)
THEOREM TypedInOrder == Spec => []InputInOrder
<1>1. IInv => InputInOrder BY OrderedIs DEF IInv
<1>2. QED BY <1>1, Inductive, PTL

(* An attached PTY has its session's size or will after the resizes on     *)
(* their way, and no key reaches the shell at an older size than it was    *)
(* typed at (attach_replay, Session::resize).                              *)
THEOREM PtySizeFollows == Spec => []PtyFollowsSession
<1>1. IInv => PtyFollowsSession BY SizedIs DEF IInv
<1>2. QED BY <1>1, Inductive, PTL
=============================================================================
