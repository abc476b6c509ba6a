---------------------------- MODULE LookupsProofs ----------------------------
(***************************************************************************)
(* Theorems of Lookups, for any worktrees, branches, cap on requests and   *)
(* number of events.                                                       *)
(***************************************************************************)
EXTENDS Lookups, FiniteSetTheorems, TLAPS

(* The cache of pull requests in the course of a frame: e the entries, D   *)
(* what is queued, B the requests in flight.                               *)
CacheTypes(e, D, B) == e \in [Paths -> Entry] /\ D \in SUBSET Member /\ B \in SUBSET Batch

Queued(D, p) == \E m \in D : m.path = p
Flying(B, p) == \E b \in B : p \in PathsOf(b)

(* An entry is pending exactly while one lookup of it is queued or in      *)
(* flight, under the branch the entry is keyed to.                         *)
LookupOf(e, D, B, p) ==
    /\ e[p].pending <=> Queued(D, p) \/ Flying(B, p)
    /\ ~(Queued(D, p) /\ Flying(B, p))
    /\ \A b, c \in B : p \in PathsOf(b) /\ p \in PathsOf(c) => b = c
    /\ \A m \in D : m.path = p => m.branch = e[p].branch
    /\ \A b \in B : \A m \in b.members : m.path = p => m.branch = e[p].branch
    /\ e[p].info \in {e[p].branch, NoPr}

Sound(e, D, B) == CacheTypes(e, D, B) /\ \A p \in Paths : LookupOf(e, D, B, p)

(* What is not the cache: the frame's flags, the tree and the status.      *)
OtherTypes ==
    /\ woken \in BOOLEAN /\ rows \in BOOLEAN
    /\ head \in [Paths -> Heads] /\ known \in [Paths -> Heads]
    /\ events \in 0..MaxEvents /\ refreshes \in 0..MaxRefreshes
    /\ triggered \in BOOLEAN /\ painted \in BOOLEAN
    /\ owed \in SUBSET Paths
    /\ status \in Status /\ compute \in Compute

IInv == OtherTypes /\ Sound(entries, due, batches)

-----------------------------------------------------------------------------
(* Entries.                                                                *)

LEMMA EntryFields ==
  ASSUME NEW e \in Entry
  PROVE  /\ e.branch \in Heads /\ e.info \in Branches \cup {NoPr}
         /\ e.current \in BOOLEAN /\ e.pending \in BOOLEAN /\ e.again \in BOOLEAN
BY DEF Entry

LEMMA MemberFields ==
  ASSUME NEW m \in Member
  PROVE  /\ m.path \in Paths /\ m.branch \in Branches
         /\ \A n \in Member : n.path = m.path /\ n.branch = m.branch => n = m
BY DEF Member

LEMMA BatchFields ==
  ASSUME NEW b \in Batch
  PROVE  /\ b.members \in SUBSET Member /\ b.late \in BOOLEAN
         /\ b.job \in {"runs", "overdue", "landed", "panicked"}
BY DEF Batch

LEMMA SettledEntry ==
  ASSUME NEW e \in Entry, NEW m \in Member
  PROVE  /\ Settle(e, m) \in Entry /\ Settle(e, m).branch = m.branch
         /\ Settle(e, m).info = m.branch /\ ~Settle(e, m).pending
<1>1. m.branch \in Branches BY MemberFields
<1>2. Settle(e, m) = [branch |-> m.branch, info |-> m.branch, current |-> ~e.again,
                      pending |-> FALSE, again |-> FALSE]
  BY DEF Settle
<1>3. QED BY <1>1, <1>2 DEF Entry, Heads

LEMMA BackedOffEntry ==
  ASSUME NEW e \in Entry
  PROVE  /\ BackOff(e) \in Entry /\ BackOff(e).branch = e.branch
         /\ BackOff(e).info = e.info /\ ~BackOff(e).pending
BY DEF BackOff, Entry

LEMMA RefusedEntry ==
  ASSUME NEW e \in Entry
  PROVE  /\ Refuse(e) \in Entry /\ Refuse(e).branch = e.branch
         /\ Refuse(e).info = e.info /\ ~Refuse(e).pending
BY DEF Refuse, Entry

LEMMA PolledEntry ==
  ASSUME NEW e \in Entry, NEW b \in Branches
  PROVE  /\ Poll(e, b) \in Entry /\ Poll(e, b).branch = b /\ Poll(e, b).pending
         /\ Poll(e, b).info = IF e.branch # b THEN NoPr ELSE e.info
BY DEF Poll, Entry, Heads

LEMMA InvalidatedEntries ==
  ASSUME NEW es \in [Paths -> Entry]
  PROVE  /\ Invalidated(es) \in [Paths -> Entry]
         /\ \A p \in Paths : /\ Invalidated(es)[p].branch = es[p].branch
                             /\ Invalidated(es)[p].info = es[p].info
                             /\ Invalidated(es)[p].pending = es[p].pending
<1>1. SUFFICES ASSUME NEW p \in Paths
               PROVE  /\ Invalidated(es)[p] \in Entry
                      /\ Invalidated(es)[p].branch = es[p].branch
                      /\ Invalidated(es)[p].info = es[p].info
                      /\ Invalidated(es)[p].pending = es[p].pending
  BY DEF Invalidated
<1> DEFINE e == es[p]
           i == [e EXCEPT !.current = FALSE, !.again = @ \/ e.pending]
<1>2. e \in Entry /\ Invalidated(es)[p] = i BY DEF Invalidated
<1> HIDE DEF e
<1>3. i \in Entry /\ i.branch = e.branch /\ i.info = e.info /\ i.pending = e.pending
  <2>1. (e.again \/ e.pending) \in BOOLEAN OBVIOUS
  <2>2. QED BY <1>2, <2>1 DEF Entry
<1>4. QED BY <1>2, <1>3 DEF e

-----------------------------------------------------------------------------
(* The drain.                                                              *)

LEMMA DrainSound ==
  ASSUME Sound(entries, due, batches)
  PROVE  Sound(Drained.entries, {}, Drained.batches)
<1> DEFINE ended == {b \in batches : Reported(b) \/ GivenUp(b)}
           running == batches \ ended
           starts == due # {} /\ MaySpawn(running)
           request == [members |-> due, job |-> "runs", late |-> TRUE]
           flying == IF starts THEN running \cup {request} ELSE running
           settled == Banked(ended)
           refused == IF starts THEN {} ELSE {m.path : m \in due}
           e == [p \in Paths |-> IF p \in refused THEN Refuse(settled[p]) ELSE settled[p]]
<1>1. Drained.entries = e /\ Drained.batches = flying BY DEF Drained
<1>2. CacheTypes(entries, due, batches) BY DEF Sound
<1>3. request \in Batch BY <1>2 DEF CacheTypes, Batch
<1>4. flying \in SUBSET Batch BY <1>2, <1>3 DEF CacheTypes
<1>5. PathsOf(request) = {m.path : m \in due} BY DEF PathsOf
<1>6. ended \subseteq batches OBVIOUS
<1>7. \A p \in Paths : settled[p] =
        IF \E b \in ended : p \in PathsOf(b)
        THEN LET b == CHOOSE x \in ended : p \in PathsOf(x) IN
             IF Reported(b) THEN Settle(entries[p], MemberIn(b, p)) ELSE BackOff(entries[p])
        ELSE entries[p]
  BY DEF Banked
<1> HIDE DEF ended, settled
<1>8. ASSUME NEW p \in Paths
      PROVE  e[p] \in Entry /\ LookupOf(e, {}, flying, p)
  <2>1. entries[p] \in Entry BY <1>2 DEF CacheTypes
  <2>2. LookupOf(entries, due, batches, p) BY DEF Sound
  <2>3. ~Queued({}, p) BY DEF Queued
  <2>4. Queued(due, p) <=> p \in {m.path : m \in due} BY DEF Queued
  <2>5. e[p] = IF p \in refused THEN Refuse(settled[p]) ELSE settled[p] OBVIOUS
  <2>6. entries[p].info \in {entries[p].branch, NoPr} BY <2>2 DEF LookupOf
  <2> HIDE DEF e
  <2>7. CASE \E b \in ended : p \in PathsOf(b)
    <3> DEFINE b == CHOOSE x \in ended : p \in PathsOf(x)
    <3>1. b \in ended /\ p \in PathsOf(b) BY <2>7
    <3> HIDE DEF b
    <3>2. b \in batches /\ \A c \in batches : p \in PathsOf(c) => c = b
      BY <1>6, <2>2, <3>1 DEF LookupOf
    <3>3. ~Queued(due, p) BY <2>2, <3>1, <3>2 DEF LookupOf, Flying
    <3>4. p \notin refused /\ p \notin PathsOf(request) BY <1>5, <2>4, <3>3
    <3>5. ~Flying(flying, p) BY <3>1, <3>2, <3>4 DEF Flying
    <3>6. /\ MemberIn(b, p) \in b.members /\ MemberIn(b, p).path = p
      BY <3>1 DEF MemberIn, PathsOf
    <3>7. MemberIn(b, p) \in Member /\ MemberIn(b, p).branch = entries[p].branch
      BY <1>2, <2>2, <3>2, <3>6, BatchFields DEF CacheTypes, LookupOf
    <3>8. e[p] = IF Reported(b) THEN Settle(entries[p], MemberIn(b, p)) ELSE BackOff(entries[p])
      BY <1>7, <2>5, <2>7, <3>4 DEF b
    <3>9. /\ e[p] \in Entry /\ ~e[p].pending /\ e[p].info \in {e[p].branch, NoPr}
      BY <2>1, <2>6, <3>7, <3>8, SettledEntry, BackedOffEntry
    <3>10. \A c \in flying : \A m \in c.members : m.path = p => p \in PathsOf(c)
      BY DEF PathsOf
    <3> HIDE DEF flying
    <3>11. QED BY <2>3, <3>5, <3>9, <3>10 DEF LookupOf, Flying
  <2>8. CASE ~\E b \in ended : p \in PathsOf(b)
    <3>1. settled[p] = entries[p] BY <1>7, <2>8
    <3>2. Flying(running, p) <=> Flying(batches, p) BY <1>6, <2>8 DEF Flying
    <3>3. CASE ~Queued(due, p)
      <4>1. p \notin refused /\ p \notin PathsOf(request) BY <1>5, <2>4, <3>3
      <4>2. e[p] = entries[p] BY <2>5, <3>1, <4>1
      <4>3. Flying(flying, p) <=> Flying(batches, p) BY <3>2, <4>1 DEF Flying
      <4>4. \A b \in flying : p \in PathsOf(b) => b \in batches BY <4>1
      <4>5. \A b \in flying : \A m \in b.members : m.path = p => p \in PathsOf(b)
        BY DEF PathsOf
      <4> HIDE DEF flying
      <4>6. QED BY <2>1, <2>2, <2>3, <2>6, <3>3, <4>2, <4>3, <4>4, <4>5 DEF LookupOf
    <3>4. CASE Queued(due, p) /\ starts
      <4>1. p \notin refused /\ p \in PathsOf(request) /\ request \in flying
        BY <1>5, <2>4, <3>4
      <4>2. e[p] = entries[p] /\ e[p].pending BY <2>2, <2>5, <3>1, <3>4, <4>1 DEF LookupOf
      <4>3. \A b \in flying : p \in PathsOf(b) => b = request
        BY <2>2, <3>4, <1>6 DEF LookupOf, Flying
      <4>4. Flying(flying, p) BY <4>1 DEF Flying
      <4>5. request.members = due OBVIOUS
      <4>6. \A b \in flying : \A m \in b.members : m.path = p => p \in PathsOf(b)
        BY DEF PathsOf
      <4> HIDE DEF flying, request
      <4>7. \A b \in flying : \A m \in b.members : m.path = p => m.branch = e[p].branch
        BY <2>2, <4>2, <4>3, <4>5, <4>6 DEF LookupOf
      <4>8. QED BY <2>1, <2>3, <2>6, <4>2, <4>3, <4>4, <4>7 DEF LookupOf
    <3>5. CASE Queued(due, p) /\ ~starts
      <4>1. p \in refused /\ flying = running BY <2>4, <3>5
      <4>2. e[p] = Refuse(entries[p]) BY <2>5, <3>1, <4>1
      <4>3. ~Flying(flying, p) BY <2>2, <3>2, <3>5, <4>1 DEF LookupOf
      <4>4. e[p] \in Entry /\ ~e[p].pending /\ e[p].info \in {e[p].branch, NoPr}
        BY <2>1, <2>6, <4>2, RefusedEntry
      <4>5. QED BY <2>3, <4>3, <4>4 DEF LookupOf, Flying, PathsOf
    <3>6. QED BY <3>3, <3>4, <3>5
  <2>9. QED BY <2>7, <2>8
<1>9. e \in [Paths -> Entry]
  <2>1. \A p \in Paths : e[p] \in Entry BY <1>8
  <2>2. QED BY <2>1
<1> HIDE DEF e, flying
<1>10. QED BY <1>1, <1>4, <1>8, <1>9 DEF Sound, CacheTypes

-----------------------------------------------------------------------------
(* The refresh and the paint.                                              *)

LEMMA AskedSound ==
  ASSUME NEW e, NEW D, NEW B, Sound(e, D, B)
  PROVE  Sound(Invalidated(e), D, {[b EXCEPT !.late = FALSE] : b \in B})
<1> DEFINE Old(b) == [b EXCEPT !.late = FALSE]
           C == {Old(b) : b \in B}
           i == Invalidated(e)
<1>1. e \in [Paths -> Entry] /\ D \in SUBSET Member /\ B \in SUBSET Batch
  BY DEF Sound, CacheTypes
<1>2. ASSUME NEW b \in Batch
      PROVE  Old(b) \in Batch /\ Old(b).members = b.members
  BY DEF Batch
<1>3. \A b \in B : PathsOf(Old(b)) = PathsOf(b) BY <1>1, <1>2 DEF PathsOf
<1>4. C \in SUBSET Batch BY <1>1, <1>2
<1>5. \A b \in C : \E c \in B : b = Old(c) OBVIOUS
<1>6. \A b \in B : Old(b) \in C OBVIOUS
<1>7. \A b \in B : Old(b).members = b.members BY <1>1, <1>2
<1>8. i \in [Paths -> Entry] BY <1>1, InvalidatedEntries
<1> HIDE DEF Old, C
<1>9. ASSUME NEW p \in Paths
      PROVE  LookupOf(i, D, C, p)
  <2>1. LookupOf(e, D, B, p) BY DEF Sound
  <2>2. i[p].branch = e[p].branch /\ i[p].info = e[p].info /\ i[p].pending = e[p].pending
    BY <1>1, InvalidatedEntries
  <2> HIDE DEF i
  <2>3. Flying(C, p) <=> Flying(B, p) BY <1>3, <1>5, <1>6 DEF Flying
  <2>4. \A b, c \in C : p \in PathsOf(b) /\ p \in PathsOf(c) => b = c
    BY <1>3, <1>5, <2>1 DEF LookupOf
  <2>5. \A b \in C : \A m \in b.members : m.path = p => m.branch = i[p].branch
    BY <1>5, <1>7, <2>1, <2>2 DEF LookupOf
  <2>6. QED BY <2>1, <2>2, <2>3, <2>4, <2>5 DEF LookupOf
<1>10. QED BY <1>1, <1>4, <1>8, <1>9 DEF Sound, CacheTypes, C, Old

(* What a frame asks for: the lookups of the paths on screen.              *)
LEMMA PolledHere ==
  ASSUME LookupsAssumption, OtherTypes, NEW p \in Paths, PolledBranch(p) # NoBranch
  PROVE  PolledBranch(p) \in Branches
BY DEF LookupsAssumption, OtherTypes, PolledBranch, EffectiveBranch, Heads, Status

LEMMA PaintSound ==
  ASSUME LookupsAssumption, OtherTypes, NEW d, Sound(d.entries, {}, d.batches)
  PROVE  Sound(Paint(d).entries, Paint(d).due, d.batches)
<1> DEFINE asks == {p \in Paths : PolledBranch(p) # NoBranch
                                  /\ ShouldSpawn(d.entries[p], PolledBranch(p))}
           queued == {[path |-> p, branch |-> PolledBranch(p)] : p \in asks}
           e == [p \in Paths |-> IF p \in asks
                   THEN Poll(d.entries[p], PolledBranch(p)) ELSE d.entries[p]]
<1>1. Paint(d).entries = e /\ Paint(d).due = queued BY DEF Paint
<1>2. d.entries \in [Paths -> Entry] /\ d.batches \in SUBSET Batch BY DEF Sound, CacheTypes
<1>3. \A p \in asks : PolledBranch(p) \in Branches BY PolledHere
<1>4. queued \in SUBSET Member BY <1>3 DEF Member
<1>5. \A m \in queued : m.path \in asks /\ m.branch = PolledBranch(m.path) OBVIOUS
<1>6. \A p \in asks : \E m \in queued : m.path = p
  <2>1. \A p \in asks : [path |-> p, branch |-> PolledBranch(p)] \in queued OBVIOUS
  <2> HIDE DEF asks, queued
  <2>2. QED BY <2>1
<1>7. \A p \in asks : p \in Paths /\ ~d.entries[p].pending BY DEF ShouldSpawn
<1>8. \A p \in Paths : e[p] = IF p \in asks THEN Poll(d.entries[p], PolledBranch(p))
                                            ELSE d.entries[p]
  OBVIOUS
<1>9. e = [p \in Paths |-> e[p]] OBVIOUS
<1> HIDE DEF asks, queued, e
<1>10. ASSUME NEW p \in Paths
       PROVE  e[p] \in Entry /\ LookupOf(e, queued, d.batches, p)
  <2>1. d.entries[p] \in Entry BY <1>2
  <2>2. LookupOf(d.entries, {}, d.batches, p) BY DEF Sound
  <2>3. Queued(queued, p) <=> p \in asks BY <1>5, <1>6 DEF Queued
  <2>4. ~Queued({}, p) BY DEF Queued
  <2>5. \A b \in d.batches : \A m \in b.members : m.path = p => p \in PathsOf(b)
    BY DEF PathsOf
  <2>6. CASE p \in asks
    <3>1. ~Flying(d.batches, p) BY <1>7, <2>2, <2>6 DEF LookupOf
    <3>2. /\ e[p] \in Entry /\ e[p].branch = PolledBranch(p) /\ e[p].pending
          /\ e[p].info = IF d.entries[p].branch # PolledBranch(p) THEN NoPr
                                                                  ELSE d.entries[p].info
      BY <1>3, <1>8, <2>1, <2>6, PolledEntry
    <3>3. e[p].info \in {e[p].branch, NoPr} BY <2>2, <3>2 DEF LookupOf
    <3>4. QED BY <1>5, <2>2, <2>3, <2>5, <2>6, <3>1, <3>2, <3>3 DEF LookupOf, Flying
  <2>7. CASE p \notin asks
    <3>1. e[p] = d.entries[p] BY <1>8, <2>7
    <3>2. QED BY <1>5, <2>1, <2>2, <2>3, <2>4, <2>7, <3>1 DEF LookupOf
  <2>8. QED BY <2>6, <2>7
<1>11. e \in [Paths -> Entry] BY <1>9, <1>10
<1>12. QED BY <1>1, <1>2, <1>4, <1>10, <1>11 DEF Sound, CacheTypes

(* A record of the frame: the cache with D queued, and the refresh.        *)
CacheOf(d, D) ==
    /\ Sound(d.entries, D, d.batches)
    /\ d.triggered \in BOOLEAN /\ d.painted \in BOOLEAN /\ d.owed \in SUBSET Paths

LEMMA DrainedCache ==
  ASSUME IInv
  PROVE  CacheOf(Drained, {})
<1>1. Sound(Drained.entries, {}, Drained.batches) BY DrainSound DEF IInv
<1>2. /\ Drained.triggered \in BOOLEAN /\ Drained.painted \in BOOLEAN
      /\ Drained.owed \in SUBSET Paths
  BY DEF IInv, OtherTypes, Drained
<1>3. QED BY <1>1, <1>2 DEF CacheOf

(* A refresh the user asks for changes no lookup.                          *)
LEMMA AskedFields ==
  ASSUME NEW d, d = [x \in DOMAIN d |-> d[x]],
         {"entries", "triggered", "painted", "batches", "owed"} \subseteq DOMAIN d
  PROVE  /\ Asked(d).entries = Invalidated(d.entries)
         /\ Asked(d).batches = {[b EXCEPT !.late = FALSE] : b \in d.batches}
         /\ Asked(d).triggered = TRUE /\ Asked(d).painted = FALSE /\ Asked(d).owed = Paths
BY DEF Asked

LEMMA AskedCache ==
  ASSUME NEW d, NEW D, d = [x \in DOMAIN d |-> d[x]],
         {"entries", "triggered", "painted", "batches", "owed"} \subseteq DOMAIN d,
         CacheOf(d, D)
  PROVE  CacheOf(Asked(d), D)
<1>1. Sound(d.entries, D, d.batches) BY DEF CacheOf
<1>2. Sound(Invalidated(d.entries), D, {[b EXCEPT !.late = FALSE] : b \in d.batches})
  BY <1>1, AskedSound
<1>3. /\ Asked(d).entries = Invalidated(d.entries)
      /\ Asked(d).batches = {[b EXCEPT !.late = FALSE] : b \in d.batches}
      /\ Asked(d).triggered = TRUE /\ Asked(d).painted = FALSE /\ Asked(d).owed = Paths
  BY AskedFields
<1>4. Sound(Asked(d).entries, D, Asked(d).batches) BY <1>2, <1>3
<1>5. QED BY <1>3, <1>4 DEF CacheOf

LEMMA DrainedRecord ==
  /\ Drained = [x \in DOMAIN Drained |-> Drained[x]]
  /\ DOMAIN Drained = {"entries", "batches", "painted", "triggered", "owed"}
BY DEF Drained

LEMMA PaintRecord ==
  ASSUME NEW d
  PROVE  /\ Paint(d) = [x \in DOMAIN Paint(d) |-> Paint(d)[x]]
         /\ DOMAIN Paint(d) = {"entries", "due", "batches", "painted", "triggered", "owed",
                               "wakes"}
         /\ Paint(d).batches = d.batches
BY DEF Paint

LEMMA PaintCache ==
  ASSUME LookupsAssumption, OtherTypes, NEW d, CacheOf(d, {})
  PROVE  CacheOf(Paint(d), Paint(d).due) /\ Paint(d).wakes \in BOOLEAN
<1>1. Sound(d.entries, {}, d.batches) BY DEF CacheOf
<1>2. Sound(Paint(d).entries, Paint(d).due, d.batches) BY <1>1, PaintSound
<1>3. Sound(Paint(d).entries, Paint(d).due, Paint(d).batches) BY <1>2, PaintRecord
<1>4. /\ Paint(d).triggered = d.triggered /\ Paint(d).painted = (d.painted \/ d.triggered)
      /\ Paint(d).owed \subseteq d.owed
  BY DEF Paint
<1>5. Paint(d).wakes \in BOOLEAN BY DEF Paint, WakesForQueued, WakesForFlag
<1>6. (d.painted \/ d.triggered) \in BOOLEAN BY DEF CacheOf
<1>7. QED BY <1>3, <1>4, <1>5, <1>6 DEF CacheOf

-----------------------------------------------------------------------------
(* The invariant.                                                          *)

LEMMA InitIInv == LookupsAssumption /\ Init => IInv
<1> SUFFICES ASSUME LookupsAssumption, Init PROVE IInv OBVIOUS
<1>1. (CHOOSE b \in Branches : TRUE) \in Branches BY DEF LookupsAssumption
<1>2. 0 \in 0..MaxEvents /\ 0 \in 0..MaxRefreshes BY DEF LookupsAssumption
<1>3. OtherTypes
  BY <1>1, <1>2 DEF Init, OtherTypes, Heads, Status, Compute, NoCompute, Bases
<1>4. NewEntry \in Entry BY DEF NewEntry, Entry, Heads
<1>5. CacheTypes(entries, due, batches) BY <1>4 DEF Init, CacheTypes
<1>6. \A p \in Paths : LookupOf(entries, due, batches, p)
  BY DEF Init, LookupOf, Queued, Flying, NewEntry
<1>7. QED BY <1>3, <1>5, <1>6 DEF IInv, Sound

(* What a status polled with a typed base leaves.                          *)
LEMMA PolledStatus ==
  ASSUME OtherTypes, NEW wanted \in Bases, PollStatus(wanted)
  PROVE  status' \in Status /\ compute' \in Compute
<1>1. Held \in Status BY DEF OtherTypes, Held, Status, Compute
<1>2. [job |-> "runs", hint |-> wanted, head |-> Unread] \in Compute BY DEF Compute
<1>3. NoCompute \in Compute BY DEF NoCompute, Compute, Bases
<1>4. QED BY <1>1, <1>2, <1>3 DEF PollStatus, OtherTypes

LEMMA FrameIInv ==
  ASSUME LookupsAssumption, IInv, NEW ask, Frame(ask)
  PROVE  IInv'
<1>1. PICK keyed \in {IF ask = "key" THEN Asked(Drained) ELSE Drained} :
      \E drawn \in {Paint(keyed)} :
      \E final \in {IF ask = "palette" THEN Asked(drawn) ELSE drawn} :
        /\ ask # "no" => refreshes < MaxRefreshes
        /\ refreshes' = IF ask = "no" THEN refreshes ELSE refreshes + 1
        /\ entries' = final.entries /\ due' = final.due /\ batches' = final.batches
        /\ triggered' = final.triggered /\ painted' = final.painted
        /\ owed' = final.owed
        /\ PollStatus(EffectiveBase(drawn.entries))
        /\ woken' = (drawn.wakes \/ ask # "no")
        /\ UNCHANGED treeVars
  BY DEF Frame
<1> DEFINE drawn == Paint(keyed)
           final == IF ask = "palette" THEN Asked(drawn) ELSE drawn
<1>2. /\ ask # "no" => refreshes < MaxRefreshes
      /\ refreshes' = IF ask = "no" THEN refreshes ELSE refreshes + 1
      /\ entries' = final.entries /\ due' = final.due /\ batches' = final.batches
      /\ triggered' = final.triggered /\ painted' = final.painted
      /\ owed' = final.owed
      /\ PollStatus(EffectiveBase(drawn.entries))
      /\ woken' = (drawn.wakes \/ ask # "no")
      /\ UNCHANGED treeVars
  BY <1>1
<1>3. OtherTypes BY DEF IInv
<1>4. CacheOf(keyed, {})
  <2>1. CacheOf(Drained, {}) BY DrainedCache
  <2>2. CacheOf(Asked(Drained), {}) BY <2>1, DrainedRecord, AskedCache
  <2>3. keyed = Asked(Drained) \/ keyed = Drained OBVIOUS
  <2>4. QED BY <2>1, <2>2, <2>3
<1>5. CacheOf(drawn, drawn.due) /\ drawn.wakes \in BOOLEAN BY <1>3, <1>4, PaintCache
<1>6. /\ drawn = [x \in DOMAIN drawn |-> drawn[x]]
      /\ DOMAIN drawn = {"entries", "due", "batches", "painted", "triggered", "owed", "wakes"}
  BY PaintRecord
<1> HIDE DEF drawn
<1>7. CacheOf(Asked(drawn), drawn.due) BY <1>5, <1>6, AskedCache
<1>8. Asked(drawn).due = drawn.due BY <1>6 DEF Asked
<1>9. CacheOf(final, final.due) BY <1>5, <1>7, <1>8
<1> HIDE DEF final
<1>10. Sound(entries', due', batches') BY <1>2, <1>9 DEF CacheOf
<1>11. EffectiveBase(drawn.entries) \in Bases
  <2>1. drawn.entries \in [Paths -> Entry] BY <1>5 DEF CacheOf, Sound, CacheTypes
  <2>2. drawn.entries[Panel] \in Entry BY <2>1 DEF LookupsAssumption
  <2>3. QED BY <2>2, EntryFields DEF EffectiveBase, Bases
<1>12. status' \in Status /\ compute' \in Compute BY <1>2, <1>3, <1>11, PolledStatus
<1>13. refreshes' \in 0..MaxRefreshes BY <1>2, <1>3 DEF OtherTypes, LookupsAssumption
<1>14. woken' \in BOOLEAN BY <1>2, <1>5
<1>15. triggered' \in BOOLEAN /\ painted' \in BOOLEAN /\ owed' \in SUBSET Paths
  BY <1>2, <1>9 DEF CacheOf
<1>16. OtherTypes' BY <1>2, <1>3, <1>12, <1>13, <1>14, <1>15 DEF OtherTypes, treeVars
<1>17. QED BY <1>10, <1>16 DEF IInv, Sound, CacheTypes, LookupOf

(* A request that ends or grows old keeps what it asked for.               *)
LEMMA JobChanges ==
  ASSUME NEW e, NEW D, NEW B, Sound(e, D, B), NEW b \in B,
         NEW how \in {"overdue", "landed", "panicked"}
  PROVE  Sound(e, D, (B \ {b}) \cup {[b EXCEPT !.job = how]})
<1> DEFINE n == [b EXCEPT !.job = how]
           C == (B \ {b}) \cup {n}
<1>1. CacheTypes(e, D, B) BY DEF Sound
<1>2. b \in Batch BY <1>1 DEF CacheTypes
<1>3. n \in Batch /\ n.members = b.members BY <1>2 DEF Batch
<1>4. PathsOf(n) = PathsOf(b) BY <1>3 DEF PathsOf
<1>5. \A c \in C : c \in B \/ c = n OBVIOUS
<1>6. C \in SUBSET Batch BY <1>1, <1>3 DEF CacheTypes
<1>7. \A c \in B : c \in C \/ c = b OBVIOUS
<1>8. n \in C OBVIOUS
<1>9. \A c \in C : c = b => n = b OBVIOUS
<1> HIDE DEF n, C
<1>10. ASSUME NEW p \in Paths
       PROVE  LookupOf(e, D, C, p)
  <2>1. LookupOf(e, D, B, p) BY DEF Sound
  <2>2. Flying(C, p) <=> Flying(B, p) BY <1>4, <1>5, <1>7, <1>8 DEF Flying
  <2>3. \A x, y \in C : p \in PathsOf(x) /\ p \in PathsOf(y) => x = y
    BY <1>4, <1>5, <1>9, <2>1 DEF LookupOf
  <2>4. \A c \in C : \A m \in c.members : m.path = p => m.branch = e[p].branch
    BY <1>3, <1>5, <2>1 DEF LookupOf
  <2>5. QED BY <2>1, <2>2, <2>3, <2>4 DEF LookupOf
<1>11. QED BY <1>1, <1>6, <1>10 DEF Sound, CacheTypes, C, n

(* The time to live of an answer.                                          *)
LEMMA AgedSound ==
  ASSUME NEW e, NEW D, NEW B, Sound(e, D, B), NEW p \in Paths
  PROVE  Sound([e EXCEPT ![p].current = FALSE], D, B)
<1> DEFINE a == [e EXCEPT ![p].current = FALSE]
<1>1. CacheTypes(e, D, B) BY DEF Sound
<1>2. e \in [Paths -> Entry] BY <1>1 DEF CacheTypes
<1>3. ASSUME NEW q \in Paths
      PROVE  /\ a[q] \in Entry /\ a[q].branch = e[q].branch
             /\ a[q].info = e[q].info /\ a[q].pending = e[q].pending
  BY <1>2 DEF Entry
<1>4. a = [q \in Paths |-> a[q]] BY <1>2
<1> HIDE DEF a
<1>5. a \in [Paths -> Entry] BY <1>3, <1>4
<1>6. \A q \in Paths : LookupOf(a, D, B, q) BY <1>3 DEF Sound, LookupOf
<1>7. QED BY <1>1, <1>5, <1>6 DEF Sound, CacheTypes, a

(* Nothing but the cache decides whether it is sound.                      *)
LEMMA Frames ==
  /\ OtherTypes' /\ Sound(entries', due', batches') => IInv'
  /\ IInv /\ UNCHANGED <<entries, due, batches>> => Sound(entries', due', batches')
BY DEF IInv, Sound, CacheTypes, LookupOf, Queued, Flying

LEMMA StepIInv ==
  ASSUME LookupsAssumption, IInv, [Next]_vars
  PROVE  IInv'
<1> USE DEF treeVars, prVars, statusVars
<1>1. OtherTypes BY DEF IInv
<1>2. Sound(entries, due, batches) BY DEF IInv
<1>3. Event => events' \in 0..MaxEvents BY <1>1 DEF Event, OtherTypes, LookupsAssumption
<1>4. CASE \E ask \in {"no", "key", "palette"} : Frame(ask) BY <1>4, FrameIInv
<1>5. ASSUME NEW b \in batches, NEW how \in {"landed", "panicked"}, RequestEnds(b, how)
      PROVE  IInv'
  <2>1. Sound(entries', due', batches') BY <1>2, <1>5, JobChanges DEF RequestEnds
  <2>2. OtherTypes' BY <1>1, <1>5 DEF RequestEnds, OtherTypes
  <2>3. QED BY <2>1, <2>2, Frames
<1>6. ASSUME NEW b \in batches, RequestAges(b)
      PROVE  IInv'
  <2>1. Sound(entries', due', batches') BY <1>2, <1>6, JobChanges DEF RequestAges
  <2>2. OtherTypes' BY <1>1, <1>6 DEF RequestAges, OtherTypes
  <2>3. QED BY <2>1, <2>2, Frames
<1>7. ASSUME NEW p \in Paths, EntryAges(p)
      PROVE  IInv'
  <2>1. Sound(entries', due', batches') BY <1>2, <1>7, AgedSound DEF EntryAges
  <2>2. OtherTypes' BY <1>1, <1>3, <1>7 DEF EntryAges, OtherTypes
  <2>3. QED BY <2>1, <2>2, Frames
<1>8. CASE Computing
  <2>1. head[Panel] \in Heads BY <1>1 DEF OtherTypes, LookupsAssumption
  <2>2. compute' \in Compute
    BY <1>1, <1>8, <2>1 DEF Computing, ComputeReads, ComputeFails, OtherTypes, Compute
  <2>3. OtherTypes' BY <1>1, <1>3, <1>8, <2>2 DEF Computing, ComputeReads, ComputeFails, OtherTypes
  <2>4. UNCHANGED <<entries, due, batches>> BY <1>8 DEF Computing, ComputeReads, ComputeFails
  <2>5. QED BY <2>3, <2>4, Frames
<1>9. CASE StatusAges
  <2>1. status' \in Status BY <1>1, <1>9 DEF StatusAges, OtherTypes, Status
  <2>2. OtherTypes' BY <1>1, <1>9, <2>1 DEF StatusAges, OtherTypes
  <2>3. UNCHANGED <<entries, due, batches>> BY <1>9 DEF StatusAges
  <2>4. QED BY <2>2, <2>3, Frames
<1>10. ASSUME NEW p \in Paths, NEW b \in Branches, SwitchBranch(p, b)
       PROVE  IInv'
  <2>1. head' \in [Paths -> Heads] BY <1>1, <1>10 DEF SwitchBranch, OtherTypes, Heads
  <2>2. OtherTypes' BY <1>1, <1>3, <1>10, <2>1 DEF SwitchBranch, OtherTypes
  <2>3. UNCHANGED <<entries, due, batches>> BY <1>10 DEF SwitchBranch
  <2>4. QED BY <2>2, <2>3, Frames
<1>11. ASSUME NEW p \in Paths, Rediscover(p)
       PROVE  IInv'
  <2>1. known' \in [Paths -> Heads] BY <1>1, <1>11 DEF Rediscover, OtherTypes
  <2>2. OtherTypes' BY <1>1, <1>11, <2>1 DEF Rediscover, OtherTypes
  <2>3. UNCHANGED <<entries, due, batches>> BY <1>11 DEF Rediscover
  <2>4. QED BY <2>2, <2>3, Frames
<1>12. CASE ToggleSidebar
  <2>1. OtherTypes' BY <1>1, <1>3, <1>12 DEF ToggleSidebar, OtherTypes
  <2>2. UNCHANGED <<entries, due, batches>> BY <1>12 DEF ToggleSidebar
  <2>3. QED BY <2>1, <2>2, Frames
<1>13. CASE UNCHANGED vars
  <2>1. OtherTypes' BY <1>1, <1>13 DEF vars, OtherTypes
  <2>2. QED BY <1>13, <2>1, Frames DEF vars
<1>14. QED
  BY <1>4, <1>5, <1>6, <1>7, <1>8, <1>9, <1>10, <1>11, <1>12, <1>13
  DEF Next, Request, Time, World

-----------------------------------------------------------------------------
(* What the invariant says.                                                *)

LEMMA AtMostOne ==
  ASSUME NEW S, \A x, y \in S : x = y
  PROVE  Cardinality(S) = IF S = {} THEN 0 ELSE 1
<1>1. CASE S = {} BY <1>1, FS_EmptySet
<1>2. CASE S # {}
  <2>1. PICK x \in S : TRUE BY <1>2
  <2>2. S = {x} BY <2>1
  <2>3. Cardinality({x}) = 1 BY FS_Singleton
  <2>4. QED BY <1>2, <2>2, <2>3
<1>3. QED BY <1>1, <1>2

LEMMA SoundIsInv ==
  ASSUME IInv
  PROVE  Inv
<1>1. TypeOK BY DEF IInv, OtherTypes, Sound, CacheTypes, TypeOK
<1>2. InfoOfItsBranch BY DEF IInv, Sound, LookupOf, InfoOfItsBranch
<1>3. ASSUME NEW p \in Paths
      PROVE  LET queued == {m \in due : m.path = p}
                 flying == {b \in batches : p \in PathsOf(b)} IN
             /\ Cardinality(queued) + Cardinality(flying) = IF entries[p].pending THEN 1 ELSE 0
             /\ \A m \in queued \cup UNION {b.members : b \in flying} :
                   m.path = p => m.branch = entries[p].branch
  <2> DEFINE queued == {m \in due : m.path = p}
             flying == {b \in batches : p \in PathsOf(b)}
  <2>1. LookupOf(entries, due, batches, p) /\ due \subseteq Member
    BY DEF IInv, Sound, CacheTypes
  <2>2. \A m, n \in queued : m = n BY <2>1, MemberFields DEF LookupOf
  <2>3. \A b, c \in flying : b = c BY <2>1 DEF LookupOf
  <2>4. queued # {} <=> Queued(due, p) BY DEF Queued
  <2>5. flying # {} <=> Flying(batches, p) BY DEF Flying
  <2>6. \A m \in queued \cup UNION {b.members : b \in flying} :
           m.path = p => m.branch = entries[p].branch
    BY <2>1 DEF LookupOf
  <2> HIDE DEF queued, flying
  <2>7. /\ Cardinality(queued) = IF queued = {} THEN 0 ELSE 1
        /\ Cardinality(flying) = IF flying = {} THEN 0 ELSE 1
    BY <2>2, <2>3, AtMostOne
  <2>8. /\ entries[p].pending <=> queued # {} \/ flying # {}
        /\ ~(queued # {} /\ flying # {})
    BY <2>1, <2>4, <2>5 DEF LookupOf
  <2>9. Cardinality(queued) + Cardinality(flying) = IF entries[p].pending THEN 1 ELSE 0
    BY <2>7, <2>8
  <2>10. QED BY <2>6, <2>9 DEF queued, flying
<1>4. WaitsForOneLookup BY <1>3 DEF WaitsForOneLookup
<1>5. QED BY <1>1, <1>2, <1>4 DEF Inv

LEMMA SleepsWhenIdle ==
  ASSUME IInv
  PROVE  IdleFrameSleeps
<1> DEFINE d == Drained
           frame == Paint(d)
           ended == {b \in batches : Reported(b) \/ GivenUp(b)}
           landed == {b \in ended : Reported(b)}
           running == batches \ ended
           starts == due # {} /\ MaySpawn(running)
           request == [members |-> due, job |-> "runs", late |-> TRUE]
           flying == IF starts THEN running \cup {request} ELSE running
           asked == \E b \in landed : \E p \in PathsOf(b) : entries[p].again
           wasPainted == painted /\ ~(triggered /\ asked)
<1>1. SUFFICES ASSUME frame.due = due, frame.batches = batches, frame.painted = painted,
                      frame.wakes
               PROVE  FALSE
  BY DEF IdleFrameSleeps
<1>2. /\ d.batches = flying /\ d.painted = wasPainted
      /\ d.triggered = (triggered /\ ~Drops(wasPainted, flying))
  BY DEF Drained
<1>3. /\ frame.batches = d.batches /\ frame.painted = (d.painted \/ d.triggered)
      /\ frame.wakes = (WakesForQueued(frame.due, d.batches) \/ WakesForFlag(d, frame.due))
  BY DEF Paint
<1>4. due \subseteq Member /\ \A p \in Paths : LookupOf(entries, due, batches, p)
  BY DEF IInv, Sound, CacheTypes
<1> HIDE DEF d, frame
<1>5. flying = batches BY <1>1, <1>2, <1>3
<1>6. CASE WakesForQueued(frame.due, d.batches)
  <2>1. due # {} /\ MaySpawn(flying) BY <1>1, <1>2, <1>6 DEF WakesForQueued
  <2>2. CASE starts
    <3>1. PICK m \in due : TRUE BY <2>1
    <3>2. m.path \in Paths BY <1>4, <3>1, MemberFields
    <3>3. request \in batches /\ m.path \in PathsOf(request) BY <1>5, <2>2, <3>1 DEF PathsOf
    <3>4. Queued(due, m.path) /\ Flying(batches, m.path) BY <3>1, <3>3 DEF Queued, Flying
    <3>5. QED BY <1>4, <3>2, <3>4 DEF LookupOf
  <2>3. QED BY <2>1, <2>2
<1>7. CASE WakesForFlag(d, frame.due)
  <2>1. batches = {} /\ d.triggered BY <1>2, <1>5, <1>7 DEF WakesForFlag
  <2>2. ~asked BY <2>1
  <2>3. wasPainted = painted BY <2>2 DEF IInv, OtherTypes
  <2>4. ~painted BY <1>2, <1>5, <2>1, <2>3 DEF Drops
  <2>5. QED BY <1>1, <1>3, <2>1, <2>4
<1>8. QED BY <1>1, <1>3, <1>6, <1>7

-----------------------------------------------------------------------------
(* Theorems.                                                               *)

(* The inductive invariant: the types, and for every path that its entry   *)
(* is pending exactly while one lookup of it is queued or in flight, under *)
(* the entry's branch (PrCache::poll, drain_completed, spawn_due).         *)
THEOREM Inductive == Spec => []IInv
<1>1. Init => IInv BY LookupsAssumption, InitIInv
<1>2. IInv /\ [Next]_vars => IInv' BY LookupsAssumption, StepIInv
<1>3. QED BY <1>1, <1>2, PTL DEF Spec

(* No entry is left pending with no lookup to answer it, none is looked up *)
(* twice at once, and what state() answers for a branch is that branch's   *)
(* pull request, through switches, refusals over the cap, late answers,    *)
(* panics and requests past the TTL (settle, back_off, spawn_due).         *)
THEOREM OneLookupEach == Spec => []Inv
<1>1. IInv => Inv BY SoundIsInv
<1>2. QED BY <1>1, Inductive, PTL

(* A frame that changes nothing asks for no other frame, however full the  *)
(* cap on requests is and whatever refresh waits: the window does not      *)
(* paint at frame rate (poll, mark_painted, spawn_due).                    *)
THEOREM IdleSleeps == Spec => []IdleFrameSleeps
<1>1. IInv => IdleFrameSleeps BY SleepsWhenIdle
<1>2. QED BY <1>1, Inductive, PTL
=============================================================================
