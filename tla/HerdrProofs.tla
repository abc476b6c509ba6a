----------------------------- MODULE HerdrProofs -----------------------------
(***************************************************************************)
(* Theorems of HerdrEndpoint, for any panes and any number of events.      *)
(*                                                                         *)
(* A frame is a pipeline over one record, the endpoint's cache; the        *)
(* invariant is a predicate on that record, Good, that every stage of the  *)
(* pipeline and every step between two frames keeps.                       *)
(***************************************************************************)
EXTENDS HerdrEndpoint, SelectionLemmas

(* The types.                                                              *)
RowType == [status : Statuses, focused : BOOLEAN]
RowsType == UNION {[S -> RowType] : S \in SUBSET Panes}

Event ==
    [kind : {"Changed"}]
      \cup [kind : {"Focused"}, pane : Panes]
      \cup [kind : {"Status"}, pane : Panes, status : Statuses]
      \cup [kind : {"Updated"}, pane : Panes, row : RowType]
Message ==
    Event \cup [kind : {"Started"}]
      \cup [kind : {"Ended"}, why : {"server", "absent", "dropped"}]

Stream == [at : {"none", "opening", "open", "over"}, names : SUBSET Panes, msgs : Seq(Message)]
Listing == [at : {"none", "queued", "asked", "ok", "server", "absent"}, snap : RowsType,
            behind : SUBSET {"patch", "watermark", "move"}]

Cache ==
    [link : {"Down", "Connecting", "Up", "Abandoned"}, retry : {"now", "later"},
     life : Stream, stat : Stream, refused : SUBSET Panes,
     pending : Listing, due : {"none", "now", "later"}, held : Seq(Event),
     rows : RowsType, sample : {"none", "old", "new"}, own : Panes \cup {NoPane},
     blank : {"none", "silent", "alarmed", "over"}, ever : BOOLEAN, absent : BOOLEAN]

-----------------------------------------------------------------------------
(* What the messages still to be read from place i on say of herdr, whose  *)
(* focus is f.                                                             *)

FocusAfter(q, i) == \E j \in 1..Len(q) : i < j /\ q[j].kind = "Focused"
ChangeAfter(q, i) == \E j \in 1..Len(q) : i < j /\ q[j].kind = "Changed"

Agrees(m, f) ==
    /\ m.kind = "Focused" => m.pane = f
    /\ m.kind = "Updated" => (m.row.focused <=> m.pane = f)

(* A message that no later focus event overrides tells the focus of now.   *)
Telling(q, f) == \A j \in 1..Len(q) : Agrees(q[j], f) \/ FocusAfter(q, j)

RowsRight(rows, f) == \A p \in DOMAIN rows : rows[p].focused <=> p = f

(* No listing is owed: with the messages of q after place i, and those     *)
(* held for the listing in flight, the rows will be herdr's panes, E, and  *)
(* its focus.                                                              *)
Covered(c, q, i, f, E) ==
    /\ c.pending.at # "none" => FocusAfter(q, i) \/ Telling(c.held, f)
    /\ c.pending.at = "none" =>
         /\ ChangeAfter(q, i) \/ DOMAIN c.rows = E
         /\ FocusAfter(q, i) \/ RowsRight(c.rows, f)
    /\ c.pending.at = "ok" =>
         /\ ChangeAfter(q, i) \/ DOMAIN c.pending.snap = E
         /\ FocusAfter(q, i) \/ FocusAfter(c.held, 0) \/ RowsRight(c.pending.snap, f)

(* A stream: nothing before it is answered, and its end comes last.        *)
StreamOf(s, kinds) ==
    /\ s.at \in {"none", "opening"} => s.msgs = <<>>
    /\ \A j \in 1..Len(s.msgs) :
         /\ s.msgs[j].kind \in kinds
         /\ s.msgs[j].kind = "Ended" => j = Len(s.msgs) /\ s.at = "over"
    /\ s.at = "over" => s.msgs # <<>> /\ s.msgs[Len(s.msgs)].kind = "Ended"

LifeKinds == {"Started", "Ended", "Changed", "Focused", "Updated"}
StatKinds == {"Started", "Ended", "Status"}
HeldKinds == {"Status", "Focused", "Updated"}

(* The parts of the cache that are there together.                         *)
Linked(c) ==
    /\ c.link \in {"Connecting", "Up"} <=> c.life.at # "none"
    /\ c.life.at = "opening" => c.link = "Connecting"
    /\ c.stat.at # "none" => c.link = "Up" /\ c.stat.names # {}
    /\ c.held # <<>> => c.pending.at # "none"
    /\ \A j \in 1..Len(c.held) : c.held[j].kind \in HeldKinds
    /\ StreamOf(c.stat, StatKinds)

Greeted(c) ==
    c.link = "Connecting" /\ c.life.at = "open" =>
        c.life.msgs # <<>> /\ c.life.msgs[1].kind = "Started"

Good(c, f, E) ==
    /\ c \in Cache /\ Linked(c) /\ Greeted(c)
    /\ StreamOf(c.life, LifeKinds)
    /\ c.life.at = "open" =>
         /\ Telling(c.life.msgs, f)
         /\ c.link = "Up" /\ c.due = "none" => Covered(c, c.life.msgs, 0, f, E)

Server == [up : BOOLEAN, pane : [Panes -> Statuses \cup {"gone"}], focus : Panes]
View == [active : Panes, settled : BOOLEAN, watching : BOOLEAN,
         job : {"none", "asked", "done", "failed"}, target : Panes \cup {NoPane}]

IInv ==
    /\ srv \in Server /\ srv.focus \in Existing
    /\ view \in View
    /\ wake \in BOOLEAN /\ used \in 0..MaxEvents
    /\ Good(cache, srv.focus, Existing)

-----------------------------------------------------------------------------
(* Records.                                                                *)

LEMMA EventFields ==
  ASSUME NEW m \in Event
  PROVE  /\ m \in Message
         /\ m.kind \in {"Changed", "Focused", "Status", "Updated"}
         /\ m.kind = "Focused" => m.pane \in Panes
         /\ m.kind = "Status" => m.pane \in Panes /\ m.status \in Statuses
         /\ m.kind = "Updated" => m.pane \in Panes /\ m.row \in RowType
BY DEF Event, Message

LEMMA MessageFields ==
  ASSUME NEW m \in Message
  PROVE  /\ m.kind \notin {"Started", "Ended"} => m \in Event
         /\ m.kind = "Ended" => m.why \in {"server", "absent", "dropped"}
BY DEF Event, Message

LEMMA RowsAre ==
  ASSUME NEW rows
  PROVE  rows \in RowsType <=>
           /\ DOMAIN rows \subseteq Panes
           /\ rows = [p \in DOMAIN rows |-> rows[p]]
           /\ \A p \in DOMAIN rows : rows[p] \in RowType
BY DEF RowsType

LEMMA RowFields ==
  ASSUME NEW r \in RowType
  PROVE  r.status \in Statuses /\ r.focused \in BOOLEAN
BY DEF RowType

(* A constant's type, of what never is in an event.                        *)
LEMMA Fresh ==
  /\ NoRows \in RowsType /\ DOMAIN NoRows = {}
  /\ NoListing \in Listing /\ NoListing.at = "none"
  /\ NoStream \in Stream /\ NoStream.at = "none" /\ NoStream.msgs = <<>>
  /\ \A names \in SUBSET Panes :
       /\ Opening(names) \in Stream /\ Opening(names).at = "opening"
       /\ Opening(names).msgs = <<>> /\ Opening(names).names = names
<1>1. NoRows \in RowsType /\ DOMAIN NoRows = {} BY RowsAre DEF NoRows
<1>2. <<>> \in Seq(Message) OBVIOUS
<1>3. QED BY <1>1, <1>2 DEF NoListing, Listing, NoStream, Opening, Stream

-----------------------------------------------------------------------------
(* Events.                                                                 *)

(* What an event does to the links and to the listing: nothing.            *)
Keeps(c, r) ==
    /\ r.link = c.link /\ r.life = c.life /\ r.stat = c.stat
    /\ r.pending.at = c.pending.at /\ r.pending.snap = c.pending.snap

LEMMA KeepsTransitive ==
  ASSUME NEW a, NEW b, NEW c, Keeps(a, b), Keeps(b, c)
  PROVE  Keeps(a, c)
BY DEF Keeps

LEMMA BehindFields ==
  ASSUME NEW c \in Cache, NEW stamp \in {"patch", "watermark", "move"}
  PROVE  /\ Behind(c, stamp) \in Cache /\ Keeps(c, Behind(c, stamp))
         /\ Behind(c, stamp).due = c.due /\ Behind(c, stamp).held = c.held
         /\ Behind(c, stamp).rows = c.rows /\ Behind(c, stamp).own = c.own
<1>1. c.pending \in Listing BY DEF Cache
<1>2. [c.pending EXCEPT !.behind = @ \cup {stamp}] \in Listing BY <1>1 DEF Listing
<1>3. /\ [c.pending EXCEPT !.behind = @ \cup {stamp}].at = c.pending.at
      /\ [c.pending EXCEPT !.behind = @ \cup {stamp}].snap = c.pending.snap
  BY <1>1 DEF Listing
<1> DEFINE l == [c.pending EXCEPT !.behind = @ \cup {stamp}]
           d == [c EXCEPT !.pending = l]
<1>4. Behind(c, stamp) = c \/ Behind(c, stamp) = d BY DEF Behind
<1> HIDE DEF l
<1>5. /\ d \in Cache /\ d.pending = l /\ d.link = c.link /\ d.life = c.life /\ d.stat = c.stat
      /\ d.due = c.due /\ d.held = c.held /\ d.rows = c.rows /\ d.own = c.own
  BY <1>2 DEF Cache, l
<1> HIDE DEF d
<1>6. QED BY <1>3, <1>4, <1>5 DEF Keeps, l

LEMMA PatchedFields ==
  ASSUME NEW c \in Cache, NEW rows \in RowsType
  PROVE  /\ Patched(c, rows) \in Cache /\ Keeps(c, Patched(c, rows))
         /\ Patched(c, rows).due = c.due /\ Patched(c, rows).held = c.held
         /\ Patched(c, rows).rows = rows /\ Patched(c, rows).own = c.own
<1> DEFINE d == [c EXCEPT !.rows = rows]
           e == [c EXCEPT !.rows = rows, !.sample = Newer]
<1>1. d \in Cache /\ Keeps(c, d) /\ d.due = c.due /\ d.held = c.held /\ d.rows = rows
      /\ d.own = c.own
  BY DEF Cache, Keeps
<1>2. e \in Cache /\ Keeps(c, e) /\ e.due = c.due /\ e.held = c.held /\ e.rows = rows
      /\ e.own = c.own
  BY DEF Cache, Keeps, Newer
<1>3. Patched(c, rows) = d \/ Patched(c, rows) = Behind(e, "patch") BY DEF Patched
<1> HIDE DEF d, e
<1>4. QED BY <1>1, <1>2, <1>3, BehindFields, KeepsTransitive

(* The rows an event leaves.                                               *)
RowsAfter(rows, m) ==
    CASE m.kind = "Focused" -> [p \in DOMAIN rows |-> [rows[p] EXCEPT !.focused = p = m.pane]]
      [] m.kind = "Status" ->
            [p \in DOMAIN rows |->
                IF p = m.pane THEN [rows[p] EXCEPT !.status = m.status] ELSE rows[p]]
      [] m.kind = "Updated" -> [p \in DOMAIN rows |-> IF p = m.pane THEN m.row ELSE rows[p]]
      [] OTHER -> rows

LEMMA RowsAfterFields ==
  ASSUME NEW rows \in RowsType, NEW m \in Event
  PROVE  /\ RowsAfter(rows, m) \in RowsType /\ DOMAIN RowsAfter(rows, m) = DOMAIN rows
         /\ \A f : Agrees(m, f) /\ (m.kind = "Focused" \/ RowsRight(rows, f)) =>
              RowsRight(RowsAfter(rows, m), f)
         /\ \A f : m.kind = "Status" /\ RowsRight(rows, f) => RowsRight(RowsAfter(rows, m), f)
<1>1. /\ DOMAIN rows \subseteq Panes /\ \A p \in DOMAIN rows : rows[p] \in RowType BY RowsAre
<1>2. ASSUME NEW p \in DOMAIN rows, NEW b \in BOOLEAN
      PROVE  /\ [rows[p] EXCEPT !.focused = b] \in RowType
             /\ [rows[p] EXCEPT !.focused = b].focused = b
  BY <1>1 DEF RowType
<1>3. ASSUME NEW p \in DOMAIN rows, NEW s \in Statuses
      PROVE  /\ [rows[p] EXCEPT !.status = s] \in RowType
             /\ [rows[p] EXCEPT !.status = s].focused = rows[p].focused
  BY <1>1 DEF RowType
<1>4. CASE m.kind = "Focused"
  <2> DEFINE r == [p \in DOMAIN rows |-> [rows[p] EXCEPT !.focused = p = m.pane]]
  <2>1. RowsAfter(rows, m) = r BY <1>4 DEF RowsAfter
  <2>2. DOMAIN r = DOMAIN rows /\ r = [p \in DOMAIN r |-> r[p]] OBVIOUS
  <2>3. \A p \in DOMAIN rows : r[p] \in RowType /\ r[p].focused = (p = m.pane) BY <1>2
  <2> HIDE DEF r
  <2>4. r \in RowsType BY <1>1, <2>2, <2>3, RowsAre
  <2>5. QED BY <1>4, <2>1, <2>2, <2>3, <2>4 DEF RowsRight, Agrees
<1>5. CASE m.kind = "Status"
  <2> DEFINE r == [p \in DOMAIN rows |->
                     IF p = m.pane THEN [rows[p] EXCEPT !.status = m.status] ELSE rows[p]]
  <2>1. RowsAfter(rows, m) = r BY <1>5 DEF RowsAfter
  <2>2. DOMAIN r = DOMAIN rows /\ r = [p \in DOMAIN r |-> r[p]] OBVIOUS
  <2>3. \A p \in DOMAIN rows : r[p] \in RowType /\ r[p].focused = rows[p].focused
    BY <1>1, <1>3, <1>5, EventFields
  <2> HIDE DEF r
  <2>4. r \in RowsType BY <1>1, <2>2, <2>3, RowsAre
  <2>5. QED BY <1>5, <2>1, <2>2, <2>3, <2>4 DEF RowsRight
<1>6. CASE m.kind = "Updated"
  <2> DEFINE r == [p \in DOMAIN rows |-> IF p = m.pane THEN m.row ELSE rows[p]]
  <2>1. RowsAfter(rows, m) = r BY <1>6 DEF RowsAfter
  <2>2. DOMAIN r = DOMAIN rows /\ r = [p \in DOMAIN r |-> r[p]] OBVIOUS
  <2>3. \A p \in DOMAIN rows : r[p] \in RowType BY <1>1, <1>6, EventFields
  <2>4. \A p \in DOMAIN rows : r[p] = IF p = m.pane THEN m.row ELSE rows[p] OBVIOUS
  <2> HIDE DEF r
  <2>5. r \in RowsType BY <1>1, <2>2, <2>3, RowsAre
  <2>6. QED BY <1>6, <2>1, <2>2, <2>4, <2>5 DEF RowsRight, Agrees
<1>7. CASE m.kind = "Changed"
  <2>1. RowsAfter(rows, m) = rows BY <1>7 DEF RowsAfter
  <2>2. QED BY <1>7, <2>1
<1>8. QED BY <1>4, <1>5, <1>6, <1>7, EventFields

LEMMA ApplyFields ==
  ASSUME NEW c \in Cache, NEW m \in Event
  PROVE  /\ Apply(c, m) \in Cache /\ Keeps(c, Apply(c, m))
         /\ Apply(c, m).due = IF m.kind = "Changed" THEN "now" ELSE c.due
         /\ Apply(c, m).held = c.held /\ Apply(c, m).own = c.own
         /\ Apply(c, m).rows = RowsAfter(c.rows, m)
<1>1. c.rows \in RowsType BY DEF Cache
<1>2. RowsAfter(c.rows, m) \in RowsType BY <1>1, RowsAfterFields
<1>3. CASE m.kind = "Changed"
  <2>1. Apply(c, m) = [c EXCEPT !.due = "now"] BY <1>3 DEF Apply
  <2>2. RowsAfter(c.rows, m) = c.rows BY <1>3 DEF RowsAfter
  <2>3. QED BY <1>3, <2>1, <2>2 DEF Cache, Keeps
<1>4. CASE m.kind # "Changed"
  <2>1. Apply(c, m) = Patched(c, RowsAfter(c.rows, m))
    BY <1>4, EventFields DEF Apply, RowsAfter
  <2>2. QED BY <1>2, <1>4, <2>1, PatchedFields
<1>5. QED BY <1>3, <1>4

LEMMA ReceiveFields ==
  ASSUME NEW c \in Cache, NEW m \in Event
  PROVE  LET r == Receive(c, m) IN
         /\ r \in Cache /\ Keeps(c, r) /\ r.due \in {c.due, "now"}
         /\ r.due = "none" =>
              /\ c.due = "none" /\ m.kind # "Changed" /\ r.rows = RowsAfter(c.rows, m)
              /\ r.held = IF c.pending.at # "none" THEN Append(c.held, m) ELSE c.held
         /\ r.held = c.held \/
              (c.pending.at # "none" /\ m.kind # "Changed" /\ r.held = Append(c.held, m))
<1> DEFINE own == IF m.kind = "Focused" THEN NoPane ELSE c.own
           held == IF c.pending.at # "none" /\ m.kind # "Changed" THEN Append(c.held, m) ELSE c.held
           d == [c EXCEPT !.due = "now"]
           e == [c EXCEPT !.own = own, !.held = held]
<1>1. Receive(c, m) = d \/ Receive(c, m) = Apply(e, m) BY DEF Receive
<1>2. c.held \in Seq(Event) /\ c.own \in Panes \cup {NoPane} BY DEF Cache
<1>3. held \in Seq(Event) /\ own \in Panes \cup {NoPane} BY <1>2
<1> HIDE DEF own, held
<1>4. d \in Cache /\ Keeps(c, d) /\ d.due = "now" /\ d.held = c.held BY DEF Cache, Keeps
<1>5. e \in Cache /\ Keeps(c, e) /\ e.due = c.due /\ e.held = held /\ e.rows = c.rows
  BY <1>3 DEF Cache, Keeps
<1> HIDE DEF d, e
<1>6. CASE Receive(c, m) = d BY <1>4, <1>6
<1>7. CASE Receive(c, m) = Apply(e, m)
  <2>1. /\ Apply(e, m) \in Cache /\ Keeps(e, Apply(e, m))
        /\ Apply(e, m).due = IF m.kind = "Changed" THEN "now" ELSE c.due
        /\ Apply(e, m).held = held
        /\ Apply(e, m).rows = RowsAfter(c.rows, m)
    BY <1>5, ApplyFields
  <2>2. Keeps(c, Apply(e, m)) BY <1>5, <2>1, KeepsTransitive
  <2>3. QED BY <1>7, <2>1, <2>2 DEF held
<1>8. QED BY <1>1, <1>6, <1>7

-----------------------------------------------------------------------------
(* Reading in turn.                                                        *)

ReadsTo(g, source, c, msgs, n) ==
    g = [i \in 0..n |-> IF i = 0 THEN c ELSE Handle(source, g[i - 1], msgs[i])]

LEMMA ReadsExist ==
  ASSUME NEW source, NEW c, NEW msgs
  PROVE  \A n \in Nat : \E g : ReadsTo(g, source, c, msgs, n)
<1> DEFINE D == {n \in Nat : \E g : ReadsTo(g, source, c, msgs, n)}
<1>1. 0 \in D
  <2>1. ReadsTo([i \in 0..0 |-> c], source, c, msgs, 0) BY DEF ReadsTo
  <2>2. QED BY <2>1
<1>2. ASSUME NEW n \in D PROVE n + 1 \in D
  <2>1. PICK f : ReadsTo(f, source, c, msgs, n) OBVIOUS
  <2>2. n \in Nat OBVIOUS
  <2> DEFINE next == Handle(source, f[n], msgs[n + 1])
             g == [i \in 0..(n + 1) |-> IF i = n + 1 THEN next ELSE f[i]]
  <2>3. \A i \in 0..n : f[i] = IF i = 0 THEN c ELSE Handle(source, f[i - 1], msgs[i])
    BY <2>1 DEF ReadsTo
  <2>4. \A i \in 0..(n + 1) : g[i] = IF i = 0 THEN c ELSE Handle(source, g[i - 1], msgs[i])
    BY <2>2, <2>3
  <2>5. ReadsTo(g, source, c, msgs, n + 1) BY <2>2, <2>4 DEF ReadsTo
  <2>6. QED BY <2>2, <2>5
<1>3. D = Nat
  <2> HIDE DEF D
  <2>1. D \in SUBSET Nat BY DEF D
  <2>2. QED BY <1>1, <1>2, <2>1, SetInduction
<1>4. QED BY <1>3

(* What holds of the cache before the first message, and is kept by each   *)
(* of them, holds after the last; G has the caches of which it holds, by   *)
(* the number of messages read.                                            *)
LEMMA ReadInduction ==
  ASSUME NEW source, NEW c, NEW msgs, NEW n \in Nat, Len(msgs) = n, NEW G, c \in G[0],
         \A i \in 0..(n - 1) : \A d \in G[i] : Handle(source, d, msgs[i + 1]) \in G[i + 1]
  PROVE  Read(source, c, msgs) \in G[n]
<1> DEFINE g == CHOOSE h : ReadsTo(h, source, c, msgs, n)
<1>1. ReadsTo(g, source, c, msgs, n) BY ReadsExist
<1>2. Read(source, c, msgs) = g[n] BY DEF Read, ReadsTo
<1> HIDE DEF g
<1>3. \A i \in 0..n : g[i] = IF i = 0 THEN c ELSE Handle(source, g[i - 1], msgs[i])
  BY <1>1 DEF ReadsTo
<1> DEFINE D == {i \in Nat : i <= n => g[i] \in G[i]}
<1>4. 0 \in D BY <1>3
<1>5. ASSUME NEW i \in D PROVE i + 1 \in D
  <2>1. i \in Nat OBVIOUS
  <2>2. CASE i + 1 <= n
    <3>1. i \in 0..(n - 1) /\ i + 1 \in 0..n /\ i + 1 # 0 /\ (i + 1) - 1 = i BY <2>1, <2>2
    <3>2. g[i] \in G[i] BY <2>2
    <3>3. g[i + 1] = Handle(source, g[i], msgs[i + 1]) BY <1>3, <3>1
    <3>4. QED BY <2>1, <3>1, <3>2, <3>3
  <2>3. QED BY <2>1, <2>2
<1>6. D = Nat
  <2> HIDE DEF D
  <2>1. D \in SUBSET Nat BY DEF D
  <2>2. QED BY <1>4, <1>5, <2>1, SetInduction
<1>7. QED BY <1>2, <1>6

LEMMA SplitIs ==
  ASSUME NEW T, NEW q \in Seq(T), NEW n \in 0..Len(q)
  PROVE  /\ Arrived(q, n) \in Seq(T) /\ Len(Arrived(q, n)) = n
         /\ \A i \in 1..n : Arrived(q, n)[i] = q[i]
         /\ Rest(q, n) \in Seq(T) /\ Len(Rest(q, n)) = Len(q) - n
         /\ \A i \in 1..(Len(q) - n) : Rest(q, n)[i] = q[n + i]
<1>1. n \in Int /\ 1 \in Int /\ n + 1 \in Int /\ Len(q) \in Nat OBVIOUS
<1>2. Arrived(q, n) = SubSeq(q, 1, n) BY <1>1 DEF Arrived
<1>3. \A i \in 1..n : q[i] \in T OBVIOUS
<1>4. \A i \in (n + 1)..Len(q) : q[i] \in T OBVIOUS
<1>5. /\ SubSeq(q, 1, n) \in Seq(T)
      /\ Len(SubSeq(q, 1, n)) = IF 1 <= n THEN n - 1 + 1 ELSE 0
      /\ \A i \in 1..(n - 1 + 1) : SubSeq(q, 1, n)[i] = q[1 + i - 1]
  BY <1>1, <1>3, SubSeqProperties
<1>6. /\ SubSeq(q, n + 1, Len(q)) \in Seq(T)
      /\ Len(SubSeq(q, n + 1, Len(q))) = IF n + 1 <= Len(q) THEN Len(q) - (n + 1) + 1 ELSE 0
      /\ \A i \in 1..(Len(q) - (n + 1) + 1) : SubSeq(q, n + 1, Len(q))[i] = q[(n + 1) + i - 1]
  BY <1>1, <1>4, SubSeqProperties
<1> DEFINE a == SubSeq(q, 1, n)
           r == SubSeq(q, n + 1, Len(q))
<1> HIDE DEF a, r
<1>7. a \in Seq(T) /\ Len(a) = n /\ \A i \in 1..n : a[i] = q[i] BY <1>1, <1>5 DEF a
<1>8. r \in Seq(T) /\ Len(r) = Len(q) - n /\ \A i \in 1..(Len(q) - n) : r[i] = q[n + i]
  BY <1>1, <1>6 DEF r
<1>9. QED BY <1>2, <1>7, <1>8 DEF a, r, Rest

(* What is still to be read says what the whole said after that place.     *)
LEMMA RestSays ==
  ASSUME NEW q \in Seq(Message), NEW n \in 0..Len(q)
  PROVE  /\ FocusAfter(Rest(q, n), 0) <=> FocusAfter(q, n)
         /\ ChangeAfter(Rest(q, n), 0) <=> ChangeAfter(q, n)
         /\ \A f : Telling(q, f) => Telling(Rest(q, n), f)
<1> DEFINE r == Rest(q, n)
<1>1. Len(q) \in Nat /\ n \in Nat /\ n <= Len(q) OBVIOUS
<1>2. Len(r) = Len(q) - n /\ \A i \in 1..(Len(q) - n) : r[i] = q[n + i] BY SplitIs
<1> HIDE DEF r
<1>3. \A i \in Nat : i <= Len(r) =>
        (FocusAfter(r, i) <=> FocusAfter(q, n + i))
  <2> SUFFICES ASSUME NEW i \in Nat, i <= Len(r)
               PROVE  FocusAfter(r, i) <=> FocusAfter(q, n + i)
    OBVIOUS
  <2>1. ASSUME FocusAfter(r, i) PROVE FocusAfter(q, n + i)
    <3>1. PICK j \in 1..Len(r) : i < j /\ r[j].kind = "Focused" BY <2>1 DEF FocusAfter
    <3>2. n + j \in 1..Len(q) /\ n + i < n + j /\ q[n + j] = r[j] BY <1>1, <1>2, <3>1
    <3>3. QED BY <3>1, <3>2 DEF FocusAfter
  <2>2. ASSUME FocusAfter(q, n + i) PROVE FocusAfter(r, i)
    <3>1. PICK j \in 1..Len(q) : n + i < j /\ q[j].kind = "Focused" BY <2>2 DEF FocusAfter
    <3>2. j - n \in 1..Len(r) /\ i < j - n /\ r[j - n] = q[j] BY <1>1, <1>2, <3>1
    <3>3. QED BY <3>1, <3>2 DEF FocusAfter
  <2>3. QED BY <2>1, <2>2
<1>4. ChangeAfter(r, 0) <=> ChangeAfter(q, n)
  <2>1. ASSUME ChangeAfter(r, 0) PROVE ChangeAfter(q, n)
    <3>1. PICK j \in 1..Len(r) : r[j].kind = "Changed" BY <2>1 DEF ChangeAfter
    <3>2. n + j \in 1..Len(q) /\ n < n + j /\ q[n + j] = r[j] BY <1>1, <1>2
    <3>3. QED BY <3>1, <3>2 DEF ChangeAfter
  <2>2. ASSUME ChangeAfter(q, n) PROVE ChangeAfter(r, 0)
    <3>1. PICK j \in 1..Len(q) : n < j /\ q[j].kind = "Changed" BY <2>2 DEF ChangeAfter
    <3>2. j - n \in 1..Len(r) /\ 0 < j - n /\ r[j - n] = q[j] BY <1>1, <1>2, <3>1
    <3>3. QED BY <3>1, <3>2 DEF ChangeAfter
  <2>3. QED BY <2>1, <2>2
<1>5. FocusAfter(r, 0) <=> FocusAfter(q, n) BY <1>1, <1>2, <1>3
<1>6. ASSUME NEW f, Telling(q, f) PROVE Telling(r, f)
  <2> SUFFICES ASSUME NEW j \in 1..Len(r) PROVE Agrees(r[j], f) \/ FocusAfter(r, j)
    BY DEF Telling
  <2>1. n + j \in 1..Len(q) /\ q[n + j] = r[j] BY <1>1, <1>2
  <2>2. Agrees(q[n + j], f) \/ FocusAfter(q, n + j) BY <1>6, <2>1 DEF Telling
  <2>3. QED BY <1>2, <1>3, <2>1, <2>2
<1>7. QED BY <1>4, <1>5, <1>6 DEF r

(* A message is added to those to be read.                                 *)
LEMMA AppendSays ==
  ASSUME NEW T, NEW q \in Seq(T), NEW m \in T
  PROVE  /\ FocusAfter(Append(q, m), 0) <=> FocusAfter(q, 0) \/ m.kind = "Focused"
         /\ ChangeAfter(Append(q, m), 0) <=> ChangeAfter(q, 0) \/ m.kind = "Changed"
         /\ \A f : Agrees(m, f) /\ (m.kind = "Focused" \/ Telling(q, f)) =>
              Telling(Append(q, m), f)
<1> DEFINE a == Append(q, m)
<1>1. /\ Len(q) \in Nat /\ Len(a) = Len(q) + 1 /\ a[Len(q) + 1] = m
      /\ \A j \in 1..Len(q) : a[j] = q[j]
  OBVIOUS
<1> HIDE DEF a
<1>2. FocusAfter(a, 0) <=> FocusAfter(q, 0) \/ m.kind = "Focused"
  BY <1>1 DEF FocusAfter
<1>3. ChangeAfter(a, 0) <=> ChangeAfter(q, 0) \/ m.kind = "Changed"
  BY <1>1 DEF ChangeAfter
<1>4. ASSUME NEW f, Agrees(m, f), m.kind = "Focused" \/ Telling(q, f) PROVE Telling(a, f)
  <2> SUFFICES ASSUME NEW j \in 1..Len(a) PROVE Agrees(a[j], f) \/ FocusAfter(a, j)
    BY DEF Telling
  <2>1. CASE j = Len(q) + 1 BY <1>1, <1>4, <2>1
  <2>2. CASE j \in 1..Len(q) /\ m.kind = "Focused"
    <3>1. Len(q) + 1 \in 1..Len(a) /\ j < Len(q) + 1 BY <1>1, <2>2
    <3>2. QED BY <1>1, <2>2, <3>1 DEF FocusAfter
  <2>3. CASE j \in 1..Len(q) /\ Telling(q, f)
    <3>1. Agrees(q[j], f) \/ FocusAfter(q, j) BY <2>3 DEF Telling
    <3>2. FocusAfter(q, j) => FocusAfter(a, j) BY <1>1 DEF FocusAfter
    <3>3. QED BY <1>1, <2>3, <3>1, <3>2
  <2>4. QED BY <1>1, <1>4, <2>1, <2>2, <2>3
<1>5. QED BY <1>2, <1>3, <1>4 DEF a

(* The rows stay covered when an event is read: k is the place after it.   *)
LEMMA ReceiveCovers ==
  ASSUME NEW c \in Cache, NEW m \in Event, NEW q, NEW i, NEW k, NEW f, NEW E,
         Covered(c, q, i, f, E), Receive(c, m).due = "none",
         FocusAfter(q, k) => FocusAfter(q, i),
         ~FocusAfter(q, k) => Agrees(m, f) /\ (FocusAfter(q, i) => m.kind = "Focused"),
         ChangeAfter(q, i) /\ m.kind # "Changed" => ChangeAfter(q, k)
  PROVE  Covered(Receive(c, m), q, k, f, E)
<1> DEFINE r == Receive(c, m)
<1>1. /\ r \in Cache /\ Keeps(c, r) /\ m.kind # "Changed" /\ r.rows = RowsAfter(c.rows, m)
      /\ r.held = IF c.pending.at # "none" THEN Append(c.held, m) ELSE c.held
  BY ReceiveFields
<1>2. c.held \in Seq(Event) /\ c.rows \in RowsType BY DEF Cache
<1>3. r.pending.at = c.pending.at /\ r.pending.snap = c.pending.snap BY <1>1 DEF Keeps
<1> HIDE DEF r
<1>4. ASSUME r.pending.at # "none", ~FocusAfter(q, k)
      PROVE  Telling(r.held, f)
  <2>1. r.held = Append(c.held, m) BY <1>1, <1>3, <1>4
  <2>2. m.kind = "Focused" \/ Telling(c.held, f) BY <1>3, <1>4 DEF Covered
  <2>3. QED BY <1>2, <1>4, <2>1, <2>2, AppendSays
<1>5. ASSUME r.pending.at = "none"
      PROVE  /\ ChangeAfter(q, k) \/ DOMAIN r.rows = E
             /\ FocusAfter(q, k) \/ RowsRight(r.rows, f)
  <2>1. DOMAIN r.rows = DOMAIN c.rows BY <1>1, <1>2, RowsAfterFields
  <2>2. ChangeAfter(q, k) \/ DOMAIN r.rows = E BY <1>1, <1>3, <1>5, <2>1 DEF Covered
  <2>3. ASSUME ~FocusAfter(q, k) PROVE RowsRight(r.rows, f)
    <3>1. m.kind = "Focused" \/ RowsRight(c.rows, f) BY <1>3, <1>5, <2>3 DEF Covered
    <3>2. QED BY <1>1, <1>2, <2>3, <3>1, RowsAfterFields
  <2>4. QED BY <2>2, <2>3
<1>6. ASSUME r.pending.at = "ok"
      PROVE  /\ ChangeAfter(q, k) \/ DOMAIN r.pending.snap = E
             /\ FocusAfter(q, k) \/ FocusAfter(r.held, 0) \/ RowsRight(r.pending.snap, f)
  <2>1. r.held = Append(c.held, m) BY <1>1, <1>3, <1>6
  <2>2. FocusAfter(r.held, 0) <=> FocusAfter(c.held, 0) \/ m.kind = "Focused"
    BY <1>2, <2>1, AppendSays
  <2>3. QED BY <1>1, <1>3, <1>6, <2>2 DEF Covered
<1>7. QED BY <1>4, <1>5, <1>6 DEF Covered, r

(* The record of what a frame leaves of a stream, read or not.             *)
LEMMA HeldKindsKept ==
  ASSUME NEW c \in Cache, NEW m \in Event,
         \A j \in 1..Len(c.held) : c.held[j].kind \in HeldKinds,
         c.held # <<>> => c.pending.at # "none"
  PROVE  /\ \A j \in 1..Len(Receive(c, m).held) : Receive(c, m).held[j].kind \in HeldKinds
         /\ Receive(c, m).held # <<>> => Receive(c, m).pending.at # "none"
<1> DEFINE r == Receive(c, m)
<1>1. /\ Keeps(c, r)
      /\ r.held = c.held \/ (/\ c.pending.at # "none" /\ m.kind # "Changed"
                             /\ r.held = Append(c.held, m))
  BY ReceiveFields
<1>2. r.pending.at = c.pending.at BY <1>1 DEF Keeps
<1> HIDE DEF r
<1>3. c.held \in Seq(Event) BY DEF Cache
<1>4. m.kind # "Changed" => m.kind \in HeldKinds BY EventFields DEF HeldKinds
<1>5. CASE r.held = c.held BY <1>2, <1>5 DEF r
<1>6. CASE c.pending.at # "none" /\ m.kind # "Changed" /\ r.held = Append(c.held, m)
  <2>1. /\ Len(c.held) \in Nat /\ Len(r.held) = Len(c.held) + 1
        /\ r.held[Len(c.held) + 1] = m /\ \A j \in 1..Len(c.held) : r.held[j] = c.held[j]
    BY <1>3, <1>6
  <2>2. QED BY <1>2, <1>4, <1>6, <2>1 DEF r
<1>7. QED BY <1>1, <1>5, <1>6

-----------------------------------------------------------------------------
(* The lifecycle stream.                                                   *)

LEMMA LinkEndedFields ==
  ASSUME NEW c \in Cache, NEW why \in {"server", "absent", "dropped"}
  PROVE  LET r == LinkEnded(c, why) IN
         /\ r \in Cache /\ r.link \in {"Down", "Abandoned"} /\ r.life = NoStream
         /\ r.stat = IF c.link = "Up" THEN NoStream ELSE c.stat
         /\ r.held = c.held /\ r.pending = c.pending
<1> DEFINE wasUp == c.link = "Up"
           up == [c EXCEPT !.stat = NoStream,
                           !.blank = IF @ = "over" THEN @ ELSE "alarmed"]
           retired == IF wasUp THEN up ELSE c
           noted == [retired EXCEPT !.life = NoStream,
                                    !.absent = IF why = "dropped" THEN @ ELSE why = "absent"]
           r == LinkEnded(c, why)
<1>1. NoStream \in Stream BY Fresh
<1>2. /\ up \in Cache /\ up.stat = NoStream /\ up.held = c.held /\ up.pending = c.pending
      /\ up.link = c.link
  BY <1>1 DEF Cache
<1> HIDE DEF up
<1>3. /\ retired \in Cache /\ retired.held = c.held /\ retired.pending = c.pending
      /\ retired.stat = IF wasUp THEN NoStream ELSE c.stat
  BY <1>2
<1>4. /\ \/ r = [noted EXCEPT !.link = "Abandoned"]
         \/ r = [noted EXCEPT !.link = "Down", !.retry = IF wasUp THEN "now" ELSE "later"]
  BY DEF LinkEnded, up
<1> HIDE DEF retired
<1>5. /\ noted \in Cache /\ noted.held = c.held /\ noted.pending = c.pending
      /\ noted.stat = retired.stat /\ noted.life = NoStream
  BY <1>1, <1>3 DEF Cache
<1> HIDE DEF noted, r
<1>6. /\ r \in Cache /\ r.link \in {"Down", "Abandoned"} /\ r.life = NoStream
      /\ r.stat = retired.stat /\ r.held = c.held /\ r.pending = c.pending
  <2>1. CASE r = [noted EXCEPT !.link = "Abandoned"] BY <1>5, <2>1 DEF Cache
  <2> DEFINE retry == IF wasUp THEN "now" ELSE "later"
  <2>2. CASE r = [noted EXCEPT !.link = "Down", !.retry = retry]
    <3>1. retry \in {"now", "later"} OBVIOUS
    <3> HIDE DEF retry
    <3>2. QED BY <1>5, <2>2, <3>1 DEF Cache
  <2>3. QED BY <1>4, <2>1, <2>2
<1>7. QED BY <1>3, <1>6 DEF r

LEMMA StartedFields ==
  ASSUME NEW c \in Cache, NEW m, m.kind = "Started"
  PROVE  LET r == OnLifecycle(c, m) IN
         /\ r \in Cache /\ r.link = "Up" /\ r.due = "now" /\ r.life = c.life
         /\ r.stat = c.stat /\ r.held = c.held /\ r.pending = c.pending
<1>1. OnLifecycle(c, m) =
        [[c EXCEPT !.ever = TRUE, !.absent = FALSE, !.blank = "none"]
            EXCEPT !.link = "Up", !.due = "now"]
  BY DEF OnLifecycle, NoteSuccess
<1>2. QED BY <1>1 DEF Cache

(* The claims do not depend on which sequence it is that says it.          *)
LEMMA CoveredBySame ==
  ASSUME NEW c, NEW q, NEW i, NEW p, NEW k, NEW f, NEW E,
         FocusAfter(q, i) <=> FocusAfter(p, k), ChangeAfter(q, i) <=> ChangeAfter(p, k)
  PROVE  Covered(c, q, i, f, E) <=> Covered(c, p, k, f, E)
BY DEF Covered

LEMMA RestStream ==
  ASSUME NEW s \in Stream, NEW kinds, StreamOf(s, kinds), NEW n \in 0..Len(s.msgs),
         s.at = "over" => n < Len(s.msgs)
  PROVE  /\ [s EXCEPT !.msgs = Rest(@, n)] \in Stream
         /\ StreamOf([s EXCEPT !.msgs = Rest(@, n)], kinds)
<1> DEFINE q == s.msgs
           r == Rest(q, n)
           t == [s EXCEPT !.msgs = r]
<1>1. q \in Seq(Message) /\ n \in 0..Len(q) BY DEF Stream
<1> HIDE DEF q
<1>2. /\ r \in Seq(Message) /\ Len(r) = Len(q) - n
      /\ \A i \in 1..(Len(q) - n) : r[i] = q[n + i]
  BY <1>1, SplitIs
<1> HIDE DEF r
<1>3. t \in Stream /\ t.msgs = r /\ t.at = s.at BY <1>2 DEF Stream
<1> HIDE DEF t
<1>4. ASSUME s.at \in {"none", "opening"} PROVE r = <<>>
  <2>1. q = <<>> BY <1>4 DEF StreamOf, q
  <2>2. Len(r) = 0 BY <1>1, <1>2, <2>1
  <2>3. QED BY <1>2, <2>2
<1>5. ASSUME NEW j \in 1..Len(r)
      PROVE  /\ r[j].kind \in kinds
             /\ r[j].kind = "Ended" => j = Len(r) /\ s.at = "over"
  <2>1. n + j \in 1..Len(q) /\ r[j] = q[n + j] BY <1>1, <1>2
  <2>2. /\ q[n + j].kind \in kinds
        /\ q[n + j].kind = "Ended" => n + j = Len(q) /\ s.at = "over"
    BY <2>1 DEF StreamOf, q
  <2>3. QED BY <1>1, <1>2, <2>1, <2>2
<1>6. ASSUME s.at = "over" PROVE r # <<>> /\ r[Len(r)].kind = "Ended"
  <2>1. n < Len(q) /\ q[Len(q)].kind = "Ended" BY <1>6 DEF StreamOf, q
  <2>2. Len(r) \in 1..(Len(q) - n) /\ n + Len(r) = Len(q) BY <1>1, <1>2, <2>1
  <2>3. QED BY <1>2, <2>1, <2>2
<1>7. StreamOf(t, kinds) BY <1>3, <1>4, <1>5, <1>6 DEF StreamOf
<1>8. QED BY <1>3, <1>7 DEF t, r, q

LEMMA AdvanceLinkGood ==
  ASSUME NEW c, NEW f, NEW E, Good(c, f, E), NEW n \in 0..Len(c.life.msgs)
  PROVE  Good(AdvanceLink(c, n), f, E)
<1> DEFINE q == c.life.msgs
           at == c.life.at
           life == [c.life EXCEPT !.msgs = Rest(@, n)]
           base == [c EXCEPT !.life = life]
           arrived == Arrived(q, n)
           Links == {"Connecting", "Up"}
           Mid(i) == {d \in Cache :
             /\ d.life = IF d.link \in Links THEN life ELSE NoStream
             /\ i < n \/ at \in {"open", "opening"} => d.link \in Links
             /\ at = "opening" => d.link = "Connecting"
             /\ at = "over" /\ i = Len(q) => d.link \notin Links
             /\ d.stat.at # "none" => d.link = "Up" /\ d.stat.names # {}
             /\ d.held # <<>> => d.pending.at # "none"
             /\ \A j \in 1..Len(d.held) : d.held[j].kind \in HeldKinds
             /\ StreamOf(d.stat, StatKinds)
             /\ at = "open" => /\ d.link = "Connecting" => i = 0 /\ c.link = "Connecting"
                               /\ d.link = "Up" /\ d.due = "none" => Covered(d, q, i, f, E)}
           G == [i \in 0..n |-> Mid(i)]
<1>1. c \in Cache /\ Linked(c) /\ Greeted(c) /\ StreamOf(c.life, LifeKinds) BY DEF Good
<1>2. c.life \in Stream /\ q \in Seq(Message) BY <1>1 DEF Cache, Stream
<1>3. /\ n \in Nat /\ Len(q) \in Nat /\ n <= Len(q) BY <1>2
<1>4. CASE c.link = "Abandoned" BY <1>4 DEF AdvanceLink
<1>5. CASE c.link = "Down"
  <2>1. at = "none" BY <1>1, <1>5 DEF Linked
  <2>2. CASE c.retry # "now"
    <3>1. AdvanceLink(c, n) = c BY <1>5, <2>2 DEF AdvanceLink
    <3>2. QED BY <3>1
  <2>3. CASE c.retry = "now"
    <3> DEFINE r == [c EXCEPT !.link = "Connecting", !.life = Opening({})]
    <3>1. AdvanceLink(c, n) = r BY <1>5, <2>3 DEF AdvanceLink
    <3>2. /\ Opening({}) \in Stream /\ Opening({}).at = "opening"
          /\ Opening({}).msgs = <<>>
      BY Fresh
    <3>3. /\ r \in Cache /\ r.link = "Connecting" /\ r.life = Opening({}) /\ r.stat = c.stat
          /\ r.held = c.held /\ r.pending = c.pending
      BY <1>1, <3>2 DEF Cache
    <3> HIDE DEF r
    <3>4. Linked(r) BY <1>1, <1>5, <3>2, <3>3 DEF Linked
    <3>5. StreamOf(r.life, LifeKinds) BY <3>2, <3>3 DEF StreamOf
    <3>6. QED BY <3>1, <3>2, <3>3, <3>4, <3>5 DEF Good, Greeted
  <2>4. QED BY <2>2, <2>3
<1>6. CASE c.link \in Links
  <2>1. at \in {"opening", "open", "over"} /\ (at = "opening" => c.link = "Connecting" /\ q = <<>>)
    BY <1>1, <1>2, <1>6 DEF Linked, StreamOf, Stream
  <2>2. /\ arrived \in Seq(Message) /\ Len(arrived) = n
        /\ \A i \in 1..n : arrived[i] = q[i]
        /\ Rest(q, n) \in Seq(Message) /\ Len(Rest(q, n)) = Len(q) - n
        /\ \A i \in 1..(Len(q) - n) : Rest(q, n)[i] = q[n + i]
    BY <1>2, SplitIs
  <2>3. life \in Stream /\ life.at = at /\ life.msgs = Rest(q, n) BY <1>2, <2>2 DEF Stream
  <2>4. AdvanceLink(c, n) = Read("life", base, arrived)
    BY <1>6 DEF AdvanceLink
  <2>5. /\ base \in Cache /\ base.life = life /\ base.link = c.link /\ base.stat = c.stat
        /\ base.held = c.held /\ base.pending = c.pending /\ base.due = c.due
        /\ base.rows = c.rows
    BY <1>1, <2>3 DEF Cache
  <2> HIDE DEF base, life, arrived
  <2>6. base \in Mid(0)
    <3>1. at = "open" /\ c.link = "Up" /\ c.due = "none" => Covered(base, q, 0, f, E)
      BY <2>5 DEF Good, Covered
    <3>2. at = "over" => Len(q) # 0 BY <1>1, <1>2 DEF StreamOf
    <3>3. QED BY <1>1, <1>6, <2>1, <2>5, <3>1, <3>2 DEF Linked
  <2>7. ASSUME NEW i \in 0..(n - 1), NEW d \in Mid(i)
        PROVE  Handle("life", d, arrived[i + 1]) \in Mid(i + 1)
    <3> DEFINE m == q[i + 1]
    <3>1. i \in Nat /\ i + 1 \in 1..n /\ i + 1 \in 1..Len(q) /\ i < n BY <1>3
    <3>2. /\ arrived[i + 1] = m /\ m \in Message /\ m.kind \in LifeKinds
          /\ m.kind = "Ended" => i + 1 = Len(q) /\ at = "over"
          /\ at = "over" /\ i + 1 = Len(q) => m.kind = "Ended"
      BY <1>1, <1>2, <2>2, <3>1 DEF StreamOf
    <3>3. /\ d \in Cache /\ d.link \in Links /\ d.life = life
          /\ d.stat.at # "none" => d.link = "Up" /\ d.stat.names # {}
          /\ d.held # <<>> => d.pending.at # "none"
          /\ \A j \in 1..Len(d.held) : d.held[j].kind \in HeldKinds
          /\ StreamOf(d.stat, StatKinds)
          /\ at = "open" => /\ d.link = "Connecting" => i = 0 /\ c.link = "Connecting"
                            /\ d.link = "Up" /\ d.due = "none" => Covered(d, q, i, f, E)
          /\ at # "opening"
      BY <2>1, <3>1
    <3> DEFINE r == OnLifecycle(d, m)
    <3>4. Handle("life", d, m) = r BY DEF Handle
    <3> HIDE DEF m
    <3>5. CASE m.kind = "Started"
      <4>1. /\ r \in Cache /\ r.link = "Up" /\ r.due = "now" /\ r.life = d.life
            /\ r.stat = d.stat /\ r.held = d.held /\ r.pending = d.pending
        BY <3>3, <3>5, StartedFields
      <4>2. ~(at = "over" /\ i + 1 = Len(q)) BY <3>2, <3>5
      <4> HIDE DEF r
      <4>3. r \in Mid(i + 1) BY <3>2, <3>3, <4>1, <4>2
      <4>4. QED BY <3>2, <3>4, <4>3
    <3>6. CASE m.kind = "Ended"
      <4>1. r = LinkEnded(d, m.why) BY <3>6 DEF OnLifecycle
      <4>2. m.why \in {"server", "absent", "dropped"} BY <3>2, <3>6, MessageFields
      <4>3. /\ r \in Cache /\ r.link \in {"Down", "Abandoned"} /\ r.life = NoStream
            /\ r.stat = IF d.link = "Up" THEN NoStream ELSE d.stat
            /\ r.held = d.held /\ r.pending = d.pending
        BY <3>3, <4>1, <4>2, LinkEndedFields
      <4>4. r.stat.at = "none" /\ StreamOf(r.stat, StatKinds)
        <5>1. StreamOf(NoStream, StatKinds) BY Fresh DEF StreamOf
        <5>2. QED BY <3>3, <4>3, <5>1, Fresh
      <4>5. ~(i + 1 < n) /\ at = "over" BY <1>3, <3>1, <3>2, <3>6
      <4> HIDE DEF r
      <4>6. QED BY <3>2, <3>3, <3>4, <4>3, <4>4, <4>5
    <3>7. CASE m.kind \notin {"Started", "Ended"}
      <4>1. r = Receive(d, m) BY <3>7 DEF OnLifecycle
      <4>2. m \in Event BY <3>2, <3>7, MessageFields
      <4>3. r \in Cache /\ Keeps(d, r) /\ r.due \in {d.due, "now"}
        BY <3>3, <4>1, <4>2, ReceiveFields
      <4>4. /\ \A j \in 1..Len(r.held) : r.held[j].kind \in HeldKinds
            /\ r.held # <<>> => r.pending.at # "none"
        BY <3>3, <4>1, <4>2, HeldKindsKept
      <4>5. at = "open" => d.link = "Up"
        BY <1>1, <3>2, <3>3, <3>7 DEF Greeted, m
      <4>6. ASSUME at = "open", r.due = "none" PROVE Covered(r, q, i + 1, f, E)
        <5>1. d.due = "none" BY <3>3, <4>1, <4>2, <4>6, ReceiveFields
        <5>2. Covered(d, q, i, f, E) BY <3>3, <4>5, <4>6, <5>1
        <5>3. Telling(q, f) BY <4>6 DEF Good
        <5>4. FocusAfter(q, i + 1) => FocusAfter(q, i) BY <3>1 DEF FocusAfter
        <5>5. ~FocusAfter(q, i + 1) => Agrees(m, f) BY <3>1, <5>3 DEF Telling, m
        <5>6. ~FocusAfter(q, i + 1) /\ FocusAfter(q, i) => m.kind = "Focused"
          BY <1>3, <3>1 DEF FocusAfter, m
        <5>7. ChangeAfter(q, i) /\ m.kind # "Changed" => ChangeAfter(q, i + 1)
          BY <1>3, <3>1 DEF ChangeAfter, m
        <5> HIDE DEF q, r
        <5>8. Receive(d, m).due = "none" BY <4>1, <4>6
        <5>9. QED BY <3>3, <4>1, <4>2, <5>2, <5>4, <5>5, <5>6, <5>7, <5>8, ReceiveCovers
      <4>7. /\ r.link = d.link /\ r.life = d.life /\ r.stat = d.stat
            /\ r.pending.at = d.pending.at
        BY <4>3 DEF Keeps
      <4>8. ~(at = "over" /\ i + 1 = Len(q)) BY <3>2, <3>7
      <4> HIDE DEF r
      <4>9. r \in Mid(i + 1) BY <3>2, <3>3, <4>3, <4>4, <4>5, <4>6, <4>7, <4>8
      <4>10. QED BY <3>2, <3>4, <4>9
    <3>8. QED BY <3>5, <3>6, <3>7
  <2> DEFINE d == AdvanceLink(c, n)
  <2>8. d \in Mid(n)
    <3>1. base \in G[0] BY <1>3, <2>6
    <3>2. \A i \in 0..(n - 1) : \A x \in G[i] : Handle("life", x, arrived[i + 1]) \in G[i + 1]
      <4>1. \A i \in 0..(n - 1) : i \in 0..n /\ i + 1 \in 0..n BY <1>3
      <4>2. \A i \in 0..n : G[i] = Mid(i) OBVIOUS
      <4> HIDE DEF Mid, G
      <4>3. QED BY <2>7, <4>1, <4>2
    <3>3. n \in 0..n BY <1>3
    <3>4. G[n] = Mid(n) BY <3>3
    <3> HIDE DEF G, Mid
    <3>5. Read("life", base, arrived) \in G[n] BY <1>3, <2>2, <3>1, <3>2, ReadInduction
    <3>6. QED BY <2>4, <3>4, <3>5
  <2>9. /\ d \in Cache
        /\ d.life = IF d.link \in Links THEN life ELSE NoStream
        /\ at \in {"open", "opening"} => d.link \in Links
        /\ at = "opening" => d.link = "Connecting"
        /\ at = "over" /\ n = Len(q) => d.link \notin Links
        /\ d.stat.at # "none" => d.link = "Up" /\ d.stat.names # {}
        /\ d.held # <<>> => d.pending.at # "none"
        /\ \A j \in 1..Len(d.held) : d.held[j].kind \in HeldKinds
        /\ StreamOf(d.stat, StatKinds)
        /\ at = "open" => /\ d.link = "Connecting" => n = 0 /\ c.link = "Connecting"
                          /\ d.link = "Up" /\ d.due = "none" => Covered(d, q, n, f, E)
    BY <2>8
  <2> HIDE DEF d, Mid, G
  <2>10. CASE d.link \in Links
    <3>1. at = "over" => n < Len(q) BY <1>3, <2>9, <2>10
    <3>2. StreamOf(life, LifeKinds) BY <1>1, <1>2, <3>1, RestStream DEF life
    <3>3. Linked(d) BY <2>1, <2>3, <2>9, <2>10 DEF Linked
    <3>4. Greeted(d)
      <4>1. SUFFICES ASSUME d.link = "Connecting", at = "open"
                     PROVE  life.msgs # <<>> /\ life.msgs[1].kind = "Started"
        BY <2>3, <2>9, <2>10 DEF Greeted
      <4>2. n = 0 /\ q # <<>> /\ q[1].kind = "Started" BY <1>1, <2>9, <4>1 DEF Greeted
      <4>3. QED BY <1>2, <2>2, <2>3, <4>2
    <3>5. ASSUME at = "open"
          PROVE  /\ Telling(life.msgs, f)
                 /\ d.link = "Up" /\ d.due = "none" => Covered(d, life.msgs, 0, f, E)
      <4>1. Telling(q, f) BY <3>5 DEF Good
      <4>2. /\ FocusAfter(life.msgs, 0) <=> FocusAfter(q, n)
            /\ ChangeAfter(life.msgs, 0) <=> ChangeAfter(q, n)
            /\ Telling(life.msgs, f)
        BY <1>2, <2>3, <4>1, RestSays
      <4> HIDE DEF q
      <4>3. QED BY <2>9, <3>5, <4>2, CoveredBySame
    <3>6. d.life = life BY <2>9, <2>10
    <3> HIDE DEF Links
    <3>7. Good(d, f, E) BY <2>3, <2>9, <3>2, <3>3, <3>4, <3>5, <3>6 DEF Good
    <3>8. QED BY <3>7 DEF d
  <2>11. CASE d.link \notin Links
    <3>1. d.life = NoStream /\ d.life.at = "none" /\ d.life.msgs = <<>> BY <2>9, <2>11, Fresh
    <3>2. StreamOf(d.life, LifeKinds) BY <3>1 DEF StreamOf
    <3>3. Linked(d) BY <2>9, <2>11, <3>1 DEF Linked
    <3>4. Greeted(d) BY <3>1 DEF Greeted
    <3>5. Good(d, f, E) BY <2>9, <3>1, <3>2, <3>3, <3>4 DEF Good
    <3>6. QED BY <3>5 DEF d
  <2>12. QED BY <2>10, <2>11
<1>7. QED BY <1>1, <1>4, <1>5, <1>6 DEF Cache

-----------------------------------------------------------------------------
(* The status stream.                                                      *)

LEMMA StatusEndedFields ==
  ASSUME NEW c \in Cache, NEW m \in Message, m.kind = "Ended"
  PROVE  LET r == OnStatus(c, m) IN
         /\ r \in Cache /\ r.stat = NoStream /\ r.link = c.link /\ r.life = c.life
         /\ r.held = c.held /\ r.pending = c.pending /\ r.due = c.due /\ r.rows = c.rows
<1> DEFINE refused == IF m.why = "dropped" THEN c.refused ELSE c.stat.names
           r == [c EXCEPT !.stat = NoStream, !.refused = refused]
<1>1. refused \in SUBSET Panes BY DEF Cache, Stream
<1>2. OnStatus(c, m) = r BY DEF OnStatus
<1> HIDE DEF refused
<1>3. /\ r \in Cache /\ r.stat = NoStream /\ r.link = c.link /\ r.life = c.life
      /\ r.held = c.held /\ r.pending = c.pending /\ r.due = c.due /\ r.rows = c.rows
  BY <1>1, Fresh DEF Cache
<1>4. QED BY <1>2, <1>3

(* The lifecycle stream may have ended in this frame and dropped the       *)
(* status stream with it: then there is nothing to read.                   *)
LEMMA AdvanceStatusWithin ==
  ASSUME NEW c \in Cache, NEW n \in Nat
  PROVE  \E k \in 0..Len(c.stat.msgs) : AdvanceStatus(c, n) = AdvanceStatus(c, k)
<1> DEFINE q == c.stat.msgs
<1>1. q \in Seq(Message) /\ Len(q) \in Nat BY DEF Cache, Stream
<1> HIDE DEF q
<1>2. CASE n <= Len(q)
  <2>1. n \in 0..Len(q) BY <1>1, <1>2
  <2>2. QED BY <2>1 DEF q
<1>3. CASE n > Len(q)
  <2>1. Arrived(q, n) = Arrived(q, Len(q)) BY <1>1, <1>3 DEF Arrived
  <2>2. Rest(q, n) = <<>>
    <3>1. n + 1 > Len(q) /\ n + 1 \in Int /\ Len(q) \in Int BY <1>1, <1>3
    <3>2. QED BY <3>1, SubSeqEmpty DEF Rest
  <2>3. Rest(q, Len(q)) = <<>>
    <3>1. Len(q) + 1 > Len(q) /\ Len(q) + 1 \in Int /\ Len(q) \in Int BY <1>1
    <3>2. QED BY <3>1, SubSeqEmpty DEF Rest
  <2>4. Len(q) \in 0..Len(q) BY <1>1
  <2>5. AdvanceStatus(c, n) = AdvanceStatus(c, Len(q)) BY <2>1, <2>2, <2>3 DEF AdvanceStatus, q
  <2>6. QED BY <2>4, <2>5 DEF q
<1>4. QED BY <1>1, <1>2, <1>3

LEMMA AdvanceStatusGood ==
  ASSUME NEW c, NEW f, NEW E, Good(c, f, E), NEW n \in 0..Len(c.stat.msgs)
  PROVE  Good(AdvanceStatus(c, n), f, E)
<1> DEFINE q == c.stat.msgs
           p == c.life.msgs
           at == c.stat.at
           stat == [c.stat EXCEPT !.msgs = Rest(@, n)]
           base == [c EXCEPT !.stat = stat]
           arrived == Arrived(q, n)
           owed == c.life.at = "open" /\ c.link = "Up"
           Mid(i) == {d \in Cache :
             /\ d.link = c.link /\ d.life = c.life /\ d.stat \in {stat, NoStream}
             /\ at = "over" /\ i = Len(q) => d.stat = NoStream
             /\ d.held # <<>> => d.pending.at # "none"
             /\ \A j \in 1..Len(d.held) : d.held[j].kind \in HeldKinds
             /\ owed /\ d.due = "none" => Covered(d, p, 0, f, E)}
           G == [i \in 0..n |-> Mid(i)]
<1>1. c \in Cache /\ Linked(c) /\ Greeted(c) /\ StreamOf(c.stat, StatKinds)
  BY DEF Good, Linked
<1>2. c.stat \in Stream /\ q \in Seq(Message) BY <1>1 DEF Cache, Stream
<1>3. /\ n \in Nat /\ Len(q) \in Nat /\ n <= Len(q) BY <1>2
<1>4. /\ arrived \in Seq(Message) /\ Len(arrived) = n
      /\ \A i \in 1..n : arrived[i] = q[i]
      /\ Rest(q, n) \in Seq(Message)
  BY <1>2, SplitIs
<1>5. stat \in Stream /\ stat.at = at /\ stat.names = c.stat.names BY <1>2, <1>4 DEF Stream
<1>6. AdvanceStatus(c, n) = Read("stat", base, arrived)
  <2>1. [c EXCEPT !.stat.msgs = Rest(@, n)] = base BY <1>1 DEF Cache
  <2>2. QED BY <2>1 DEF AdvanceStatus
<1>7. /\ base \in Cache /\ base.stat = stat /\ base.link = c.link /\ base.life = c.life
      /\ base.held = c.held /\ base.pending = c.pending /\ base.due = c.due
      /\ base.rows = c.rows
  BY <1>1, <1>5 DEF Cache
<1> HIDE DEF base, stat, arrived
<1>8. base \in Mid(0)
  <2>1. owed /\ c.due = "none" => Covered(base, p, 0, f, E) BY <1>7 DEF Good, Covered
  <2>2. at = "over" => Len(q) # 0 BY <1>1, <1>2 DEF StreamOf
  <2>3. QED BY <1>1, <1>7, <2>1, <2>2 DEF Linked
<1>9. ASSUME NEW i \in 0..(n - 1), NEW d \in Mid(i)
      PROVE  Handle("stat", d, arrived[i + 1]) \in Mid(i + 1)
  <2> DEFINE m == q[i + 1]
             r == OnStatus(d, m)
  <2>1. i \in Nat /\ i + 1 \in 1..n /\ i + 1 \in 1..Len(q) BY <1>3
  <2>2. /\ arrived[i + 1] = m /\ m \in Message /\ m.kind \in StatKinds
        /\ at = "over" /\ i + 1 = Len(q) => m.kind = "Ended"
    BY <1>1, <1>2, <1>4, <2>1 DEF StreamOf
  <2>3. /\ d \in Cache /\ d.link = c.link /\ d.life = c.life /\ d.stat \in {stat, NoStream}
        /\ d.held # <<>> => d.pending.at # "none"
        /\ \A j \in 1..Len(d.held) : d.held[j].kind \in HeldKinds
        /\ owed /\ d.due = "none" => Covered(d, p, 0, f, E)
    OBVIOUS
  <2>4. Handle("stat", d, m) = r BY DEF Handle
  <2> HIDE DEF m
  <2>5. CASE m.kind = "Started"
    <3>1. r = [d EXCEPT !.due = "now"] BY <2>5 DEF OnStatus
    <3>2. /\ r \in Cache /\ r.due = "now" /\ r.link = d.link /\ r.life = d.life
          /\ r.stat = d.stat /\ r.held = d.held /\ r.pending = d.pending
      BY <2>3, <3>1 DEF Cache
    <3>3. ~(at = "over" /\ i + 1 = Len(q)) BY <2>2, <2>5
    <3> HIDE DEF r
    <3>4. r \in Mid(i + 1) BY <2>3, <3>2, <3>3
    <3>5. QED BY <2>2, <2>4, <3>4
  <2>6. CASE m.kind = "Ended"
    <3>1. /\ r \in Cache /\ r.stat = NoStream /\ r.link = d.link /\ r.life = d.life
          /\ r.held = d.held /\ r.pending = d.pending /\ r.due = d.due /\ r.rows = d.rows
      BY <2>2, <2>3, <2>6, StatusEndedFields
    <3> HIDE DEF r
    <3>2. owed /\ r.due = "none" => Covered(r, p, 0, f, E) BY <2>3, <3>1 DEF Covered
    <3>3. r \in Mid(i + 1) BY <2>3, <3>1, <3>2
    <3>4. QED BY <2>2, <2>4, <3>3
  <2>7. CASE m.kind = "Status"
    <3>1. r = Receive(d, m) BY <2>7 DEF OnStatus
    <3>2. m \in Event BY <2>2, <2>7, MessageFields
    <3>3. r \in Cache /\ Keeps(d, r) /\ r.due \in {d.due, "now"}
      BY <2>3, <3>1, <3>2, ReceiveFields
    <3>4. /\ \A j \in 1..Len(r.held) : r.held[j].kind \in HeldKinds
          /\ r.held # <<>> => r.pending.at # "none"
      BY <2>3, <3>1, <3>2, HeldKindsKept
    <3>5. ASSUME owed, r.due = "none" PROVE Covered(r, p, 0, f, E)
      <4>1. d.due = "none" BY <2>3, <3>1, <3>2, <3>5, ReceiveFields
      <4>2. Covered(d, p, 0, f, E) BY <2>3, <3>5, <4>1
      <4>3. Agrees(m, f) BY <2>7 DEF Agrees
      <4>4. Receive(d, m).due = "none" BY <3>1, <3>5
      <4> HIDE DEF p, r
      <4>5. QED BY <2>3, <3>1, <3>2, <4>2, <4>3, <4>4, ReceiveCovers
    <3>6. /\ r.link = d.link /\ r.life = d.life /\ r.stat = d.stat BY <3>3 DEF Keeps
    <3>7. ~(at = "over" /\ i + 1 = Len(q)) BY <2>2, <2>7
    <3> HIDE DEF r
    <3>8. r \in Mid(i + 1) BY <2>3, <3>3, <3>4, <3>5, <3>6, <3>7
    <3>9. QED BY <2>2, <2>4, <3>8
  <2>8. QED BY <2>2, <2>5, <2>6, <2>7 DEF StatKinds
<1> DEFINE d == AdvanceStatus(c, n)
<1>10. d \in Mid(n)
  <2>1. base \in G[0] BY <1>3, <1>8
  <2>2. \A i \in 0..(n - 1) : \A x \in G[i] : Handle("stat", x, arrived[i + 1]) \in G[i + 1]
    <3>1. \A i \in 0..(n - 1) : i \in 0..n /\ i + 1 \in 0..n BY <1>3
    <3>2. \A i \in 0..n : G[i] = Mid(i) OBVIOUS
    <3> HIDE DEF Mid, G
    <3>3. QED BY <1>9, <3>1, <3>2
  <2>3. n \in 0..n BY <1>3
  <2>4. G[n] = Mid(n) BY <2>3
  <2> HIDE DEF G, Mid
  <2>5. Read("stat", base, arrived) \in G[n] BY <1>3, <1>4, <2>1, <2>2, ReadInduction
  <2>6. QED BY <1>6, <2>4, <2>5
<1>11. /\ d \in Cache /\ d.link = c.link /\ d.life = c.life /\ d.stat \in {stat, NoStream}
       /\ at = "over" /\ n = Len(q) => d.stat = NoStream
       /\ d.held # <<>> => d.pending.at # "none"
       /\ \A j \in 1..Len(d.held) : d.held[j].kind \in HeldKinds
       /\ owed /\ d.due = "none" => Covered(d, p, 0, f, E)
  BY <1>10
<1> HIDE DEF d, Mid, G
<1>12. StreamOf(d.stat, StatKinds)
  <2>1. StreamOf(NoStream, StatKinds) BY Fresh DEF StreamOf
  <2>2. CASE d.stat # NoStream
    <3>1. at = "over" => n < Len(q) BY <1>3, <1>11, <2>2
    <3>2. StreamOf(stat, StatKinds) BY <1>1, <1>2, <3>1, RestStream DEF stat
    <3>3. QED BY <1>11, <2>2, <3>2
  <2>3. QED BY <2>1, <2>2
<1>13. Linked(d)
  <2>1. d.stat.at # "none" => d.stat = stat BY <1>11, Fresh
  <2>2. QED BY <1>1, <1>5, <1>11, <1>12, <2>1 DEF Linked
<1>14. Greeted(d) BY <1>1, <1>11 DEF Greeted
<1>15. Good(d, f, E)
  <2>1. StreamOf(d.life, LifeKinds) /\ (d.life.at = "open" => Telling(d.life.msgs, f))
    BY <1>11 DEF Good
  <2>2. d.life.at = "open" /\ d.link = "Up" /\ d.due = "none" => Covered(d, d.life.msgs, 0, f, E)
    BY <1>11
  <2>3. QED BY <1>11, <1>13, <1>14, <2>1, <2>2 DEF Good
<1>16. QED BY <1>15 DEF d

-----------------------------------------------------------------------------
(* The listing.                                                            *)

LEMMA ExpireGraceFields ==
  ASSUME NEW c \in Cache
  PROVE  LET r == ExpireGrace(c) IN
         /\ r \in Cache /\ r.link = c.link /\ r.life = c.life /\ r.stat = c.stat
         /\ r.held = c.held /\ r.pending = c.pending /\ r.due = c.due
<1> DEFINE d == [c EXCEPT !.sample = "none", !.rows = NoRows]
<1>1. /\ d \in Cache /\ d.link = c.link /\ d.life = c.life /\ d.stat = c.stat
      /\ d.held = c.held /\ d.pending = c.pending /\ d.due = c.due
  BY Fresh DEF Cache
<1>2. ExpireGrace(c) = c \/ ExpireGrace(c) = d BY DEF ExpireGrace
<1> HIDE DEF d
<1>3. QED BY <1>1, <1>2

LEMMA ListingFailedFields ==
  ASSUME NEW c \in Cache
  PROVE  LET r == ListingFailed(c) IN
         /\ r \in Cache /\ r.link = c.link /\ r.life = c.life /\ r.stat = c.stat
         /\ r.held = <<>> /\ r.pending.at = "none" /\ (c.link = "Up" => r.due = "later")
<1> DEFINE blank == IF c.blank = "none" THEN "silent" ELSE c.blank
           due == IF c.link = "Up" THEN "later" ELSE c.due
           absent == c.pending.at = "absent"
           d == [c EXCEPT !.held = <<>>, !.pending = NoListing, !.blank = blank,
                          !.absent = absent, !.due = due]
<1>1. /\ blank \in {"none", "silent", "alarmed", "over"} /\ due \in {"none", "now", "later"}
      /\ absent \in BOOLEAN
  BY DEF Cache
<1>2. ListingFailed(c) = ExpireGrace(d) BY DEF ListingFailed
<1> HIDE DEF blank, due, absent
<1>3. /\ d \in Cache /\ d.link = c.link /\ d.life = c.life /\ d.stat = c.stat
      /\ d.held = <<>> /\ d.pending = NoListing /\ d.due = due
  <2> DEFINE d1 == [c EXCEPT !.held = <<>>, !.pending = NoListing]
             d2 == [d1 EXCEPT !.blank = blank]
             d3 == [d2 EXCEPT !.absent = absent]
             d4 == [d3 EXCEPT !.due = due]
             Same(r) == /\ r \in Cache /\ r.link = c.link /\ r.life = c.life
                        /\ r.stat = c.stat /\ r.held = <<>> /\ r.pending = NoListing
  <2>1. <<>> \in Seq(Event) OBVIOUS
  <2>2. Same(d1) BY <2>1, Fresh DEF Cache
  <2>3. d = d4 BY DEF Cache
  <2> HIDE DEF d, d1
  <2>4. Same(d2) BY <1>1, <2>2 DEF Cache
  <2> HIDE DEF d2
  <2>5. Same(d3) BY <1>1, <2>4 DEF Cache
  <2> HIDE DEF d3
  <2>6. Same(d4) /\ d4.due = due BY <1>1, <2>5 DEF Cache
  <2>7. QED BY <2>3, <2>6
<1> HIDE DEF d
<1>4. QED BY <1>2, <1>3, ExpireGraceFields, Fresh DEF due

LEMMA AdoptReplyFields ==
  ASSUME NEW c \in Cache
  PROVE  LET r == AdoptReply(c) IN
         /\ r \in Cache /\ r.link = c.link /\ r.life = c.life /\ r.stat = c.stat
         /\ r.held = <<>> /\ r.pending.at = "none" /\ r.due = c.due
         /\ r.rows = c.pending.snap
<1> DEFINE a == NoteSuccess(c)
           sample == IF "watermark" \in c.pending.behind THEN "old" ELSE Newer
           own == IF "move" \in c.pending.behind THEN c.own ELSE NoPane
           r == [a EXCEPT !.rows = c.pending.snap, !.sample = sample, !.own = own,
                          !.pending = NoListing, !.held = <<>>]
<1>1. /\ a \in Cache /\ a.link = c.link /\ a.life = c.life /\ a.stat = c.stat
      /\ a.due = c.due /\ a.own = c.own
  BY DEF Cache, NoteSuccess
<1>2. sample \in {"none", "old", "new"} /\ own \in Panes \cup {NoPane} BY DEF Cache, Newer
<1>3. c.pending.snap \in RowsType BY DEF Cache, Listing
<1>4. AdoptReply(c) = r BY <1>1 DEF AdoptReply
<1> HIDE DEF a, sample, own
<1>5. /\ r \in Cache /\ r.link = c.link /\ r.life = c.life /\ r.stat = c.stat
      /\ r.held = <<>> /\ r.pending = NoListing /\ r.due = c.due /\ r.rows = c.pending.snap
  <2> DEFINE e == [a EXCEPT !.rows = c.pending.snap, !.sample = sample, !.own = own]
             g == [e EXCEPT !.pending = NoListing, !.held = <<>>]
  <2>1. <<>> \in Seq(Event) OBVIOUS
  <2>2. /\ e \in Cache /\ e.link = c.link /\ e.life = c.life /\ e.stat = c.stat
        /\ e.due = c.due /\ e.rows = c.pending.snap
    BY <1>1, <1>2, <1>3 DEF Cache
  <2>3. r = g BY <1>1 DEF Cache
  <2> HIDE DEF r, e
  <2>4. /\ g \in Cache /\ g.link = c.link /\ g.life = c.life /\ g.stat = c.stat
        /\ g.held = <<>> /\ g.pending = NoListing /\ g.due = c.due
        /\ g.rows = c.pending.snap
    BY <2>1, <2>2, Fresh DEF Cache
  <2>5. QED BY <2>3, <2>4
<1>6. QED BY <1>4, <1>5, Fresh

(* A reply replaces the rows, and what was held for it is applied again.   *)
LEMMA AdoptGood ==
  ASSUME NEW c, NEW f, NEW E, Good(c, f, E), c.pending.at = "ok"
  PROVE  Good(Read("held", AdoptReply(c), c.held), f, E)
<1> DEFINE h == c.held
           p == c.life.msgs
           n == Len(h)
           base == AdoptReply(c)
           owed == c.life.at = "open" /\ c.link = "Up" /\ c.due = "none"
           Mid(i) == {d \in Cache :
             /\ d.link = c.link /\ d.life = c.life /\ d.stat = c.stat
             /\ d.held = <<>> /\ d.pending.at = "none" /\ d.due = c.due
             /\ DOMAIN d.rows = DOMAIN c.pending.snap
             /\ owed => FocusAfter(p, 0) \/ FocusAfter(h, i) \/ RowsRight(d.rows, f)}
           G == [i \in 0..n |-> Mid(i)]
<1>1. c \in Cache /\ Linked(c) /\ Greeted(c) BY DEF Good
<1>2. h \in Seq(Event) /\ n \in Nat BY <1>1 DEF Cache
<1>3. owed => /\ FocusAfter(p, 0) \/ Telling(h, f)
              /\ ChangeAfter(p, 0) \/ DOMAIN c.pending.snap = E
              /\ FocusAfter(p, 0) \/ FocusAfter(h, 0) \/ RowsRight(c.pending.snap, f)
  BY DEF Good, Covered
<1>4. /\ base \in Cache /\ base.link = c.link /\ base.life = c.life /\ base.stat = c.stat
      /\ base.held = <<>> /\ base.pending.at = "none" /\ base.due = c.due
      /\ base.rows = c.pending.snap
  BY <1>1, AdoptReplyFields
<1> HIDE DEF base
<1>5. base \in Mid(0)
  <2> HIDE DEF h, p, n
  <2>1. QED BY <1>3, <1>4
<1>6. ASSUME NEW i \in 0..(n - 1), NEW d \in Mid(i)
      PROVE  Handle("held", d, h[i + 1]) \in Mid(i + 1)
  <2> DEFINE m == h[i + 1]
             r == Apply(d, m)
  <2>1. i \in Nat /\ i + 1 \in 1..n BY <1>2
  <2>2. m \in Event /\ m.kind # "Changed" BY <1>1, <1>2, <2>1 DEF Linked, HeldKinds
  <2>3. Handle("held", d, m) = r BY DEF Handle
  <2>4. /\ r \in Cache /\ Keeps(d, r) /\ r.due = d.due /\ r.held = d.held
        /\ r.rows = RowsAfter(d.rows, m)
    BY <2>2, ApplyFields
  <2>5. d.rows \in RowsType BY DEF Cache
  <2>6. DOMAIN r.rows = DOMAIN d.rows BY <2>2, <2>4, <2>5, RowsAfterFields
  <2>7. ASSUME owed, ~FocusAfter(p, 0), ~FocusAfter(h, i + 1) PROVE RowsRight(r.rows, f)
    <3>1. Agrees(m, f) BY <1>3, <2>1, <2>7 DEF Telling
    <3>2. FocusAfter(h, i) => m.kind = "Focused" BY <1>2, <2>1, <2>7 DEF FocusAfter
    <3>3. m.kind = "Focused" \/ RowsRight(d.rows, f) BY <2>7, <3>2
    <3>4. QED BY <2>2, <2>4, <2>5, <3>1, <3>3, RowsAfterFields
  <2>8. /\ r.link = d.link /\ r.life = d.life /\ r.stat = d.stat
        /\ r.pending.at = d.pending.at
    BY <2>4 DEF Keeps
  <2> HIDE DEF r, h, p
  <2>9. r \in Mid(i + 1) BY <2>4, <2>6, <2>7, <2>8
  <2>10. QED BY <2>3, <2>9 DEF h
<1> DEFINE d == Read("held", base, h)
<1>7. d \in Mid(n)
  <2>1. base \in G[0] BY <1>2, <1>5
  <2>2. \A i \in 0..(n - 1) : \A x \in G[i] : Handle("held", x, h[i + 1]) \in G[i + 1]
    <3>1. \A i \in 0..(n - 1) : i \in 0..n /\ i + 1 \in 0..n BY <1>2
    <3>2. \A i \in 0..n : G[i] = Mid(i) OBVIOUS
    <3> HIDE DEF Mid, G
    <3>3. QED BY <1>6, <3>1, <3>2
  <2>3. n \in 0..n BY <1>2
  <2>4. G[n] = Mid(n) BY <2>3
  <2> HIDE DEF G, Mid
  <2>5. Read("held", base, h) \in G[n] BY <1>2, <2>1, <2>2, ReadInduction
  <2>6. QED BY <2>4, <2>5
<1>8. /\ d \in Cache /\ d.link = c.link /\ d.life = c.life /\ d.stat = c.stat
      /\ d.held = <<>> /\ d.pending.at = "none" /\ d.due = c.due
      /\ DOMAIN d.rows = DOMAIN c.pending.snap
      /\ owed => FocusAfter(p, 0) \/ FocusAfter(h, n) \/ RowsRight(d.rows, f)
  BY <1>7
<1> HIDE DEF d, Mid, G
<1>9. ~FocusAfter(h, n) BY <1>2 DEF FocusAfter
<1>10. Linked(d) /\ Greeted(d) BY <1>1, <1>8 DEF Linked, Greeted
<1>11. owed => Covered(d, p, 0, f, E) BY <1>3, <1>8, <1>9 DEF Covered
<1>12. Good(d, f, E) BY <1>8, <1>10, <1>11 DEF Good
<1>13. QED BY <1>12 DEF d, base

LEMMA AdvanceListingGood ==
  ASSUME NEW c, NEW f, NEW E, Good(c, f, E)
  PROVE  Good(AdvanceListing(c), f, E)
<1>1. c \in Cache /\ Linked(c) /\ Greeted(c) BY DEF Good
<1>2. CASE c.pending.at = "ok"
  <2>1. AdvanceListing(c) = Read("held", AdoptReply(c), c.held) BY <1>2 DEF AdvanceListing
  <2>2. QED BY <1>2, <2>1, AdoptGood
<1>3. CASE c.pending.at \in {"server", "absent"}
  <2> DEFINE r == ListingFailed(c)
  <2>1. AdvanceListing(c) = r BY <1>3 DEF AdvanceListing
  <2>2. /\ r \in Cache /\ r.link = c.link /\ r.life = c.life /\ r.stat = c.stat
        /\ r.held = <<>> /\ r.pending.at = "none" /\ (c.link = "Up" => r.due = "later")
    BY <1>1, ListingFailedFields
  <2> HIDE DEF r
  <2>3. Linked(r) /\ Greeted(r) BY <1>1, <2>2 DEF Linked, Greeted
  <2>4. QED BY <2>1, <2>2, <2>3 DEF Good
<1>4. CASE c.pending.at \notin {"ok", "server", "absent"}
  <2>1. AdvanceListing(c) = c BY <1>4 DEF AdvanceListing
  <2>2. QED BY <2>1
<1>5. QED BY <1>2, <1>3, <1>4

LEMMA SyncStatusGood ==
  ASSUME NEW c, NEW f, NEW E, Good(c, f, E), c.link = "Up"
  PROVE  Good(SyncStatus(c), f, E)
<1> DEFINE names == DOMAIN c.rows
           stat == IF names = {} THEN NoStream ELSE Opening(names)
           r == [c EXCEPT !.stat = stat]
<1>1. c \in Cache /\ Linked(c) /\ Greeted(c) BY DEF Good
<1>2. names \in SUBSET Panes BY <1>1, RowsAre DEF Cache
<1>3. SyncStatus(c) = c \/ SyncStatus(c) = r BY DEF SyncStatus
<1> HIDE DEF names
<1>4. /\ stat \in Stream /\ stat.msgs = <<>> /\ (stat.at # "none" => stat.names # {})
      /\ stat.at \in {"none", "opening"}
  BY <1>2, Fresh
<1> HIDE DEF stat
<1>5. StreamOf(stat, StatKinds) BY <1>4 DEF StreamOf
<1>6. /\ r \in Cache /\ r.link = c.link /\ r.life = c.life /\ r.stat = stat
      /\ r.held = c.held /\ r.pending = c.pending /\ r.due = c.due /\ r.rows = c.rows
  BY <1>1, <1>4 DEF Cache
<1> HIDE DEF r
<1>7. Linked(r) /\ Greeted(r) BY <1>1, <1>4, <1>5, <1>6 DEF Linked, Greeted
<1>8. Good(r, f, E) BY <1>6, <1>7 DEF Good, Covered
<1>9. QED BY <1>3, <1>8

(* A listing that is owed is asked for, and nothing is held for it yet.    *)
LEMMA StartDueGood ==
  ASSUME NEW c, NEW f, NEW E, Good(c, f, E)
  PROVE  Good(StartDue(c), f, E)
<1>1. c \in Cache /\ Linked(c) /\ Greeted(c) BY DEF Good
<1>2. CASE c.link # "Up"
  <2> DEFINE r == ExpireGrace(c)
  <2>1. StartDue(c) = r BY <1>2 DEF StartDue
  <2>2. /\ r \in Cache /\ r.link = c.link /\ r.life = c.life /\ r.stat = c.stat
        /\ r.held = c.held /\ r.pending = c.pending /\ r.due = c.due
    BY <1>1, ExpireGraceFields
  <2> HIDE DEF r
  <2>3. Linked(r) /\ Greeted(r) BY <1>1, <2>2 DEF Linked, Greeted
  <2>4. QED BY <1>2, <2>1, <2>2, <2>3 DEF Good
<1>3. CASE c.link = "Up" /\ c.pending.at # "none"
  <2>1. StartDue(c) = c BY <1>3 DEF StartDue
  <2>2. QED BY <2>1
<1>4. CASE c.link = "Up" /\ c.pending.at = "none" /\ c.due = "now"
  <2> DEFINE l == [c.pending EXCEPT !.at = "queued"]
             r == [c EXCEPT !.due = "none", !.pending = l]
  <2>1. StartDue(c) = r BY <1>1, <1>4 DEF StartDue, Cache
  <2>2. c.pending \in Listing BY <1>1 DEF Cache
  <2>3. l \in Listing /\ l.at = "queued" BY <2>2 DEF Listing
  <2> HIDE DEF l
  <2>4. /\ r \in Cache /\ r.link = c.link /\ r.life = c.life /\ r.stat = c.stat
        /\ r.held = c.held /\ r.pending = l
    BY <1>1, <2>3 DEF Cache
  <2> HIDE DEF r
  <2>5. Linked(r) /\ Greeted(r) BY <1>1, <2>3, <2>4 DEF Linked, Greeted
  <2>6. r.held = <<>> BY <1>1, <1>4, <2>4 DEF Linked
  <2>7. Covered(r, r.life.msgs, 0, f, E) BY <2>3, <2>4, <2>6 DEF Covered, Telling
  <2>8. QED BY <2>1, <2>4, <2>5, <2>7 DEF Good
<1>5. CASE c.link = "Up" /\ c.pending.at = "none" /\ c.due # "now"
  <2>1. StartDue(c) = SyncStatus(c) BY <1>5 DEF StartDue
  <2>2. QED BY <1>5, <2>1, SyncStatusGood
<1>6. QED BY <1>2, <1>3, <1>4, <1>5

LEMMA PollGood ==
  ASSUME NEW f, NEW E, Good(cache, f, E),
         NEW n \in 0..Len(cache.life.msgs), NEW m \in 0..Len(cache.stat.msgs)
  PROVE  Good(Poll(n, m), f, E)
<1> DEFINE a == AdvanceLink(cache, n)
           b == AdvanceStatus(a, m)
<1>1. Good(a, f, E) BY AdvanceLinkGood
<1>2. cache.stat.msgs \in Seq(Message) BY DEF Good, Cache, Stream
<1>3. m \in Nat BY <1>2
<1> HIDE DEF a
<1>4. a \in Cache BY <1>1 DEF Good
<1>5. PICK k \in 0..Len(a.stat.msgs) : b = AdvanceStatus(a, k) BY <1>3, <1>4, AdvanceStatusWithin
<1>6. Good(b, f, E) BY <1>1, <1>5, AdvanceStatusGood
<1> HIDE DEF b
<1>7. Good(StartDue(AdvanceListing(b)), f, E) BY <1>6, AdvanceListingGood, StartDueGood
<1>8. QED BY <1>7 DEF Poll, a, b

-----------------------------------------------------------------------------
(* The view, in the same frame: it marks samples and its own focus move,   *)
(* and touches nothing of what the rows will come to.                      *)

LEMMA GoodAlike ==
  ASSUME NEW c, NEW f, NEW E, Good(c, f, E), NEW r \in Cache, Keeps(c, r),
         r.due \in {c.due, "now"}, r.held = c.held, r.rows = c.rows
  PROVE  Good(r, f, E)
<1>1. Linked(c) /\ Greeted(c) BY DEF Good
<1>2. Linked(r) /\ Greeted(r) BY <1>1 DEF Linked, Greeted, Keeps
<1>3. ASSUME r.due = "none", c.due = "none", Covered(c, c.life.msgs, 0, f, E)
      PROVE  Covered(r, r.life.msgs, 0, f, E)
  BY <1>3 DEF Covered, Keeps
<1>4. QED BY <1>2, <1>3 DEF Good, Keeps

LEMMA WatermarkFields ==
  ASSUME NEW c \in Cache
  PROVE  LET r == Watermark(c) IN
         r \in Cache /\ Keeps(c, r) /\ r.due = c.due /\ r.held = c.held /\ r.rows = c.rows
<1> DEFINE sample == IF c.sample = "none" THEN c.sample ELSE "old"
           d == [c EXCEPT !.sample = sample]
<1>1. sample \in {"none", "old", "new"} BY DEF Cache
<1>2. Watermark(c) = Behind(d, "watermark") BY DEF Watermark
<1> HIDE DEF sample
<1>3. d \in Cache /\ Keeps(c, d) /\ d.due = c.due /\ d.held = c.held /\ d.rows = c.rows
  BY <1>1 DEF Cache, Keeps
<1> HIDE DEF d
<1>4. QED BY <1>2, <1>3, BehindFields, KeepsTransitive

LEMMA NoteOwnFocusFields ==
  ASSUME NEW c \in Cache, NEW p
  PROVE  LET r == NoteOwnFocus(c, p) IN
         /\ r \in Cache /\ Keeps(c, r) /\ r.due \in {c.due, "now"} /\ r.held = c.held
         /\ r.rows = c.rows
<1> DEFINE d == [c EXCEPT !.own = p, !.due = "now"]
<1>1. CASE p \notin DOMAIN c.rows
  <2>1. NoteOwnFocus(c, p) = c BY <1>1 DEF NoteOwnFocus
  <2>2. QED BY <2>1 DEF Keeps
<1>2. CASE p \in DOMAIN c.rows
  <2>1. p \in Panes BY <1>2, RowsAre DEF Cache
  <2>2. NoteOwnFocus(c, p) = Behind(d, "move") BY <1>2 DEF NoteOwnFocus
  <2>3. d \in Cache /\ Keeps(c, d) /\ d.due = "now" /\ d.held = c.held /\ d.rows = c.rows
    BY <2>1 DEF Cache, Keeps
  <2> HIDE DEF d
  <2>4. QED BY <2>2, <2>3, BehindFields, KeepsTransitive
<1>3. QED BY <1>1, <1>2

LEMMA ViewGood ==
  ASSUME NEW c, NEW f, NEW E, Good(c, f, E), view \in View,
         \/ ViewSettles(c) \/ ViewAgrees(c) \/ ViewFollows(c)
         \/ ViewFocuses(c) \/ ViewRests(c)
  PROVE  Good(cache', f, E) /\ view' \in View
<1>1. c \in Cache BY DEF Good
<1>2. \A p \in DOMAIN c.rows : p \in Panes BY <1>1, RowsAre DEF Cache
<1>3. CASE ViewSettles(c)
  <2> DEFINE noted == IF view.job = "done" THEN NoteOwnFocus(c, view.target) ELSE c
             visible == view.active = view.target
             settled == view.settled \/ visible
             watching == IF visible THEN view.job = "done" ELSE view.watching
  <2>1. /\ noted \in Cache /\ Keeps(c, noted) /\ noted.due \in {c.due, "now"}
        /\ noted.held = c.held /\ noted.rows = c.rows
    BY <1>1, NoteOwnFocusFields DEF Keeps
  <2>2. cache' = Watermark(noted) \/ cache' = noted BY <1>3 DEF ViewSettles
  <2>3. view' = [view EXCEPT !.job = "none", !.target = NoPane, !.settled = settled,
                             !.watching = watching]
    BY <1>3 DEF ViewSettles, View
  <2> HIDE DEF noted
  <2>4. Good(noted, f, E) BY <2>1, GoodAlike
  <2>5. Good(Watermark(noted), f, E) BY <2>1, <2>4, WatermarkFields, GoodAlike
  <2>6. settled \in BOOLEAN /\ watching \in BOOLEAN BY DEF View
  <2> HIDE DEF settled, watching
  <2>7. view' \in View BY <2>3, <2>6 DEF View
  <2>8. QED BY <2>2, <2>4, <2>5, <2>7
<1>4. CASE ViewAgrees(c)
  <2> DEFINE behind == IF "patch" \in c.pending.behind
                       THEN c.pending.behind \cup {"watermark"}
                       ELSE c.pending.behind \ {"watermark"}
             l == [c.pending EXCEPT !.behind = behind]
             r == [c EXCEPT !.sample = "old", !.pending = l]
  <2>1. cache' = r /\ view' = view BY <1>1, <1>4 DEF ViewAgrees, Cache
  <2>2. c.pending \in Listing BY <1>1 DEF Cache
  <2>3. behind \in SUBSET {"patch", "watermark", "move"} BY <2>2 DEF Listing
  <2> HIDE DEF behind
  <2>4. l \in Listing /\ l.at = c.pending.at /\ l.snap = c.pending.snap BY <2>2, <2>3 DEF Listing
  <2> HIDE DEF l
  <2>5. r \in Cache /\ Keeps(c, r) /\ r.due = c.due /\ r.held = c.held /\ r.rows = c.rows
    BY <1>1, <2>4 DEF Cache, Keeps
  <2> HIDE DEF r
  <2>6. QED BY <2>1, <2>5, GoodAlike
<1>5. CASE ViewFollows(c)
  <2>1. PICK p \in Focused(c) \ {view.active} : view' = [view EXCEPT !.active = p]
    BY <1>5 DEF ViewFollows
  <2>2. p \in Panes BY <1>2 DEF Focused
  <2>3. view' \in View BY <2>1, <2>2 DEF View
  <2>4. cache' = Watermark(c) BY <1>5 DEF ViewFollows
  <2>5. QED BY <1>1, <2>3, <2>4, WatermarkFields, GoodAlike
<1>6. CASE ViewFocuses(c)
  <2>1. view' = [view EXCEPT !.job = "asked", !.target = view.active] /\ cache' = c
    BY <1>6 DEF ViewFocuses
  <2>2. view' \in View BY <2>1 DEF View
  <2>3. QED BY <2>1, <2>2
<1>7. CASE ViewRests(c) BY <1>7 DEF ViewRests
<1>8. QED BY <1>3, <1>4, <1>5, <1>6, <1>7

LEMMA FrameKeeps ==
  ASSUME IInv, NEW n \in 0..Len(cache.life.msgs), NEW m \in 0..Len(cache.stat.msgs),
         NEW held, Frame(n, m, held)
  PROVE  IInv'
<1>1. PICK c \in {Poll(n, m)} :
        /\ \/ ViewSettles(c) \/ ViewAgrees(c) \/ ViewFollows(c)
           \/ ViewFocuses(c) \/ ViewRests(c)
        /\ wake' = \/ Unread(c)
                   \/ c.link = "Down" /\ c.retry = "now"
                   \/ ViewMayAct(c)
        /\ srv' = srv /\ used' = used
  BY DEF Frame
<1>2. Good(c, srv.focus, Existing) BY PollGood DEF IInv
<1>3. Existing' = Existing /\ srv' = srv BY <1>1 DEF Existing
<1>4. Good(cache', srv.focus, Existing) /\ view' \in View BY <1>1, <1>2, ViewGood DEF IInv
<1>5. wake' \in BOOLEAN BY <1>1
<1>6. QED BY <1>1, <1>3, <1>4, <1>5 DEF IInv

-----------------------------------------------------------------------------
(* Between frames: the streams.                                            *)

LEMMA SaidFields ==
  ASSUME NEW s \in Stream, NEW at \in {"open", "over"}, NEW m \in Message
  PROVE  LET r == Said(s, at, m) IN
         /\ r \in Stream /\ r.at = at /\ r.names = s.names /\ r.msgs = Append(s.msgs, m)
         /\ Len(r.msgs) = Len(s.msgs) + 1 /\ r.msgs[Len(s.msgs) + 1] = m
         /\ \A j \in 1..Len(s.msgs) : r.msgs[j] = s.msgs[j]
<1> DEFINE q == s.msgs
           a == Append(q, m)
           r == [s EXCEPT !.at = at, !.msgs = a]
<1>1. q \in Seq(Message) BY DEF Stream
<1> HIDE DEF q
<1>2. /\ a \in Seq(Message) /\ Len(a) = Len(q) + 1 /\ a[Len(q) + 1] = m
      /\ \A j \in 1..Len(q) : a[j] = q[j]
  BY <1>1
<1> HIDE DEF a
<1>3. r \in Stream /\ r.at = at /\ r.names = s.names /\ r.msgs = a BY <1>2 DEF Stream
<1>4. Said(s, at, m) = r BY DEF Said, a, q
<1> HIDE DEF r
<1>5. QED BY <1>2, <1>3, <1>4 DEF a, q

(* An end, of an answer or of a bridge, comes last.                        *)
LEMMA SaysEnded ==
  ASSUME NEW s \in Stream, NEW kinds, StreamOf(s, kinds), "Ended" \in kinds,
         s.at \in {"opening", "open"}, NEW why \in {"server", "absent", "dropped"}
  PROVE  LET r == Said(s, "over", Ended(why)) IN
         r \in Stream /\ StreamOf(r, kinds) /\ r.at = "over" /\ r.names = s.names
<1> DEFINE m == Ended(why)
           r == Said(s, "over", m)
<1>1. m \in Message /\ m.kind = "Ended" BY DEF Ended, Message
<1> HIDE DEF m
<1>2. /\ r \in Stream /\ r.at = "over" /\ r.names = s.names
      /\ Len(r.msgs) = Len(s.msgs) + 1 /\ r.msgs[Len(s.msgs) + 1] = m
      /\ \A j \in 1..Len(s.msgs) : r.msgs[j] = s.msgs[j]
  BY <1>1, SaidFields
<1>3. Len(s.msgs) \in Nat /\ r.msgs \in Seq(Message) BY <1>2 DEF Stream
<1> HIDE DEF r
<1>4. ASSUME NEW j \in 1..Len(r.msgs)
      PROVE  /\ r.msgs[j].kind \in kinds
             /\ r.msgs[j].kind = "Ended" => j = Len(r.msgs)
  <2>1. CASE j = Len(s.msgs) + 1 BY <1>1, <1>2, <2>1
  <2>2. CASE j \in 1..Len(s.msgs) BY <1>2, <2>2 DEF StreamOf
  <2>3. QED BY <1>2, <1>3, <2>1, <2>2
<1>5. r.msgs # <<>> /\ r.msgs[Len(r.msgs)].kind = "Ended" BY <1>1, <1>2, <1>3
<1>6. StreamOf(r, kinds) BY <1>2, <1>4, <1>5 DEF StreamOf
<1>7. QED BY <1>2, <1>6 DEF r, m

LEMMA SaysStarted ==
  ASSUME NEW s \in Stream, NEW kinds, StreamOf(s, kinds), "Started" \in kinds,
         s.at = "opening"
  PROVE  LET r == Said(s, "open", [kind |-> "Started"]) IN
         /\ r \in Stream /\ StreamOf(r, kinds) /\ r.at = "open" /\ r.names = s.names
         /\ r.msgs # <<>> /\ r.msgs[1].kind = "Started"
         /\ \A f : Telling(r.msgs, f)
<1> DEFINE m == [kind |-> "Started"]
           r == Said(s, "open", m)
<1>1. m \in Message /\ m.kind = "Started" BY DEF Message
<1> HIDE DEF m
<1>2. s.msgs = <<>> /\ Len(s.msgs) = 0 BY DEF StreamOf
<1>3. /\ r \in Stream /\ r.at = "open" /\ r.names = s.names
      /\ Len(r.msgs) = 1 /\ r.msgs[1] = m
  <2>1. /\ r \in Stream /\ r.at = "open" /\ r.names = s.names
        /\ Len(r.msgs) = Len(s.msgs) + 1 /\ r.msgs[Len(s.msgs) + 1] = m
    BY <1>1, SaidFields
  <2> HIDE DEF r
  <2>2. Len(s.msgs) + 1 = 1 BY <1>2
  <2>3. QED BY <2>1, <2>2
<1> HIDE DEF r
<1>4. r.msgs # <<>> BY <1>3
<1>5. StreamOf(r, kinds) BY <1>1, <1>3 DEF StreamOf
<1>6. \A f : Telling(r.msgs, f) BY <1>1, <1>3 DEF Telling, Agrees
<1>7. QED BY <1>1, <1>3, <1>4, <1>5, <1>6 DEF r, m

(* What replaces a stream must keep what Good says of it.                  *)
LEMMA LifeReplaced ==
  ASSUME NEW c, NEW f, NEW E, Good(c, f, E), NEW life \in Stream, NEW g, NEW F,
         StreamOf(life, LifeKinds), life.at # "none" <=> c.life.at # "none",
         life.at = "opening" => c.link = "Connecting",
         c.link = "Connecting" /\ life.at = "open" =>
            life.msgs # <<>> /\ life.msgs[1].kind = "Started",
         life.at = "open" =>
            /\ Telling(life.msgs, g)
            /\ c.link = "Up" /\ c.due = "none" => Covered(c, life.msgs, 0, g, F)
  PROVE  Good([c EXCEPT !.life = life], g, F)
<1> DEFINE r == [c EXCEPT !.life = life]
<1>1. c \in Cache /\ Linked(c) BY DEF Good
<1>2. /\ r \in Cache /\ r.life = life /\ r.link = c.link /\ r.stat = c.stat /\ r.due = c.due
      /\ r.held = c.held /\ r.pending = c.pending /\ r.rows = c.rows
  BY <1>1 DEF Cache
<1> HIDE DEF r
<1>3. Linked(r) /\ Greeted(r) BY <1>1, <1>2 DEF Linked, Greeted
<1>4. Covered(c, life.msgs, 0, g, F) => Covered(r, life.msgs, 0, g, F) BY <1>2 DEF Covered
<1>5. Good(r, g, F) BY <1>2, <1>3, <1>4 DEF Good
<1>6. QED BY <1>5 DEF r

LEMMA StatReplaced ==
  ASSUME NEW c, NEW f, NEW E, Good(c, f, E), NEW stat \in Stream,
         StreamOf(stat, StatKinds), stat.at # "none" => c.stat.at # "none",
         stat.names = c.stat.names
  PROVE  Good([c EXCEPT !.stat = stat], f, E)
<1> DEFINE r == [c EXCEPT !.stat = stat]
<1>1. c \in Cache /\ Linked(c) /\ Greeted(c) BY DEF Good
<1>2. /\ r \in Cache /\ r.life = c.life /\ r.link = c.link /\ r.stat = stat /\ r.due = c.due
      /\ r.held = c.held /\ r.pending = c.pending /\ r.rows = c.rows
  BY <1>1 DEF Cache
<1> HIDE DEF r
<1>3. Linked(r) /\ Greeted(r) BY <1>1, <1>2 DEF Linked, Greeted
<1>4. Good(r, f, E) BY <1>2, <1>3 DEF Good, Covered
<1>5. QED BY <1>4 DEF r

LEMMA AnsweredStream ==
  ASSUME NEW s \in Stream, NEW kinds, StreamOf(s, kinds), {"Started", "Ended"} \subseteq kinds,
         s.at = "opening"
  PROVE  LET r == Answered(s) IN
         /\ r \in Stream /\ StreamOf(r, kinds) /\ r.at \in {"open", "over"} /\ r.names = s.names
         /\ r.at = "open" =>
              /\ r.msgs # <<>> /\ r.msgs[1].kind = "Started" /\ \A f : Telling(r.msgs, f)
<1>1. \/ Answered(s) = Said(s, "open", [kind |-> "Started"])
      \/ Answered(s) = Said(s, "over", Ended("server"))
  BY DEF Answered
<1>2. CASE Answered(s) = Said(s, "open", [kind |-> "Started"]) BY <1>2, SaysStarted
<1>3. CASE Answered(s) = Said(s, "over", Ended("server"))
  <2> DEFINE r == Said(s, "over", Ended("server"))
  <2>1. r \in Stream /\ StreamOf(r, kinds) /\ r.at = "over" /\ r.names = s.names BY SaysEnded
  <2> HIDE DEF r
  <2>2. QED BY <1>3, <2>1 DEF r
<1>4. QED BY <1>1, <1>2, <1>3

LEMMA BrokenStream ==
  ASSUME NEW s \in Stream, NEW kinds, StreamOf(s, kinds), "Ended" \in kinds,
         s.at \in {"opening", "open"}
  PROVE  LET r == Broken(s) IN
         r \in Stream /\ StreamOf(r, kinds) /\ r.at = "over" /\ r.names = s.names
<1>1. \E why \in {"absent", "dropped"} : Broken(s) = Said(s, "over", Ended(why))
  BY DEF Broken
<1>2. PICK why \in {"absent", "dropped"} : Broken(s) = Said(s, "over", Ended(why)) BY <1>1
<1>3. QED BY <1>2, SaysEnded

(* The steps that leave herdr and the view alone.                          *)
LEMMA StepKeeps ==
  ASSUME IInv, srv' = srv, view' = view, wake' \in BOOLEAN,
         Happens \/ used' = used, Good(cache', srv.focus, Existing)
  PROVE  IInv'
<1>1. Existing' = Existing BY DEF Existing
<1>2. used' \in 0..MaxEvents BY EndpointAssumption DEF IInv, Happens, EndpointAssumption
<1>3. QED BY <1>1, <1>2 DEF IInv

LEMMA StreamsAre ==
  ASSUME IInv
  PROVE  /\ cache \in Cache /\ Linked(cache) /\ Good(cache, srv.focus, Existing)
         /\ cache.life \in Stream /\ StreamOf(cache.life, LifeKinds)
         /\ cache.stat \in Stream /\ StreamOf(cache.stat, StatKinds)
         /\ {"Started", "Ended"} \subseteq LifeKinds /\ {"Started", "Ended"} \subseteq StatKinds
BY DEF IInv, Good, Linked, Cache, LifeKinds, StatKinds

LEMMA LifecycleAnsweredKeeps ==
  ASSUME IInv, LifecycleAnswered
  PROVE  IInv'
<1> DEFINE life == Answered(cache.life)
<1>1. /\ cache.life.at = "opening" /\ cache' = [cache EXCEPT !.life = life, !.stat = cache.stat]
      /\ wake' = TRUE /\ srv' = srv /\ view' = view /\ used' = used
  BY DEF LifecycleAnswered, Bridged
<1>2. cache' = [cache EXCEPT !.life = life] BY <1>1, StreamsAre DEF Cache
<1>3. /\ life \in Stream /\ StreamOf(life, LifeKinds) /\ life.at \in {"open", "over"}
      /\ life.at = "open" =>
            life.msgs # <<>> /\ life.msgs[1].kind = "Started" /\ Telling(life.msgs, srv.focus)
  BY <1>1, StreamsAre, AnsweredStream
<1> HIDE DEF life
<1>4. cache.link = "Connecting" BY <1>1, StreamsAre DEF Linked
<1>5. Good(cache', srv.focus, Existing)
  <2>1. Good([cache EXCEPT !.life = life], srv.focus, Existing)
    BY <1>1, <1>3, <1>4, StreamsAre, LifeReplaced
  <2>2. QED BY <1>2, <2>1
<1>6. QED BY <1>1, <1>5, StepKeeps

LEMMA StatusAnsweredKeeps ==
  ASSUME IInv, StatusAnswered
  PROVE  IInv'
<1> DEFINE stat == Answered(cache.stat)
<1>1. /\ cache.stat.at = "opening" /\ cache' = [cache EXCEPT !.life = cache.life, !.stat = stat]
      /\ wake' = TRUE /\ srv' = srv /\ view' = view /\ used' = used
  BY DEF StatusAnswered, Bridged
<1>2. cache' = [cache EXCEPT !.stat = stat] BY <1>1, StreamsAre DEF Cache
<1>3. stat \in Stream /\ StreamOf(stat, StatKinds) /\ stat.names = cache.stat.names
  BY <1>1, StreamsAre, AnsweredStream
<1> HIDE DEF stat
<1>4. Good(cache', srv.focus, Existing)
  <2>1. Good([cache EXCEPT !.stat = stat], srv.focus, Existing)
    BY <1>1, <1>3, StreamsAre, StatReplaced
  <2>2. QED BY <1>2, <2>1
<1>5. QED BY <1>1, <1>4, StepKeeps

LEMMA LifecycleBreaksKeeps ==
  ASSUME IInv, LifecycleBreaks
  PROVE  IInv'
<1> DEFINE life == Broken(cache.life)
<1>1. /\ cache.life.at \in {"opening", "open"} /\ Happens
      /\ cache' = [cache EXCEPT !.life = life, !.stat = cache.stat]
      /\ wake' = TRUE /\ srv' = srv /\ view' = view
  BY DEF LifecycleBreaks, Bridged
<1>2. cache' = [cache EXCEPT !.life = life] BY <1>1, StreamsAre DEF Cache
<1>3. life \in Stream /\ StreamOf(life, LifeKinds) /\ life.at = "over"
  BY <1>1, StreamsAre, BrokenStream
<1> HIDE DEF life
<1>4. Good(cache', srv.focus, Existing)
  <2>1. Good([cache EXCEPT !.life = life], srv.focus, Existing)
    BY <1>1, <1>3, StreamsAre, LifeReplaced
  <2>2. QED BY <1>2, <2>1
<1>5. QED BY <1>1, <1>4, StepKeeps

LEMMA StatusBreaksKeeps ==
  ASSUME IInv, StatusBreaks
  PROVE  IInv'
<1> DEFINE stat == Broken(cache.stat)
<1>1. /\ cache.stat.at \in {"opening", "open"} /\ Happens
      /\ cache' = [cache EXCEPT !.life = cache.life, !.stat = stat]
      /\ wake' = TRUE /\ srv' = srv /\ view' = view
  BY DEF StatusBreaks, Bridged
<1>2. cache' = [cache EXCEPT !.stat = stat] BY <1>1, StreamsAre DEF Cache
<1>3. stat \in Stream /\ StreamOf(stat, StatKinds) /\ stat.names = cache.stat.names
  BY <1>1, StreamsAre, BrokenStream
<1> HIDE DEF stat
<1>4. Good(cache', srv.focus, Existing)
  <2>1. Good([cache EXCEPT !.stat = stat], srv.focus, Existing)
    BY <1>1, <1>3, StreamsAre, StatReplaced
  <2>2. QED BY <1>2, <2>1
<1>5. QED BY <1>1, <1>4, StepKeeps

(* herdr goes down: Good speaks of its panes and focus, which outlive it.  *)
LEMMA ServerStopsKeeps ==
  ASSUME IInv, ServerStops
  PROVE  IInv'
<1> DEFINE life == Closed(cache.life)
           stat == Closed(cache.stat)
           mid == [cache EXCEPT !.life = life]
<1>1. /\ Happens /\ cache' = [cache EXCEPT !.life = life, !.stat = stat]
      /\ wake' = TRUE /\ srv' = [srv EXCEPT !.up = FALSE] /\ view' = view
  BY DEF ServerStops
<1>2. Good(mid, srv.focus, Existing)
  <2>1. CASE cache.life.at = "open"
    <3>1. life = Broken(cache.life) BY <2>1 DEF Closed
    <3>2. life \in Stream /\ StreamOf(life, LifeKinds) /\ life.at = "over"
      BY <2>1, <3>1, StreamsAre, BrokenStream
    <3> HIDE DEF life
    <3>3. QED BY <2>1, <3>2, StreamsAre, LifeReplaced
  <2>2. CASE cache.life.at # "open"
    <3>1. life = cache.life BY <2>2 DEF Closed
    <3>2. mid = cache BY <3>1, StreamsAre DEF Cache
    <3>3. QED BY <3>2, StreamsAre
  <2>3. QED BY <2>1, <2>2
<1>3. mid.stat = cache.stat /\ mid \in Cache BY <1>2, StreamsAre DEF Good, Cache
<1>4. cache' = [mid EXCEPT !.stat = stat] BY <1>1, StreamsAre DEF Cache
<1> HIDE DEF mid
<1>5. Good(cache', srv.focus, Existing)
  <2>1. CASE cache.stat.at = "open"
    <3>1. stat = Broken(cache.stat) BY <2>1 DEF Closed
    <3>2. stat \in Stream /\ StreamOf(stat, StatKinds) /\ stat.names = cache.stat.names
      BY <2>1, <3>1, StreamsAre, BrokenStream
    <3> HIDE DEF stat
    <3>3. QED BY <1>2, <1>3, <1>4, <2>1, <3>2, StatReplaced
  <2>2. CASE cache.stat.at # "open"
    <3>1. stat = mid.stat BY <1>3, <2>2 DEF Closed
    <3>2. cache' = mid BY <1>3, <1>4, <3>1 DEF Cache
    <3>3. QED BY <1>2, <3>2
  <2>3. QED BY <2>1, <2>2
<1>6. /\ srv' \in Server /\ srv'.focus = srv.focus /\ srv'.pane = srv.pane
  BY <1>1 DEF IInv, Server
<1>7. Existing' = Existing BY <1>6 DEF Existing
<1>8. used' \in 0..MaxEvents BY <1>1, EndpointAssumption DEF IInv, Happens, EndpointAssumption
<1> HIDE DEF life, stat
<1>9. QED BY <1>1, <1>5, <1>6, <1>7, <1>8 DEF IInv

-----------------------------------------------------------------------------
(* Between frames: deadlines, the listing job, the user.                   *)

LEMMA DeadlineKeeps ==
  ASSUME IInv, Deadline
  PROVE  IInv'
<1> DEFINE a == [cache EXCEPT !.retry = "now"]
           b == [cache EXCEPT !.due = "now"]
           d == [cache EXCEPT !.blank = "over"]
<1>1. /\ cache' \in {a, b, d} /\ wake' \in BOOLEAN /\ srv' = srv /\ view' = view /\ used' = used
  BY DEF Deadline, RetryElapses, ListingRetryElapses, GraceElapses, IInv
<1>2. \A r \in {a, b, d} :
        /\ r \in Cache /\ Keeps(cache, r) /\ r.due \in {cache.due, "now"}
        /\ r.held = cache.held /\ r.rows = cache.rows
  BY StreamsAre DEF Cache, Keeps
<1> HIDE DEF a, b, d
<1>3. Good(cache', srv.focus, Existing) BY <1>1, <1>2, StreamsAre, GoodAlike
<1>4. QED BY <1>1, <1>3, StepKeeps

LEMMA PendingReplaced ==
  ASSUME NEW c, NEW f, NEW E, Good(c, f, E), NEW l \in Listing,
         c.pending.at # "none", l.at # "none",
         l.at = "ok" => DOMAIN l.snap = E /\ RowsRight(l.snap, f)
  PROVE  Good([c EXCEPT !.pending = l], f, E)
<1> DEFINE r == [c EXCEPT !.pending = l]
<1>1. c \in Cache /\ Linked(c) /\ Greeted(c) BY DEF Good
<1>2. /\ r \in Cache /\ r.life = c.life /\ r.link = c.link /\ r.stat = c.stat /\ r.due = c.due
      /\ r.held = c.held /\ r.pending = l /\ r.rows = c.rows
  BY <1>1 DEF Cache
<1> HIDE DEF r
<1>3. Linked(r) /\ Greeted(r) BY <1>1, <1>2 DEF Linked, Greeted
<1>4. \A q : Covered(c, q, 0, f, E) => Covered(r, q, 0, f, E) BY <1>2 DEF Covered
<1>5. Good(r, f, E) BY <1>2, <1>3, <1>4 DEF Good
<1>6. QED BY <1>5 DEF r

(* What herdr answers is what it shows.                                    *)
LEMMA ListedFields ==
  ASSUME IInv
  PROVE  Listed \in RowsType /\ DOMAIN Listed = Existing /\ RowsRight(Listed, srv.focus)
<1>1. \A p \in Existing : p \in Panes /\ srv.pane[p] \in Statuses BY DEF IInv, Server, Existing
<1>2. \A p \in Existing : Row(p) \in RowType /\ Row(p).focused = (srv.focus = p)
  BY <1>1 DEF Row, RowType
<1>3. /\ DOMAIN Listed = Existing /\ Listed = [p \in DOMAIN Listed |-> Listed[p]]
      /\ \A p \in Existing : Listed[p] = Row(p)
  BY DEF Listed
<1>4. Listed \in RowsType BY <1>1, <1>2, <1>3, RowsAre
<1>5. QED BY <1>2, <1>3, <1>4 DEF RowsRight

LEMMA ListingKeeps ==
  ASSUME IInv, ListingStarts \/ ListingAnswered \/ ListingBreaks
  PROVE  IInv'
<1>1. cache.pending \in Listing BY StreamsAre DEF Cache
<1>2. ASSUME NEW l \in Listing, l.at # "none", cache' = [cache EXCEPT !.pending = l],
             cache.pending.at # "none",
             l.at = "ok" => DOMAIN l.snap = Existing /\ RowsRight(l.snap, srv.focus)
      PROVE  Good(cache', srv.focus, Existing)
  <2>1. Good([cache EXCEPT !.pending = l], srv.focus, Existing)
    BY <1>2, StreamsAre, PendingReplaced
  <2>2. QED BY <1>2, <2>1
<1>3. CASE ListingStarts
  <2> DEFINE l == [cache.pending EXCEPT !.at = "asked"]
  <2>1. l \in Listing /\ l.at = "asked" BY <1>1 DEF Listing
  <2>2. cache' = [cache EXCEPT !.pending = l] /\ cache.pending.at = "queued"
    BY <1>3, StreamsAre DEF ListingStarts, Cache
  <2> HIDE DEF l
  <2>3. Good(cache', srv.focus, Existing) BY <1>2, <2>1, <2>2
  <2>4. QED BY <1>3, <2>3, StepKeeps DEF ListingStarts, IInv
<1>4. CASE ListingAnswered
  <2> DEFINE at == IF srv.up THEN "ok" ELSE "server"
             snap == IF srv.up THEN Listed ELSE cache.pending.snap
             l == [cache.pending EXCEPT !.at = at, !.snap = snap]
  <2>1. snap \in RowsType BY <1>1, ListedFields DEF Listing
  <2>2. at \in {"ok", "server"} /\ (at = "ok" => snap = Listed) OBVIOUS
  <2>3. cache' = [cache EXCEPT !.pending = l] /\ cache.pending.at = "asked"
    BY <1>4, StreamsAre DEF ListingAnswered, Cache
  <2> HIDE DEF at, snap
  <2>4. l \in Listing /\ l.at = at /\ l.snap = snap BY <1>1, <2>1, <2>2 DEF Listing
  <2> HIDE DEF l
  <2>5. Good(cache', srv.focus, Existing) BY <1>2, <2>2, <2>3, <2>4, ListedFields
  <2>6. QED BY <1>4, <2>5, StepKeeps DEF ListingAnswered
<1>5. CASE ListingBreaks
  <2> DEFINE l == [cache.pending EXCEPT !.at = "absent"]
  <2>1. l \in Listing /\ l.at = "absent" BY <1>1 DEF Listing
  <2>2. cache' = [cache EXCEPT !.pending = l] /\ cache.pending.at = "asked"
    BY <1>5, StreamsAre DEF ListingBreaks, Cache
  <2> HIDE DEF l
  <2>3. Good(cache', srv.focus, Existing) BY <1>2, <2>1, <2>2
  <2>4. QED BY <1>5, <2>3, StepKeeps DEF ListingBreaks
<1>6. QED BY <1>3, <1>4, <1>5

LEMMA UserPicksKeeps ==
  ASSUME IInv, NEW p \in Panes, UserPicks(p)
  PROVE  IInv'
<1>1. /\ view' \in View /\ srv' = srv /\ cache' = cache /\ wake' = TRUE
  BY DEF UserPicks, IInv, View
<1>2. Existing' = Existing BY <1>1 DEF Existing
<1>3. used' \in 0..MaxEvents
  BY EndpointAssumption DEF UserPicks, IInv, Happens, EndpointAssumption
<1>4. QED BY <1>1, <1>2, <1>3 DEF IInv

LEMMA FocusFailsKeeps ==
  ASSUME IInv, FocusFails
  PROVE  IInv'
<1>1. /\ view' \in View /\ srv' = srv /\ cache' = cache /\ wake' = TRUE /\ used' = used
  BY DEF FocusFails, IInv, View
<1>2. Existing' = Existing BY <1>1 DEF Existing
<1>3. QED BY <1>1, <1>2 DEF IInv

LEMMA ServerStartsKeeps ==
  ASSUME IInv, ServerStarts
  PROVE  IInv'
<1>1. srv' = [srv EXCEPT !.up = TRUE] /\ UNCHANGED <<cache, view, wake, used>>
  BY DEF ServerStarts
<1>2. srv' \in Server /\ srv'.focus = srv.focus /\ srv'.pane = srv.pane BY <1>1 DEF IInv, Server
<1>3. Existing' = Existing BY <1>2 DEF Existing
<1>4. QED BY <1>1, <1>2, <1>3 DEF IInv

-----------------------------------------------------------------------------
(* Between frames: herdr changes and tells its subscribers.                *)

LEMMA TellsMore ==
  ASSUME NEW s \in Stream, NEW kinds, StreamOf(s, kinds), s.at = "open", NEW m \in Event,
         m.kind \in kinds
  PROVE  LET r == Tell(s, <<m>>) IN
         /\ r \in Stream /\ StreamOf(r, kinds) /\ r.at = "open" /\ r.names = s.names
         /\ r.msgs = Append(s.msgs, m)
         /\ s.msgs # <<>> => r.msgs # <<>> /\ r.msgs[1] = s.msgs[1]
<1> DEFINE q == s.msgs
           r == Said(s, "open", m)
<1>1. q \in Seq(Message) /\ Len(q) \in Nat BY DEF Stream
<1>2. m \in Message /\ m.kind # "Ended" BY EventFields
<1>3. Tell(s, <<m>>) = r
  <2>1. q \o <<m>> = Append(q, m) BY <1>1, <1>2
  <2>2. Tell(s, <<m>>) = [s EXCEPT !.msgs = q \o <<m>>] BY DEF Tell
  <2>3. r = [s EXCEPT !.at = "open", !.msgs = Append(q, m)] BY DEF Said
  <2> DEFINE a == Append(q, m)
  <2> HIDE DEF r, a, q
  <2>4. [s EXCEPT !.at = "open", !.msgs = a] = [s EXCEPT !.msgs = a] BY DEF Stream
  <2>5. QED BY <2>1, <2>2, <2>3, <2>4 DEF a
<1>4. /\ r \in Stream /\ r.at = "open" /\ r.names = s.names /\ r.msgs = Append(q, m)
      /\ Len(r.msgs) = Len(q) + 1 /\ r.msgs[Len(q) + 1] = m
      /\ \A j \in 1..Len(q) : r.msgs[j] = q[j]
  BY <1>2, SaidFields
<1> HIDE DEF r
<1>5. ASSUME NEW j \in 1..Len(r.msgs)
      PROVE  r.msgs[j].kind \in kinds /\ r.msgs[j].kind # "Ended"
  <2>1. CASE j = Len(q) + 1 BY <1>2, <1>4, <2>1
  <2>2. CASE j \in 1..Len(q) BY <1>4, <2>2 DEF StreamOf
  <2>3. QED BY <1>1, <1>4, <2>1, <2>2
<1>6. StreamOf(r, kinds) BY <1>4, <1>5 DEF StreamOf
<1>7. ASSUME q # <<>> PROVE r.msgs # <<>> /\ r.msgs[1] = q[1]
  <2>1. 1 \in 1..Len(q) BY <1>1, <1>7
  <2>2. r.msgs \in Seq(Message) /\ Len(r.msgs) # 0 BY <1>1, <1>4, <2>1 DEF Stream
  <2>3. QED BY <1>4, <2>1, <2>2
<1>8. QED BY <1>3, <1>4, <1>6, <1>7

(* The lifecycle stream is told of every change of focus and of every pane *)
(* that comes or goes: g and F are herdr's focus and panes after it.       *)
LEMMA TellLife ==
  ASSUME NEW c, NEW f, NEW E, Good(c, f, E), NEW m \in Event, NEW g, NEW F,
         m.kind \in {"Changed", "Focused", "Updated"}, Agrees(m, g),
         m.kind = "Focused" \/ g = f, m.kind = "Changed" \/ F = E
  PROVE  Good([c EXCEPT !.life = Tell(c.life, <<m>>)], g, F)
<1> DEFINE q == c.life.msgs
           life == Tell(c.life, <<m>>)
<1>1. c \in Cache /\ Linked(c) /\ Greeted(c) /\ StreamOf(c.life, LifeKinds) BY DEF Good
<1>2. c.life \in Stream BY <1>1 DEF Cache
<1>3. q \in Seq(Message) /\ m \in Message BY <1>2, EventFields DEF Stream
<1>4. CASE c.life.at # "open"
  <2>1. life = c.life BY <1>4 DEF Tell
  <2> HIDE DEF life
  <2>2. life \in Stream /\ StreamOf(life, LifeKinds) BY <1>1, <1>2, <2>1
  <2>3. life.at = "opening" => c.link = "Connecting" BY <1>1, <2>1 DEF Linked
  <2>4. Good([c EXCEPT !.life = life], g, F) BY <1>4, <2>1, <2>2, <2>3, LifeReplaced
  <2>5. QED BY <2>4 DEF life
<1>5. CASE c.life.at = "open"
  <2>1. m.kind \in LifeKinds BY DEF LifeKinds
  <2>2. /\ life \in Stream /\ StreamOf(life, LifeKinds) /\ life.at = "open"
        /\ life.msgs = Append(q, m)
        /\ q # <<>> => life.msgs # <<>> /\ life.msgs[1] = q[1]
    BY <1>1, <1>2, <1>5, <2>1, TellsMore
  <2> HIDE DEF life
  <2>3. Telling(q, f) BY <1>5 DEF Good
  <2>4. /\ FocusAfter(life.msgs, 0) <=> FocusAfter(q, 0) \/ m.kind = "Focused"
        /\ ChangeAfter(life.msgs, 0) <=> ChangeAfter(q, 0) \/ m.kind = "Changed"
        /\ Telling(life.msgs, g)
    <3> HIDE DEF q
    <3>1. m.kind = "Focused" \/ Telling(q, g) BY <2>3
    <3>2. QED BY <1>3, <2>2, <3>1, AppendSays
  <2>5. Covered(c, q, 0, f, E) => Covered(c, life.msgs, 0, g, F)
    <3> HIDE DEF q
    <3>1. QED BY <2>4 DEF Covered
  <2>6. c.link = "Up" /\ c.due = "none" => Covered(c, life.msgs, 0, g, F)
    BY <1>5, <2>5 DEF Good
  <2>7. c.link = "Connecting" => life.msgs # <<>> /\ life.msgs[1].kind = "Started"
    BY <1>1, <1>5, <2>2 DEF Greeted
  <2>8. Good([c EXCEPT !.life = life], g, F)
    BY <1>5, <2>2, <2>4, <2>6, <2>7, LifeReplaced
  <2>9. QED BY <2>8 DEF life
<1>6. QED BY <1>4, <1>5

LEMMA TellTwice ==
  ASSUME NEW s \in Stream, NEW a \in Event, NEW b \in Event
  PROVE  Tell(s, <<a, b>>) = Tell(Tell(s, <<a>>), <<b>>)
<1> DEFINE q == s.msgs
           t == [s EXCEPT !.msgs = q \o <<a>>]
<1>1. q \in Seq(Message) /\ a \in Message /\ b \in Message BY EventFields DEF Stream
<1>2. CASE s.at # "open" BY <1>2 DEF Tell
<1>3. CASE s.at = "open"
  <2>1. Tell(s, <<a>>) = t BY <1>3 DEF Tell
  <2>2. q \o <<a>> \in Seq(Message) BY <1>1
  <2>3. (q \o <<a>>) \o <<b>> = q \o <<a, b>>
    <3>1. <<a>> \in Seq(Message) /\ <<b>> \in Seq(Message) BY <1>1
    <3>2. (q \o <<a>>) \o <<b>> = q \o (<<a>> \o <<b>>) BY <1>1, <3>1, ConcatAssociative
    <3>3. <<a>> \o <<b>> = <<a, b>>
      <4> DEFINE l == <<a>> \o <<b>>
                 r == <<a, b>>
      <4>1. l \in Seq(Message) /\ Len(l) = 2 /\ l[1] = a /\ l[2] = b
        BY <3>1, ConcatProperties
      <4>2. r \in Seq(Message) /\ Len(r) = 2 /\ r[1] = a /\ r[2] = b BY <1>1
      <4> HIDE DEF l, r
      <4>3. l = r BY <4>1, <4>2, SeqEqual
      <4>4. QED BY <4>3 DEF l, r
    <3>4. QED BY <3>2, <3>3
  <2>4. t.at = "open" /\ t.msgs = q \o <<a>> BY <1>3 DEF Stream
  <2>5. Tell(t, <<b>>) = [t EXCEPT !.msgs = (q \o <<a>>) \o <<b>>] BY <2>4 DEF Tell
  <2> DEFINE x == q \o <<a>>
             y == q \o <<a, b>>
  <2> HIDE DEF q, x, y
  <2>6. [[s EXCEPT !.msgs = x] EXCEPT !.msgs = y] = [s EXCEPT !.msgs = y] BY DEF Stream
  <2>7. Tell(s, <<a, b>>) = [s EXCEPT !.msgs = y] BY <1>3 DEF Tell, y, q
  <2>8. QED BY <2>1, <2>3, <2>5, <2>6, <2>7 DEF x, y
<1>4. QED BY <1>2, <1>3

LEMMA EventsAre ==
  /\ Changed \in Event /\ Changed.kind = "Changed"
  /\ \A p \in Panes : FocusedMsg(p) \in Event /\ FocusedMsg(p).kind = "Focused"
  /\ \A p \in Panes : FocusedMsg(p).pane = p
BY DEF Changed, FocusedMsg, Event

LEMMA ServerIs ==
  ASSUME IInv
  PROVE  /\ srv \in Server /\ srv.pane \in [Panes -> Statuses \cup {"gone"}]
         /\ srv.focus \in Existing /\ Existing \subseteq Panes
         /\ "gone" \notin Statuses /\ "idle" \in Statuses
BY DEF IInv, Server, Existing, Statuses

LEMMA HerdrKeeps ==
  ASSUME IInv, srv' \in Server, srv'.focus \in Existing', view' \in View, wake' = TRUE,
         Happens \/ used' = used, Good(cache', srv'.focus, Existing')
  PROVE  IInv'
<1>1. used' \in 0..MaxEvents BY EndpointAssumption DEF IInv, Happens, EndpointAssumption
<1>2. QED BY <1>1 DEF IInv

LEMMA StatusChangesKeeps ==
  ASSUME IInv, NEW p \in Panes, StatusChanges(p)
  PROVE  IInv'
<1>1. PICK s \in Statuses \ {srv.pane[p]} :
        /\ srv' = [srv EXCEPT !.pane[p] = s]
        /\ cache' = IF p \notin cache.stat.names THEN cache
                    ELSE [cache EXCEPT !.stat = Tell(@,
                            <<[kind |-> "Status", pane |-> p, status |-> s]>>)]
  BY DEF StatusChanges
<1>2. /\ Happens /\ p \in Existing /\ wake' = TRUE /\ view' = view
  BY DEF StatusChanges, Changes
<1> DEFINE pane == [srv.pane EXCEPT ![p] = s]
           m == [kind |-> "Status", pane |-> p, status |-> s]
           stat == Tell(cache.stat, <<m>>)
<1>3. pane \in [Panes -> Statuses \cup {"gone"}] BY ServerIs
<1>4. \A x \in Panes : pane[x] = IF x = p THEN s ELSE srv.pane[x] BY ServerIs
<1>5. srv' = [srv EXCEPT !.pane = pane] BY <1>1, ServerIs DEF Server
<1> HIDE DEF pane
<1>6. srv' \in Server /\ srv'.focus = srv.focus /\ srv'.pane = pane
  BY <1>3, <1>5, ServerIs DEF Server
<1>7. Existing' = Existing BY <1>2, <1>4, <1>6, ServerIs DEF Existing
<1>8. m \in Event /\ m.kind = "Status" BY DEF Event
<1>9. cache' = cache \/ cache' = [cache EXCEPT !.stat = stat] BY <1>1
<1>10. CASE cache' = cache BY <1>2, <1>6, <1>7, <1>10, StreamsAre, ServerIs, HerdrKeeps DEF IInv
<1>11. CASE cache' = [cache EXCEPT !.stat = stat]
  <2> HIDE DEF m
  <2>1. CASE cache.stat.at = "open"
    <3>1. m.kind \in StatKinds BY <1>8 DEF StatKinds
    <3>2. stat \in Stream /\ StreamOf(stat, StatKinds) /\ stat.names = cache.stat.names
      BY <1>8, <2>1, <3>1, StreamsAre, TellsMore
    <3> HIDE DEF stat
    <3>3. Good([cache EXCEPT !.stat = stat], srv.focus, Existing)
      BY <2>1, <3>2, StreamsAre, StatReplaced
    <3>4. Good(cache', srv.focus, Existing) BY <1>11, <3>3
    <3>5. QED BY <1>2, <1>6, <1>7, <3>4, ServerIs, HerdrKeeps DEF IInv
  <2>2. CASE cache.stat.at # "open"
    <3>1. stat = cache.stat BY <2>2 DEF Tell
    <3>2. cache' = cache BY <1>11, <3>1, StreamsAre DEF Cache
    <3>3. QED BY <1>10, <3>2
  <2>3. QED BY <2>1, <2>2
<1>12. QED BY <1>9, <1>10, <1>11

LEMMA FocusChangesKeeps ==
  ASSUME IInv, NEW p \in Panes, FocusChanges(p)
  PROVE  IInv'
<1> DEFINE m == FocusedMsg(p)
<1>1. /\ Happens /\ p \in Existing /\ wake' = TRUE /\ view' = view
      /\ srv' = [srv EXCEPT !.focus = p]
      /\ cache' = [cache EXCEPT !.life = Tell(cache.life, <<m>>)]
  BY DEF FocusChanges, Changes
<1>2. srv' \in Server /\ srv'.focus = p /\ srv'.pane = srv.pane BY <1>1, ServerIs DEF Server
<1>3. Existing' = Existing BY <1>2 DEF Existing
<1>4. m \in Event /\ m.kind = "Focused" /\ m.pane = p BY EventsAre
<1> HIDE DEF m
<1>5. Agrees(m, p) BY <1>4 DEF Agrees
<1>6. Good([cache EXCEPT !.life = Tell(cache.life, <<m>>)], p, Existing)
  BY <1>4, <1>5, StreamsAre, TellLife
<1>7. Good(cache', srv'.focus, Existing') BY <1>1, <1>2, <1>3, <1>6
<1>8. QED BY <1>1, <1>2, <1>3, <1>7, HerdrKeeps DEF IInv

LEMMA TitleChangesKeeps ==
  ASSUME IInv, NEW p \in Panes, TitleChanges(p)
  PROVE  IInv'
<1> DEFINE m == [kind |-> "Updated", pane |-> p, row |-> Row(p)]
<1>1. /\ Happens /\ p \in Existing /\ wake' = TRUE /\ view' = view /\ srv' = srv
      /\ cache' = [cache EXCEPT !.life = Tell(cache.life, <<m>>)]
  BY DEF TitleChanges, Changes
<1>2. srv.pane[p] \in Statuses BY <1>1, ServerIs DEF Existing
<1>3. Row(p) \in RowType /\ Row(p).focused = (srv.focus = p) BY <1>2 DEF Row, RowType
<1>4. m \in Event /\ m.kind = "Updated" /\ m.pane = p /\ m.row = Row(p) BY <1>3 DEF Event
<1> HIDE DEF m
<1>5. Agrees(m, srv.focus) BY <1>3, <1>4 DEF Agrees
<1>6. Good([cache EXCEPT !.life = Tell(cache.life, <<m>>)], srv.focus, Existing)
  BY <1>4, <1>5, StreamsAre, TellLife
<1>7. Good(cache', srv.focus, Existing) BY <1>1, <1>6
<1>8. QED BY <1>1, <1>7, StepKeeps

LEMMA PaneOpensKeeps ==
  ASSUME IInv, NEW p \in Panes, PaneOpens(p)
  PROVE  IInv'
<1> DEFINE pane == [srv.pane EXCEPT ![p] = "idle"]
<1>1. /\ Happens /\ wake' = TRUE /\ view' = view /\ srv' = [srv EXCEPT !.pane[p] = "idle"]
      /\ cache' = [cache EXCEPT !.life = Tell(cache.life, <<Changed>>)]
  BY DEF PaneOpens, Changes
<1>2. pane \in [Panes -> Statuses \cup {"gone"}] BY ServerIs
<1>3. \A x \in Panes : pane[x] = IF x = p THEN "idle" ELSE srv.pane[x] BY ServerIs
<1>4. srv' = [srv EXCEPT !.pane = pane] BY <1>1, ServerIs DEF Server
<1> HIDE DEF pane
<1>5. srv' \in Server /\ srv'.focus = srv.focus /\ srv'.pane = pane
  BY <1>2, <1>4, ServerIs DEF Server
<1>6. srv'.focus \in Existing' BY <1>3, <1>5, ServerIs DEF Existing
<1>7. Agrees(Changed, srv.focus) BY EventsAre DEF Agrees
<1>8. Good([cache EXCEPT !.life = Tell(cache.life, <<Changed>>)], srv.focus, Existing')
  BY <1>7, EventsAre, StreamsAre, TellLife
<1>9. Good(cache', srv'.focus, Existing') BY <1>1, <1>5, <1>8
<1>10. QED BY <1>1, <1>5, <1>6, <1>9, HerdrKeeps DEF IInv

(* A pane that closes may leave herdr on another: then both are told.      *)
LEMMA PaneClosesKeeps ==
  ASSUME IInv, NEW p \in Panes, PaneCloses(p)
  PROVE  IInv'
<1> DEFINE pane == [srv.pane EXCEPT ![p] = "gone"]
<1>1. PICK q \in Existing \ {p} :
        /\ srv' = [srv EXCEPT !.pane[p] = "gone", !.focus = IF @ = p THEN q ELSE @]
        /\ cache' = [cache EXCEPT !.life = Tell(@,
                IF srv.focus = p THEN <<Changed, FocusedMsg(q)>> ELSE <<Changed>>)]
  BY DEF PaneCloses
<1>2. Happens /\ wake' = TRUE /\ view' = view BY DEF PaneCloses, Changes
<1> DEFINE focus == IF srv.focus = p THEN q ELSE srv.focus
           mid == [cache EXCEPT !.life = Tell(cache.life, <<Changed>>)]
           m == FocusedMsg(q)
<1>3. pane \in [Panes -> Statuses \cup {"gone"}] BY ServerIs
<1>4. \A x \in Panes : pane[x] = IF x = p THEN "gone" ELSE srv.pane[x] BY ServerIs
<1>5. srv' = [srv EXCEPT !.pane = pane, !.focus = focus] BY <1>1, ServerIs DEF Server
<1>6. focus \in Panes /\ focus # p /\ focus \in Existing BY <1>1, ServerIs
<1> HIDE DEF pane, focus
<1>7. srv' \in Server /\ srv'.focus = focus /\ srv'.pane = pane
  BY <1>3, <1>5, <1>6, ServerIs DEF Server
<1>8. focus \in Existing' BY <1>4, <1>6, <1>7 DEF Existing
<1>9. Agrees(Changed, srv.focus) BY EventsAre DEF Agrees
<1>10. Good(mid, srv.focus, Existing') BY <1>9, EventsAre, StreamsAre, TellLife
<1>11. CASE srv.focus # p
  <2>1. focus = srv.focus BY <1>11 DEF focus
  <2>2. cache' = mid BY <1>1, <1>11
  <2>3. Good(cache', srv'.focus, Existing') BY <1>7, <1>10, <2>1, <2>2
  <2>4. QED BY <1>2, <1>7, <1>8, <2>3, HerdrKeeps DEF IInv
<1>12. CASE srv.focus = p
  <2>1. focus = q BY <1>12 DEF focus
  <2>2. mid.life = Tell(cache.life, <<Changed>>) BY StreamsAre DEF Cache
  <2>3. m \in Event /\ m.kind = "Focused" /\ m.pane = q BY <1>1, ServerIs, EventsAre
  <2>4. Tell(cache.life, <<Changed, m>>) = Tell(mid.life, <<m>>)
    BY <2>2, <2>3, EventsAre, StreamsAre, TellTwice
  <2> HIDE DEF m
  <2>5. cache' = [mid EXCEPT !.life = Tell(mid.life, <<m>>)]
    <3>1. cache' = [cache EXCEPT !.life = Tell(mid.life, <<m>>)] BY <1>1, <1>12, <2>4 DEF m
    <3> DEFINE x == Tell(cache.life, <<Changed>>)
               y == Tell(mid.life, <<m>>)
    <3> HIDE DEF x, y
    <3>2. [[cache EXCEPT !.life = x] EXCEPT !.life = y] = [cache EXCEPT !.life = y]
      BY StreamsAre DEF Cache
    <3>3. QED BY <3>1, <3>2 DEF x, y
  <2> HIDE DEF mid
  <2>6. Agrees(m, q) BY <2>3 DEF Agrees
  <2>7. Good([mid EXCEPT !.life = Tell(mid.life, <<m>>)], q, Existing')
    BY <1>10, <2>3, <2>6, TellLife
  <2>8. Good(cache', srv'.focus, Existing') BY <1>7, <2>1, <2>5, <2>7
  <2>9. QED BY <1>2, <1>7, <1>8, <2>8, HerdrKeeps DEF IInv
<1>13. QED BY <1>11, <1>12

LEMMA FocusReachesKeeps ==
  ASSUME IInv, FocusReaches
  PROVE  IInv'
<1> DEFINE p == view.target
           m == FocusedMsg(p)
<1>1. /\ wake' = TRUE /\ used' = used /\ view' = [view EXCEPT !.job = "done"]
      /\ srv' = [srv EXCEPT !.focus = p] /\ p \in Existing
      /\ cache' = IF srv.focus = p THEN cache
                  ELSE [cache EXCEPT !.life = Tell(cache.life, <<m>>)]
  BY DEF FocusReaches
<1>2. srv' \in Server /\ srv'.focus = p /\ srv'.pane = srv.pane BY <1>1, ServerIs DEF Server
<1>3. Existing' = Existing BY <1>2 DEF Existing
<1>4. view' \in View BY <1>1 DEF IInv, View
<1>5. m \in Event /\ m.kind = "Focused" /\ m.pane = p BY <1>1, ServerIs, EventsAre
<1> HIDE DEF m
<1>6. CASE srv.focus = p BY <1>1, <1>2, <1>3, <1>4, <1>6, StreamsAre, HerdrKeeps
<1>7. CASE srv.focus # p
  <2>1. Agrees(m, p) BY <1>5 DEF Agrees
  <2>2. Good([cache EXCEPT !.life = Tell(cache.life, <<m>>)], p, Existing)
    BY <1>5, <2>1, StreamsAre, TellLife
  <2>3. Good(cache', srv'.focus, Existing') BY <1>1, <1>2, <1>3, <1>7, <2>2
  <2>4. QED BY <1>1, <1>2, <1>3, <1>4, <2>3, HerdrKeeps
<1>8. QED BY <1>6, <1>7

-----------------------------------------------------------------------------
(* The theorems.                                                           *)

LEMMA InitGood ==
  ASSUME Init
  PROVE  IInv
<1>1. /\ srv \in [up : BOOLEAN, pane : {[p \in Panes |-> "idle"]}, focus : Panes]
      /\ wake = TRUE /\ used = 0
      /\ view = [active |-> CHOOSE p \in Panes : TRUE, settled |-> FALSE,
                 watching |-> FALSE, job |-> "none", target |-> NoPane]
  BY DEF Init
<1>2. srv \in Server /\ srv.focus \in Existing
  <2>1. srv.up \in BOOLEAN /\ srv.focus \in Panes /\ srv.pane = [p \in Panes |-> "idle"] BY <1>1
  <2>2. srv.pane \in [Panes -> Statuses \cup {"gone"}] /\ srv.pane[srv.focus] # "gone"
    BY <2>1 DEF Statuses
  <2>3. QED BY <1>1, <2>1, <2>2 DEF Server, Existing
<1>3. view \in View BY <1>1, EndpointAssumption DEF View, EndpointAssumption
<1>4. /\ cache \in Cache /\ cache.link = "Down" /\ cache.life = NoStream
      /\ cache.stat = NoStream /\ cache.held = <<>>
  BY Fresh DEF Init, Cache
<1>5. StreamOf(NoStream, LifeKinds) /\ StreamOf(NoStream, StatKinds) BY Fresh DEF StreamOf
<1>6. Linked(cache) /\ Greeted(cache) BY <1>4, <1>5, Fresh DEF Linked, Greeted
<1>7. Good(cache, srv.focus, Existing) BY <1>4, <1>5, <1>6, Fresh DEF Good
<1>8. used \in 0..MaxEvents BY <1>1, EndpointAssumption DEF EndpointAssumption
<1>9. QED BY <1>1, <1>2, <1>3, <1>7, <1>8 DEF IInv

LEMMA NextKeeps ==
  ASSUME IInv, [Next]_vars
  PROVE  IInv'
<1>1. CASE UNCHANGED vars
  <2>1. srv' = srv /\ cache' = cache /\ view' = view /\ wake' = wake /\ used' = used
    BY <1>1 DEF vars
  <2>2. Existing' = Existing BY <2>1 DEF Existing
  <2>3. QED BY <2>1, <2>2 DEF IInv
<1>2. ASSUME NEW n \in 0..Len(cache.life.msgs), NEW m \in 0..Len(cache.stat.msgs),
             NEW held, Frame(n, m, held)
      PROVE  IInv'
  BY <1>2, FrameKeeps
<1>3. CASE Deadline BY <1>3, DeadlineKeeps
<1>4. CASE Pool
  BY <1>4, LifecycleAnsweredKeeps, StatusAnsweredKeeps, ListingKeeps DEF Pool
<1>5. CASE Faults
  BY <1>5, LifecycleBreaksKeeps, StatusBreaksKeeps, ListingKeeps, ServerStopsKeeps DEF Faults
<1>6. CASE FocusReaches \/ FocusFails \/ ServerStarts
  BY <1>6, FocusReachesKeeps, FocusFailsKeeps, ServerStartsKeeps
<1>7. ASSUME NEW p \in Panes, UserPicks(p) PROVE IInv' BY <1>7, UserPicksKeeps
<1>8. ASSUME NEW p \in Panes, Herdr(p) PROVE IInv'
  BY <1>8, StatusChangesKeeps, FocusChangesKeeps, TitleChangesKeeps, PaneOpensKeeps,
     PaneClosesKeeps DEF Herdr
<1>9. QED
  <2>1. \/ UNCHANGED vars
        \/ \E n \in 0..Len(cache.life.msgs), m \in 0..Len(cache.stat.msgs),
              held \in {FALSE, view.watching \/ view.job \in {"done", "failed"}} :
              Frame(n, m, held)
        \/ Deadline \/ Pool \/ Faults
        \/ FocusReaches \/ FocusFails \/ ServerStarts
        \/ \E p \in Panes : UserPicks(p) \/ Herdr(p)
    BY DEF Next
  <2>2. QED BY <1>1, <1>2, <1>3, <1>4, <1>5, <1>6, <1>7, <1>8, <2>1

(* What Good claims of the rows, read when nothing is on its way.          *)
LEMMA InvHolds ==
  ASSUME IInv
  PROVE  Inv
<1>1. /\ cache \in Cache /\ Linked(cache)
      /\ cache.rows \in RowsType /\ DOMAIN cache.rows \subseteq Panes
  BY StreamsAre, RowsAre DEF Cache
<1>2. TypeOK
  <2>1. /\ srv.up \in BOOLEAN /\ srv.pane \in [Panes -> Statuses \cup {"gone"}]
        /\ srv.focus \in Existing /\ used \in 0..MaxEvents /\ wake \in BOOLEAN
        /\ view.active \in Panes /\ view.job \in {"none", "asked", "done", "failed"}
    BY DEF IInv, Server, View
  <2>2. /\ cache.link \in {"Down", "Connecting", "Up", "Abandoned"}
        /\ cache.retry \in {"now", "later"} /\ cache.due \in {"none", "now", "later"}
        /\ cache.blank \in {"none", "silent", "alarmed", "over"}
        /\ cache.sample \in {"none", "old", "new"} /\ cache.own \in Panes \cup {NoPane}
    BY <1>1 DEF Cache
  <2>3. QED BY <1>1, <2>1, <2>2 DEF TypeOK, Linked
<1>3. ASSUME Quiet PROVE Current
  <2>1. Covered(cache, cache.life.msgs, 0, srv.focus, Existing)
    BY <1>3 DEF IInv, Good, Quiet
  <2>2. ~FocusAfter(cache.life.msgs, 0) /\ ~ChangeAfter(cache.life.msgs, 0)
    BY <1>3 DEF Quiet, FocusAfter, ChangeAfter
  <2>3. DOMAIN cache.rows = Existing /\ RowsRight(cache.rows, srv.focus)
    BY <1>3, <2>1, <2>2 DEF Covered, Quiet
  <2>4. \A p \in Existing : cache.rows[p].focused <=> p = srv.focus BY <2>3 DEF RowsRight
  <2>5. Focused(cache) = {srv.focus} BY <2>3, <2>4 DEF Focused, IInv
  <2>6. QED BY <2>3, <2>5 DEF Current
<1>4. QED BY <1>2, <1>3 DEF Inv, QuietMeansCurrent

(* In every reachable state the cache is Good for herdr as it is: while    *)
(* the lifecycle stream is open and no listing is owed (endpoint.due), the *)
(* messages still to be read, the listing in flight and the events receive *)
(* held for it amount to herdr's panes and focus.                          *)
THEOREM Inductive == Spec => []IInv
<1>1. Init => IInv BY InitGood
<1>2. IInv /\ [Next]_vars => IInv' BY NextKeeps
<1>3. QED BY <1>1, <1>2, PTL DEF Spec

(* Once a herdr whose stream is up has nothing more on its way, the rows   *)
(* of EndpointCache are its panes, and the one that reads as focused is    *)
(* the one it shows: advance_listing undid no patch that was newer than    *)
(* its reply, and every focus event receive did not believe was made up    *)
(* for by a listing.                                                       *)
THEOREM QuietRowsAreHerdrs == Spec => []Inv
<1>1. IInv => Inv BY InvHolds
<1>2. QED BY <1>1, Inductive, PTL
=============================================================================
