--------------------------- MODULE ProjectsProofs ---------------------------
(***************************************************************************)
(* Theorems of Projects, for any roots, connections, creates and deletes,  *)
(* and any number of versions of a repository.                             *)
(***************************************************************************)
EXTENDS Projects, SelectionLemmas

(* The types, by the part of the app that keeps the state.                 *)
FrameTypes ==
    /\ ui \in {"asleep", "polls", "tasks", "input", "calls", "paint", "dialog", "crashed"}
    /\ due \in BOOLEAN

ListTypes ==
    /\ projects \in Seq(Roots) /\ IsInjective(projects)
    /\ shown \in [Roots -> 0..MaxVersion]

DiskTypes == disk \in [Roots -> Versions]

ScanTypes ==
    /\ scan \in [Roots -> {"none", "queued", "read", "landed", "panicked"}]
    /\ found \in [Roots -> 0..MaxVersion]
    /\ parked \in [Roots -> SUBSET Clients]
    /\ activity \in [running : BOOLEAN, waits : SUBSET Roots]

CallTypes ==
    /\ inbox \in Seq(Clients) /\ batch \in Seq(Clients)
    /\ pc \in [Clients -> {"idle", "sending", "waiting", "answered", "gaveup"}]
    /\ call \in [Clients -> Calls \cup {NoCall}]
    /\ replies \in [Clients -> 0..2]
    /\ verdict \in [Clients -> {"none", "error", "rows"}]
    /\ scanned \in SUBSET Clients

TaskTypes ==
    /\ task \in [Tasks -> {"none", "prompt", "watched", "landed", "result", "running",
                           "done", "over"}]
    /\ target \in [Tasks -> Roots \cup {NoRoot}]
    /\ index \in [Tasks -> Places \cup {0}]

Types == FrameTypes /\ ListTypes /\ DiskTypes /\ ScanTypes /\ CallTypes /\ TaskTypes

(* Where a call is: not made, sent, taken, parked on the scan of its root, *)
(* or nowhere any more; one place at a time, and unanswered until it has   *)
(* left them all.                                                          *)
IsParked(c) == \E r \in Roots : c \in parked[r]

PlaceOf(c) ==
    /\ pc[c] = "idle" =>
          /\ replies[c] = 0 /\ verdict[c] = "none" /\ ~IsParked(c)
          /\ c \notin Range(inbox) /\ c \notin Range(batch)
    /\ c \in Range(inbox) => replies[c] = 0 /\ c \notin Range(batch) /\ ~IsParked(c)
    /\ c \in Range(batch) => replies[c] = 0 /\ ~IsParked(c)
    /\ \A r \in Roots : c \in parked[r] =>
          replies[c] = 0 /\ call[c].root = r /\ scan[r] # "none"
    /\ replies[c] <= 1
    /\ call[c].kind = "refresh" /\ verdict[c] = "rows" => c \in scanned

Placed ==
    /\ \A c \in Clients : PlaceOf(c)
    /\ IsInjective(inbox) /\ IsInjective(batch)
    /\ ui # "calls" => batch = <<>>

(* What a scan has read is no older than the rows, and neither is newer    *)
(* than the repository.                                                    *)
FreshOf(r) ==
    /\ shown[r] <= disk[r] /\ found[r] <= disk[r]
    /\ scan[r] \in {"read", "landed"} /\ found[r] # 0 => shown[r] <= found[r]

Fresh == \A r \in Roots : FreshOf(r)

-----------------------------------------------------------------------------
(* Sequences without repetition.                                           *)

LEMMA InjectiveAppend ==
  ASSUME NEW T, NEW q \in Seq(T), IsInjective(q), NEW x \in T, x \notin Range(q)
  PROVE  /\ IsInjective(Append(q, x)) /\ Append(q, x) \in Seq(T)
         /\ Range(Append(q, x)) = Range(q) \cup {x}
<1> DEFINE a == Append(q, x)
<1>1. /\ Len(q) \in Nat /\ DOMAIN q = 1..Len(q) /\ DOMAIN a = 1..(Len(q) + 1)
      /\ a[Len(q) + 1] = x /\ a \in Seq(T)
      /\ \A i \in 1..Len(q) : a[i] = q[i]
      /\ \A i \in 1..(Len(q) + 1) : i \in 1..Len(q) \/ i = Len(q) + 1
      /\ \A i \in 1..Len(q) : i \in 1..(Len(q) + 1) /\ i # Len(q) + 1
  OBVIOUS
<1>2. Len(q) + 1 \in 1..(Len(q) + 1) BY <1>1
<1> HIDE DEF a
<1>3. IsInjective(a)
  <2>1. SUFFICES ASSUME NEW i \in 1..(Len(q) + 1), NEW j \in 1..(Len(q) + 1), a[i] = a[j]
                 PROVE  i = j
    BY <1>1 DEF IsInjective
  <2>2. \A k \in 1..Len(q) : q[k] # x BY <1>1 DEF Range
  <2>3. QED BY <1>1, <2>1, <2>2 DEF IsInjective
<1>4. Range(a) = Range(q) \cup {x}
  <2>1. ASSUME NEW y \in Range(a) PROVE y \in Range(q) \cup {x}
    BY <1>1, <2>1 DEF Range
  <2>2. ASSUME NEW y \in Range(q) \cup {x} PROVE y \in Range(a)
    BY <1>1, <1>2, <2>2 DEF Range
  <2>3. QED BY <2>1, <2>2
<1>5. QED BY <1>1, <1>3, <1>4 DEF a

LEMMA InjectiveTail ==
  ASSUME NEW T, NEW q \in Seq(T), IsInjective(q), q # <<>>
  PROVE  /\ Head(q) \in T /\ Tail(q) \in Seq(T) /\ IsInjective(Tail(q))
         /\ Range(Tail(q)) = Range(q) \ {Head(q)} /\ Head(q) \in Range(q)
<1> DEFINE t == Tail(q)
<1>1. /\ Len(q) \in Nat /\ 1 \in 1..Len(q) /\ DOMAIN q = 1..Len(q)
      /\ DOMAIN t = 1..(Len(q) - 1) /\ Head(q) = q[1]
      /\ Head(q) \in T /\ t \in Seq(T)
      /\ \A i \in 1..(Len(q) - 1) : i + 1 \in 1..Len(q) /\ t[i] = q[i + 1] /\ i + 1 # 1
      /\ \A i \in 1..Len(q) : i # 1 => i - 1 \in 1..(Len(q) - 1) /\ t[i - 1] = q[i]
  OBVIOUS
<1> HIDE DEF t
<1>2. IsInjective(t)
  <2>1. SUFFICES ASSUME NEW i \in 1..(Len(q) - 1), NEW j \in 1..(Len(q) - 1), t[i] = t[j]
                 PROVE  i = j
    BY <1>1 DEF IsInjective
  <2>2. i + 1 = j + 1 BY <1>1, <2>1 DEF IsInjective
  <2>3. QED BY <2>2
<1>3. Range(t) = Range(q) \ {Head(q)}
  <2>1. ASSUME NEW y \in Range(t) PROVE y \in Range(q) /\ y # Head(q)
    <3>1. PICK i \in 1..(Len(q) - 1) : y = t[i] BY <1>1, <2>1 DEF Range
    <3>2. y = q[i + 1] /\ i + 1 \in 1..Len(q) /\ i + 1 # 1 BY <1>1, <3>1
    <3>3. QED BY <1>1, <3>2 DEF Range, IsInjective
  <2>2. ASSUME NEW y \in Range(q), y # Head(q) PROVE y \in Range(t)
    <3>1. PICK i \in 1..Len(q) : y = q[i] BY <1>1, <2>2 DEF Range
    <3>2. i # 1 BY <1>1, <2>2, <3>1
    <3>3. i - 1 \in DOMAIN t /\ t[i - 1] = y BY <1>1, <3>1, <3>2
    <3>4. QED BY <3>3 DEF Range
  <2>3. QED BY <2>1, <2>2
<1>4. QED BY <1>1, <1>2, <1>3 DEF t, Range

(* What Select leaves of a sequence without repetition has none.           *)
LEMMA InjectiveSelect ==
  ASSUME NEW T, NEW S
  PROVE  \A q \in Seq(T) : IsInjective(q) =>
            /\ Select(q, S) \in Seq(T) /\ IsInjective(Select(q, S))
            /\ Range(Select(q, S)) = Range(q) \cap S
<1> DEFINE Good(q) == IsInjective(q) =>
                        /\ Select(q, S) \in Seq(T) /\ IsInjective(Select(q, S))
                        /\ Range(Select(q, S)) = Range(q) \cap S
           Q == {q \in Seq(T) : Good(q)}
<1>1. <<>> \in Q
  <2>1. <<>> \in Seq(T) /\ IsInjective(<<>>) /\ Range(<<>>) = {} BY DEF IsInjective, Range
  <2>2. QED BY <2>1, SelectEmpty
<1>2. ASSUME NEW q \in Q, NEW x \in T PROVE Append(q, x) \in Q
  <2>1. q \in Seq(T) /\ Append(q, x) \in Seq(T) /\ Good(q) OBVIOUS
  <2>2. SUFFICES ASSUME IsInjective(Append(q, x)) PROVE Good(Append(q, x))
    BY <2>1
  <2>3. IsInjective(q) /\ x \notin Range(q)
    <3>1. /\ DOMAIN q = 1..Len(q) /\ DOMAIN Append(q, x) = 1..(Len(q) + 1) /\ Len(q) \in Nat
          /\ \A i \in 1..Len(q) : Append(q, x)[i] = q[i] /\ i \in 1..(Len(q) + 1)
          /\ Append(q, x)[Len(q) + 1] = x
      BY <2>1
    <3>2. Len(q) + 1 \in 1..(Len(q) + 1) /\ \A i \in 1..Len(q) : i # Len(q) + 1 BY <3>1
    <3>3. QED BY <2>2, <3>1, <3>2 DEF IsInjective, Range
  <2>4. /\ Select(q, S) \in Seq(T) /\ IsInjective(Select(q, S))
        /\ Range(Select(q, S)) = Range(q) \cap S
    BY <2>1, <2>3
  <2>5. Range(Append(q, x)) = Range(q) \cup {x} BY <2>1, <2>3, InjectiveAppend
  <2>6. Select(Append(q, x), S) = IF x \in S THEN Append(Select(q, S), x) ELSE Select(q, S)
    BY <2>1, SelectAppend
  <2>7. CASE x \in S
    <3> DEFINE k == Select(q, S)
    <3>1. k \in Seq(T) /\ IsInjective(k) /\ x \notin Range(k) BY <2>3, <2>4
    <3> HIDE DEF k
    <3>2. /\ IsInjective(Append(k, x)) /\ Append(k, x) \in Seq(T)
          /\ Range(Append(k, x)) = Range(k) \cup {x}
      BY <3>1, InjectiveAppend
    <3>3. QED BY <2>4, <2>5, <2>6, <2>7, <3>2 DEF k
  <2>8. CASE x \notin S BY <2>4, <2>5, <2>6, <2>8
  <2>9. QED BY <2>7, <2>8
<1>3. Q = Seq(T)
  <2> HIDE DEF Q
  <2>1. Q \in SUBSET Seq(T) BY DEF Q
  <2>2. QED BY <1>1, <1>2, <2>1, SequenceInduction
<1>4. QED BY <1>3

LEMMA ConcatIs ==
  ASSUME NEW T, NEW u \in Seq(T), NEW v \in Seq(T)
  PROVE  /\ u \o v \in Seq(T) /\ Len(u \o v) = Len(u) + Len(v)
         /\ \A k \in 1..(Len(u) + Len(v)) :
               (u \o v)[k] = IF k <= Len(u) THEN u[k] ELSE v[k - Len(u)]
OBVIOUS

(* A sequence with one element moved is a permutation of it.               *)
LEMMA RemoveAtIs ==
  ASSUME NEW T, NEW q \in Seq(T), NEW i \in 1..Len(q)
  PROVE  /\ RemoveAt(q, i) \in Seq(T) /\ Len(RemoveAt(q, i)) = Len(q) - 1
         /\ \A k \in 1..(Len(q) - 1) :
               RemoveAt(q, i)[k] = IF k < i THEN q[k] ELSE q[k + 1]
<1> DEFINE u == SubSeq(q, 1, i - 1)
           v == SubSeq(q, i + 1, Len(q))
<1>1. u \in Seq(T) /\ Len(u) = i - 1 /\ \A k \in 1..(i - 1) : u[k] = q[k]
  OBVIOUS
<1>2. v \in Seq(T) /\ Len(v) = Len(q) - i /\ \A k \in 1..(Len(q) - i) : v[k] = q[i + k]
  OBVIOUS
<1>3. Len(q) \in Nat /\ i \in Nat /\ i <= Len(q) /\ 1 <= i OBVIOUS
<1>4. RemoveAt(q, i) = u \o v BY DEF RemoveAt
<1> HIDE DEF u, v
<1>5. /\ u \o v \in Seq(T) /\ Len(u \o v) = Len(u) + Len(v)
      /\ \A k \in 1..(Len(u) + Len(v)) :
            (u \o v)[k] = IF k <= Len(u) THEN u[k] ELSE v[k - Len(u)]
  BY <1>1, <1>2, ConcatIs
<1>6. Len(u) + Len(v) = Len(q) - 1 BY <1>1, <1>2, <1>3
<1>7. ASSUME NEW k \in 1..(Len(q) - 1)
      PROVE  (u \o v)[k] = IF k < i THEN q[k] ELSE q[k + 1]
  <2>1. CASE k < i BY <1>1, <1>3, <1>5, <1>6, <2>1
  <2>2. CASE ~(k < i)
    <3>1. k - (i - 1) \in 1..(Len(q) - i) /\ i + (k - (i - 1)) = k + 1 /\ ~(k <= i - 1)
      BY <1>3, <2>2
    <3>2. (u \o v)[k] = v[k - (i - 1)] BY <1>1, <1>5, <1>6, <3>1
    <3>3. QED BY <1>2, <2>2, <3>1, <3>2
  <2>3. QED BY <2>1, <2>2
<1>8. QED BY <1>4, <1>5, <1>6, <1>7

LEMMA InsertAtIs ==
  ASSUME NEW T, NEW q, NEW x, NEW j, q \in Seq(T), x \in T, j \in 1..(Len(q) + 1)
  PROVE  /\ InsertAt(q, j, x) \in Seq(T) /\ Len(InsertAt(q, j, x)) = Len(q) + 1
         /\ \A k \in 1..(Len(q) + 1) :
               /\ k < j => InsertAt(q, j, x)[k] = q[k]
               /\ k = j => InsertAt(q, j, x)[k] = x
               /\ k > j => InsertAt(q, j, x)[k] = q[k - 1]
<1> DEFINE u == SubSeq(q, 1, j - 1)
           v == SubSeq(q, j, Len(q))
<1>1. u \in Seq(T) /\ Len(u) = j - 1 /\ \A k \in 1..(j - 1) : u[k] = q[k]
  OBVIOUS
<1>2. /\ v \in Seq(T) /\ Len(v) = Len(q) - (j - 1)
      /\ \A k \in 1..(Len(q) - (j - 1)) : v[k] = q[j - 1 + k]
  OBVIOUS
<1>3. Len(q) \in Nat /\ j \in Nat /\ j <= Len(q) + 1 /\ 1 <= j OBVIOUS
<1>4. InsertAt(q, j, x) = u \o <<x>> \o v BY DEF InsertAt
<1> HIDE DEF u, v
<1> DEFINE w == u \o <<x>>
<1>5. w \in Seq(T) /\ Len(w) = j /\ w[j] = x /\ \A k \in 1..(j - 1) : w[k] = q[k]
  BY <1>1, <1>3
<1> HIDE DEF w
<1>6. /\ w \o v \in Seq(T) /\ Len(w \o v) = Len(w) + Len(v)
      /\ \A k \in 1..(Len(w) + Len(v)) :
            (w \o v)[k] = IF k <= Len(w) THEN w[k] ELSE v[k - Len(w)]
  BY <1>2, <1>5, ConcatIs
<1>7. Len(w) + Len(v) = Len(q) + 1 BY <1>2, <1>3, <1>5
<1>8. ASSUME NEW k \in 1..(Len(q) + 1)
      PROVE  /\ k < j => (w \o v)[k] = q[k]
             /\ k = j => (w \o v)[k] = x
             /\ k > j => (w \o v)[k] = q[k - 1]
  <2>1. CASE k <= j BY <1>3, <1>5, <1>6, <1>7, <2>1
  <2>2. CASE ~(k <= j)
    <3>1. k - j \in 1..(Len(q) - (j - 1)) /\ j - 1 + (k - j) = k - 1 BY <1>3, <2>2
    <3>2. (w \o v)[k] = v[k - j] BY <1>5, <1>6, <1>7, <2>2
    <3>3. QED BY <1>2, <1>3, <2>2, <3>1, <3>2
  <2>3. QED BY <2>1, <2>2
<1>9. QED BY <1>4, <1>6, <1>7, <1>8 DEF w

LEMMA InjectiveMove ==
  ASSUME NEW T, NEW q \in Seq(T), IsInjective(q), NEW i \in DOMAIN q, NEW j \in DOMAIN q
  PROVE  /\ InsertAt(RemoveAt(q, i), j, q[i]) \in Seq(T)
         /\ IsInjective(InsertAt(RemoveAt(q, i), j, q[i]))
         /\ Range(InsertAt(RemoveAt(q, i), j, q[i])) = Range(q)
<1> DEFINE n == Len(q)
           rest == RemoveAt(q, i)
           m == InsertAt(rest, j, q[i])
<1>1. n \in Nat /\ DOMAIN q = 1..n /\ i \in 1..n /\ j \in 1..n /\ q[i] \in T OBVIOUS
<1>2. /\ rest \in Seq(T) /\ Len(rest) = n - 1
      /\ \A k \in 1..(n - 1) : rest[k] = IF k < i THEN q[k] ELSE q[k + 1]
  BY <1>1, RemoveAtIs
<1>3. /\ m \in Seq(T) /\ Len(m) = n
      /\ \A k \in 1..n : /\ k < j => m[k] = rest[k]
                         /\ k = j => m[k] = q[i]
                         /\ k > j => m[k] = rest[k - 1]
  <2>1. ASSUME NEW r \in Seq(T), NEW x \in T, Len(r) = n - 1
        PROVE  /\ InsertAt(r, j, x) \in Seq(T) /\ Len(InsertAt(r, j, x)) = n
               /\ \A k \in 1..n :
                     /\ k < j => InsertAt(r, j, x)[k] = r[k]
                     /\ k = j => InsertAt(r, j, x)[k] = x
                     /\ k > j => InsertAt(r, j, x)[k] = r[k - 1]
    <3>1. Len(r) + 1 = n /\ j \in 1..(Len(r) + 1) BY <1>1, <2>1
    <3> HIDE DEF n, rest, m
    <3>2. /\ InsertAt(r, j, x) \in Seq(T) /\ Len(InsertAt(r, j, x)) = Len(r) + 1
          /\ \A k \in 1..(Len(r) + 1) :
                /\ k < j => InsertAt(r, j, x)[k] = r[k]
                /\ k = j => InsertAt(r, j, x)[k] = x
                /\ k > j => InsertAt(r, j, x)[k] = r[k - 1]
      BY <3>1, InsertAtIs
    <3>3. QED BY <3>1, <3>2
  <2> HIDE DEF n, rest
  <2>2. QED BY <1>1, <1>2, <2>1
<1> DEFINE gap(k) == IF k < j THEN k ELSE k - 1
           from(k) == IF k = j THEN i ELSE IF gap(k) < i THEN gap(k) ELSE gap(k) + 1
<1> HIDE DEF m, rest, n
<1>4. ASSUME NEW k \in 1..n PROVE from(k) \in 1..n /\ m[k] = q[from(k)]
  <2>1. CASE k = j BY <1>1, <1>3, <2>1
  <2>2. CASE k < j
    <3>1. k \in 1..(n - 1) BY <1>1, <2>2
    <3>2. m[k] = rest[k] BY <1>1, <1>3, <2>2
    <3>3. QED BY <1>1, <1>2, <2>2, <3>1, <3>2
  <2>3. CASE k > j
    <3>1. k - 1 \in 1..(n - 1) /\ (k - 1) + 1 = k BY <1>1, <2>3
    <3>2. m[k] = rest[k - 1] BY <1>1, <1>3, <2>3
    <3>3. rest[k - 1] = IF k - 1 < i THEN q[k - 1] ELSE q[k] BY <1>2, <3>1
    <3>4. from(k) = IF k - 1 < i THEN k - 1 ELSE k BY <1>1, <2>3
    <3>5. from(k) \in 1..n BY <1>1, <2>3, <3>4
    <3>6. QED BY <3>2, <3>3, <3>4, <3>5
  <2>4. QED BY <1>1, <2>1, <2>2, <2>3
<1>5. ASSUME NEW k \in 1..n, NEW l \in 1..n, from(k) = from(l) PROVE k = l
  BY <1>1, <1>5
<1>6. ASSUME NEW h \in 1..n PROVE \E k \in 1..n : from(k) = h
  <2> DEFINE g == IF h < i THEN h ELSE h - 1
             k == IF h = i THEN j ELSE IF g < j THEN g ELSE g + 1
  <2>1. k \in 1..n /\ from(k) = h BY <1>1
  <2>2. QED BY <2>1
<1>7. DOMAIN m = 1..n BY <1>3
<1> HIDE DEF from, gap
<1>8. IsInjective(m)
  <2>1. SUFFICES ASSUME NEW k \in 1..n, NEW l \in 1..n, m[k] = m[l] PROVE k = l
    BY <1>7 DEF IsInjective
  <2>2. from(k) = from(l) BY <1>1, <1>4, <2>1 DEF IsInjective
  <2>3. QED BY <1>5, <2>2
<1>9. Range(m) = Range(q)
  <2>1. ASSUME NEW y \in Range(m) PROVE y \in Range(q) BY <1>1, <1>4, <1>7, <2>1 DEF Range
  <2>2. ASSUME NEW y \in Range(q) PROVE y \in Range(m)
    <3>1. PICK h \in 1..n : y = q[h] BY <1>1, <2>2 DEF Range
    <3>2. PICK k \in 1..n : from(k) = h BY <1>6
    <3>3. QED BY <1>4, <1>7, <3>1, <3>2 DEF Range
  <2>3. QED BY <2>1, <2>2
<1>10. QED BY <1>3, <1>8, <1>9 DEF m, rest

-----------------------------------------------------------------------------
(* Types.                                                                  *)

LEMMA TypesInit == Init => Types
<1> SUFFICES ASSUME Init PROVE Types OBVIOUS
<1> USE DEF Init
<1>1. FrameTypes BY DEF FrameTypes
<1>2. 0 \in 0..MaxVersion /\ 1 \in Versions BY ProjectsAssumption DEF ProjectsAssumption, Versions
<1>3. ListTypes BY <1>2 DEF ListTypes, IsInjective
<1>4. DiskTypes BY <1>2 DEF DiskTypes
<1>5. ScanTypes BY <1>2 DEF ScanTypes, NoActivity
<1>6. CallTypes BY DEF CallTypes
<1>7. TaskTypes BY DEF TaskTypes
<1>8. QED BY <1>1, <1>3, <1>4, <1>5, <1>6, <1>7 DEF Types

LEMMA TypesFrames ==
  /\ FrameTypes /\ UNCHANGED frameVars => FrameTypes'
  /\ ListTypes /\ UNCHANGED listVars => ListTypes'
  /\ DiskTypes /\ UNCHANGED disk => DiskTypes'
  /\ ScanTypes /\ UNCHANGED scanVars => ScanTypes'
  /\ CallTypes /\ UNCHANGED callVars => CallTypes'
  /\ TaskTypes /\ UNCHANGED taskVars => TaskTypes'
BY DEF FrameTypes, ListTypes, DiskTypes, ScanTypes, CallTypes, TaskTypes,
       frameVars, listVars, scanVars, callVars, taskVars

(* A call names a project.                                                 *)
LEMMA CallRoot ==
  ASSUME CallTypes, NEW c \in Clients, call[c].kind # "none"
  PROVE  call[c].root \in Roots
<1>1. call[c] \in Calls \cup {NoCall} BY DEF CallTypes
<1>2. NoCall.kind = "none" BY DEF NoCall
<1>3. call[c] \in Calls BY <1>1, <1>2
<1>4. QED BY <1>3 DEF Calls

LEMMA ListedMember ==
  ASSUME ListTypes, NEW i \in DOMAIN projects
  PROVE  projects[i] \in Roots
BY DEF ListTypes

LEMMA AnswerTypes ==
  ASSUME CallTypes, NEW cs, NEW v, \A c \in cs : replies[c] = 0,
         \A c \in cs : v[c] \in {"error", "rows"}, Answer(cs, v)
  PROVE  /\ replies' \in [Clients -> 0..2]
         /\ verdict' \in [Clients -> {"none", "error", "rows"}]
<1>1. /\ replies \in [Clients -> 0..2]
      /\ verdict \in [Clients -> {"none", "error", "rows"}]
  BY DEF CallTypes
<1>2. replies' \in [Clients -> 0..2] BY <1>1 DEF Answer
<1>3. verdict' \in [Clients -> {"none", "error", "rows"}] BY <1>1 DEF Answer
<1>4. QED BY <1>2, <1>3

LEMMA StartScansTypes ==
  ASSUME ScanTypes, NEW rs, StartScans(rs)
  PROVE  /\ scan' \in [Roots -> {"none", "queued", "read", "landed", "panicked"}]
         /\ found' \in [Roots -> 0..MaxVersion]
         /\ \A r \in Roots : scan[r] # "none" => scan'[r] = scan[r]
         /\ \A r \in Roots : scan[r] = "none" => scan'[r] \in {"none", "queued"}
         /\ \A r \in rs : r \in Roots => scan'[r] # "none"
BY DEF ScanTypes, StartScans

LEMMA InsertTypes ==
  ASSUME ListTypes, NEW r \in Roots, ~Listed(r), InsertProject(r)
  PROVE  ListTypes' /\ \A s \in Roots : s # r => shown'[s] = shown[s]
<1>1. 0 \in 0..MaxVersion BY ProjectsAssumption DEF ProjectsAssumption
<1>2. projects' \in Seq(Roots) /\ IsInjective(projects')
  <2>1. projects \in Seq(Roots) /\ IsInjective(projects) /\ r \notin Range(projects)
    BY DEF ListTypes, Listed
  <2>2. IsInjective(Append(projects, r)) /\ Append(projects, r) \in Seq(Roots)
    BY <2>1, InjectiveAppend
  <2>3. QED BY <2>2 DEF InsertProject
<1>3. shown' \in [Roots -> 0..MaxVersion] /\ \A s \in Roots : s # r => shown'[s] = shown[s]
  BY <1>1 DEF ListTypes, InsertProject
<1>4. QED BY <1>2, <1>3 DEF ListTypes

LEMMA DropTypes ==
  ASSUME ListTypes, ScanTypes, NEW r, DropProject(r)
  PROVE  ListTypes' /\ activity' \in [running : BOOLEAN, waits : SUBSET Roots]
<1>1. projects \in Seq(Roots) /\ IsInjective(projects) BY DEF ListTypes
<1>2. /\ Select(projects, Roots \ {r}) \in Seq(Roots)
      /\ IsInjective(Select(projects, Roots \ {r}))
  BY <1>1, InjectiveSelect
<1>3. ListTypes' BY <1>2 DEF ListTypes, DropProject
<1>4. activity' \in [running : BOOLEAN, waits : SUBSET Roots] BY DEF ScanTypes, DropProject
<1>5. QED BY <1>3, <1>4

LEMMA ParkTypes ==
  ASSUME ScanTypes, CallTypes, NEW c \in Clients, call[c].kind # "none", Park(c)
  PROVE  /\ parked' \in [Roots -> SUBSET Clients]
         /\ parked'[call[c].root] = parked[call[c].root] \cup {c}
         /\ \A r \in Roots : r # call[c].root => parked'[r] = parked[r]
<1>1. call[c].root \in Roots BY CallRoot
<1>2. QED BY <1>1 DEF ScanTypes, Park

(* What the head of the batch gives way to.                                *)
LEMMA CurrentTypes ==
  ASSUME CallTypes, IsInjective(batch), NEW c, Current(c)
  PROVE  /\ c \in Clients /\ c \in Range(batch)
         /\ batch' \in Seq(Clients) /\ IsInjective(batch')
         /\ Range(batch') = Range(batch) \ {c}
<1>1. batch \in Seq(Clients) /\ batch # <<>> /\ Head(batch) = c /\ batch' = Tail(batch)
  BY DEF CallTypes, Current
<1>2. /\ Head(batch) \in Clients /\ Tail(batch) \in Seq(Clients) /\ IsInjective(Tail(batch))
      /\ Range(Tail(batch)) = Range(batch) \ {Head(batch)} /\ Head(batch) \in Range(batch)
  BY <1>1, InjectiveTail
<1>3. QED BY <1>1, <1>2

LEMMA ConnectionTypes ==
  ASSUME Types, NEW c \in Clients, Connection(c)
  PROVE  Types'
<1> USE DEF Types
<1>1. ASSUME NEW q \in Calls, Send(c, q) PROVE Types'
  <2>1. CallTypes' BY <1>1 DEF Send, CallTypes
  <2>2. QED BY <1>1, <2>1, TypesFrames DEF Send
<1>2. CASE Wake(c)
  <2>1. FrameTypes' /\ CallTypes' BY <1>2 DEF Wake, FrameTypes, CallTypes
  <2>2. QED BY <1>2, <2>1, TypesFrames DEF Wake
<1>3. CASE Receive(c)
  <2>1. CallTypes' BY <1>3 DEF Receive, CallTypes
  <2>2. QED BY <1>3, <2>1, TypesFrames DEF Receive
<1>4. CASE GiveUp(c)
  <2>1. CallTypes' BY <1>4 DEF GiveUp, CallTypes
  <2>2. QED BY <1>4, <2>1, TypesFrames DEF GiveUp
<1>5. QED BY <1>1, <1>2, <1>3, <1>4 DEF Connection

LEMMA WorkerTypes ==
  ASSUME Types, NEW r \in Roots, Worker(r)
  PROVE  Types'
<1> USE DEF Types
<1>1. CASE ScanReads(r)
  <2>1. disk[r] \in 0..MaxVersion BY DEF DiskTypes, Versions
  <2>2. ScanTypes' BY <1>1, <2>1 DEF ScanReads, ScanTypes
  <2>3. QED BY <1>1, <2>2, TypesFrames DEF ScanReads
<1>2. ASSUME NEW outcome, ScanEnds(r, outcome) PROVE Types'
  <2>1. 0 \in 0..MaxVersion BY ProjectsAssumption DEF ProjectsAssumption
  <2>2. ScanTypes'
    <3>1. found'[r] \in 0..MaxVersion BY <1>2, <2>1 DEF ScanEnds, ScanTypes
    <3>2. QED BY <1>2, <2>1, <3>1 DEF ScanEnds, ScanTypes
  <2>3. FrameTypes' BY <1>2 DEF ScanEnds, FrameTypes
  <2>4. QED BY <1>2, <2>2, <2>3, TypesFrames DEF ScanEnds
<1>3. QED BY <1>1, <1>2 DEF Worker

LEMMA WorldTypes ==
  ASSUME Types, World
  PROVE  Types'
<1> USE DEF Types
<1>1. \A r \in Roots : disk[r] < MaxVersion => disk[r] + 1 \in Versions
  BY ProjectsAssumption DEF ProjectsAssumption, DiskTypes, Versions
<1>2. ASSUME NEW r \in Roots, RepositoryChanges(r) PROVE Types'
  <2>1. DiskTypes' BY <1>1, <1>2 DEF RepositoryChanges, DiskTypes
  <2>2. QED BY <1>2, <2>1, TypesFrames DEF RepositoryChanges
<1>3. ASSUME NEW t \in Tasks, TaskEnds(t) PROVE Types'
  <2>1. FrameTypes' BY <1>3 DEF TaskEnds, FrameTypes
  <2>2. DiskTypes'
    <3>1. PICK changed \in BOOLEAN :
            disk' = IF changed /\ disk[target[t]] < MaxVersion
                    THEN [disk EXCEPT ![target[t]] = @ + 1] ELSE disk
      BY <1>3 DEF TaskEnds
    <3> DEFINE r == target[t]
    <3> HIDE DEF r
    <3>2. CASE r \in Roots BY <1>1, <3>1, <3>2 DEF DiskTypes, r
    <3>3. CASE r \notin Roots BY <3>1, <3>3 DEF DiskTypes, r
    <3>4. QED BY <3>2, <3>3
  <2>3. TaskTypes' BY <1>3 DEF TaskEnds, TaskTypes
  <2>4. QED BY <1>3, <2>1, <2>2, <2>3, TypesFrames DEF TaskEnds
<1>4. QED BY <1>2, <1>3 DEF World

LEMMA AdoptScansTypes ==
  ASSUME Types, Placed, AdoptScans
  PROVE  Types'
<1> USE DEF Types
<1> DEFINE ended == {r \in Roots : Ended(r)}
           heard == UNION {parked[r] : r \in ended}
<1>1. 0 \in 0..MaxVersion BY ProjectsAssumption DEF ProjectsAssumption
<1>2. FrameTypes' BY DEF AdoptScans, FrameTypes
<1>3. ListTypes'
  <2>1. shown' = ShownAfter(ended) /\ projects' = projects BY DEF AdoptScans
  <2> HIDE DEF ended
  <2>2. QED BY <2>1 DEF ListTypes, ScanTypes, ShownAfter
<1>4. ScanTypes'
  <2>1. /\ scan' = [r \in Roots |-> IF r \in ended THEN "none" ELSE scan[r]]
        /\ parked' = Unparked(ended)
        /\ found' = [r \in Roots |-> IF r \in ended THEN 0 ELSE found[r]]
        /\ activity' = [running |-> activity.running /\ RowsDone(ended) # {},
                        waits |-> RowsDone(ended)]
    BY DEF AdoptScans
  <2> HIDE DEF ended
  <2>2. activity' \in [running : BOOLEAN, waits : SUBSET Roots]
    BY <2>1 DEF ScanTypes, RowsDone
  <2>3. QED BY <1>1, <2>1, <2>2 DEF ScanTypes, Unparked
<1>5. CallTypes'
  <2>1. /\ Answer(heard, [c \in heard |-> ScanReply(call[c].root)])
        /\ UNCHANGED <<inbox, batch, pc, call>>
        /\ scanned' \subseteq scanned \cup Clients
    BY DEF AdoptScans
  <2>2. \A c \in heard : replies[c] = 0
    BY DEF Placed, PlaceOf, ScanTypes
  <2> DEFINE v == [c \in heard |-> ScanReply(call[c].root)]
  <2>3. \A c \in heard : v[c] \in {"error", "rows"} BY DEF ScanReply
  <2> HIDE DEF heard, v
  <2>4. /\ replies' \in [Clients -> 0..2]
        /\ verdict' \in [Clients -> {"none", "error", "rows"}]
    BY <2>1, <2>2, <2>3, AnswerTypes DEF v
  <2>5. QED BY <2>1, <2>4 DEF CallTypes
<1>6. QED BY <1>2, <1>3, <1>4, <1>5, TypesFrames DEF AdoptScans

LEMMA AdoptTasksTypes ==
  ASSUME Types, AdoptTasks
  PROVE  Types'
<1> USE DEF Types
<1> DEFINE ended == {t \in Tasks : task[t] = "done"}
<1>1. FrameTypes' BY DEF AdoptTasks, FrameTypes
<1>2. ScanTypes'
  <2>1. CASE StartScans({projects[index[t]] : t \in ended})
    <3> DEFINE rs == {projects[index[t]] : t \in ended}
    <3> HIDE DEF rs
    <3>1. /\ scan' \in [Roots -> {"none", "queued", "read", "landed", "panicked"}]
          /\ found' \in [Roots -> 0..MaxVersion]
      BY <2>1, StartScansTypes DEF rs
    <3>2. QED BY <3>1 DEF AdoptTasks, ScanTypes
  <2>2. CASE UNCHANGED <<scan, found>> BY <2>2 DEF AdoptTasks, ScanTypes
  <2>3. QED BY <2>1, <2>2 DEF AdoptTasks
<1>3. TaskTypes' BY DEF AdoptTasks, TaskTypes
<1>4. QED BY <1>1, <1>2, <1>3, TypesFrames DEF AdoptTasks

LEMMA CreateDialogTypes ==
  ASSUME Types, ShowCreateDialog
  PROVE  Types'
<1> USE DEF Types
<1>1. FrameTypes' BY DEF ShowCreateDialog, FrameTypes
<1>2. CASE UNCHANGED <<task, target, scan, found>>
  BY <1>1, <1>2, TypesFrames DEF ShowCreateDialog, TaskTypes, ScanTypes, taskVars
<1>3. ASSUME NEW t \in OpenCreates, InRange(t), CreateDialogStep(t)
      PROVE  Types'
  <2>1. index[t] \in DOMAIN projects /\ t \in Tasks
    BY <1>3 DEF InRange, OpenCreates, Tasks
  <2>2. projects[index[t]] \in Roots BY <2>1, ListedMember
  <2>3. ASSUME StartScan(projects[index[t]]) PROVE ScanTypes'
    <3> DEFINE rs == {projects[index[t]]}
    <3>1. StartScans(rs) BY <2>3 DEF StartScan
    <3> HIDE DEF rs
    <3>2. /\ scan' \in [Roots -> {"none", "queued", "read", "landed", "panicked"}]
          /\ found' \in [Roots -> 0..MaxVersion]
      BY <3>1, StartScansTypes
    <3>3. QED BY <3>2 DEF ShowCreateDialog, ScanTypes
  <2>4. ASSUME UNCHANGED <<scan, found>> PROVE ScanTypes'
    BY <2>4 DEF ShowCreateDialog, ScanTypes
  <2>5. ScanTypes' BY <1>3, <2>3, <2>4 DEF CreateDialogStep
  <2>6. task' \in [Tasks -> {"none", "prompt", "watched", "landed", "result", "running",
                             "done", "over"}]
    BY <1>3 DEF CreateDialogStep, TaskTypes
  <2>7. target' \in [Tasks -> Roots \cup {NoRoot}]
    BY <1>3, <2>1, <2>2 DEF CreateDialogStep, TaskTypes
  <2>8. TaskTypes' BY <2>6, <2>7 DEF ShowCreateDialog, TaskTypes
  <2>9. QED BY <1>1, <2>5, <2>8, TypesFrames DEF ShowCreateDialog
<1>4. QED BY <1>2, <1>3 DEF ShowCreateDialog

LEMMA DeleteDialogTypes ==
  ASSUME Types, ShowDeleteDialog
  PROVE  Types'
<1> USE DEF Types
<1>1. FrameTypes' BY DEF ShowDeleteDialog, FrameTypes
<1>2. TaskTypes'
  <2>1. task' \in [Tasks -> {"none", "prompt", "watched", "landed", "result", "running",
                             "done", "over"}]
    BY DEF ShowDeleteDialog, TaskTypes
  <2>2. QED BY <2>1 DEF ShowDeleteDialog, TaskTypes
<1>3. QED BY <1>1, <1>2, TypesFrames DEF ShowDeleteDialog

LEMMA RequestTypes ==
  ASSUME Types, Placed, NEW c \in Clients,
         RefreshProject(c) \/ AddProject(c) \/ RemoveProject(c)
  PROVE  Types'
<1> USE DEF Types
<1> DEFINE r == call[c].root
<1>1. /\ Current(c) /\ call[c].kind # "none"
      /\ UNCHANGED <<frameVars, disk, inbox, pc, call, scanned, taskVars>>
  BY DEF RefreshProject, AddProject, RemoveProject
<1>2. r \in Roots BY <1>1, CallRoot
<1>3. /\ c \in Range(batch) /\ batch' \in Seq(Clients) /\ replies[c] = 0
  <2>1. c \in Range(batch) /\ batch' \in Seq(Clients)
    BY <1>1, CurrentTypes DEF Placed
  <2>2. QED BY <2>1 DEF Placed, PlaceOf
<1> HIDE DEF r
<1>4. CallTypes'
  <2>1. ASSUME NEW v, AnswerOne(c, v), v \in {"error", "rows"}
        PROVE  /\ replies' \in [Clients -> 0..2]
               /\ verdict' \in [Clients -> {"none", "error", "rows"}]
    <3> DEFINE f == [x \in {c} |-> v]
               cs == {c}
    <3>1. Answer(cs, f) /\ \A x \in cs : replies[x] = 0 /\ f[x] \in {"error", "rows"}
      BY <1>3, <2>1 DEF AnswerOne
    <3> HIDE DEF f, cs
    <3>2. QED BY <3>1, AnswerTypes
  <2>2. CASE UNCHANGED <<replies, verdict>> BY <1>1, <1>3, <2>2 DEF CallTypes
  <2>3. CASE AnswerOne(c, "error") \/ AnswerOne(c, "rows")
    BY <1>1, <1>3, <2>1, <2>3 DEF CallTypes
  <2>4. QED BY <2>2, <2>3 DEF RefreshProject, AddProject, RemoveProject, Park
<1>5. ASSUME Park(c) PROVE parked' \in [Roots -> SUBSET Clients]
  BY <1>1, <1>5, ParkTypes
<1>6. ASSUME StartScan(r)
      PROVE  /\ scan' \in [Roots -> {"none", "queued", "read", "landed", "panicked"}]
             /\ found' \in [Roots -> 0..MaxVersion]
  <2> DEFINE rs == {r}
  <2>1. StartScans(rs) BY <1>6 DEF StartScan
  <2> HIDE DEF rs
  <2>2. QED BY <2>1, StartScansTypes
<1>7. CASE RefreshProject(c)
  <2>1. ScanTypes'
    <3>1. CASE Listed(r)
      BY <1>5, <1>6, <1>7, <3>1 DEF RefreshProject, ScanTypes, r
    <3>2. CASE ~Listed(r) BY <1>7, <3>2 DEF RefreshProject, ScanTypes, r
    <3>3. QED BY <3>1, <3>2
  <2>2. QED BY <1>1, <1>4, <1>7, <2>1, TypesFrames DEF RefreshProject
<1>8. CASE AddProject(c)
  <2>1. CASE Listed(r)
    <3>1. ScanTypes' BY <1>5, <1>8, <2>1 DEF AddProject, ScanTypes, r
    <3>2. QED BY <1>1, <1>4, <1>8, <2>1, <3>1, TypesFrames DEF AddProject, r
  <2>2. CASE ~Listed(r)
    <3>1. InsertProject(r) /\ StartScan(r) /\ Park(c) /\ UNCHANGED activity
      BY <1>8, <2>2 DEF AddProject, r
    <3>2. ListTypes' BY <1>2, <2>2, <3>1, InsertTypes
    <3>3. ScanTypes' BY <1>5, <1>6, <3>1 DEF ScanTypes
    <3>4. QED BY <1>1, <1>4, <3>2, <3>3, TypesFrames
  <2>3. QED BY <2>1, <2>2
<1>9. CASE RemoveProject(c)
  <2>1. CASE Listed(r)
    <3>1. DropProject(r) /\ UNCHANGED <<scan, found, parked>>
      BY <1>9, <2>1 DEF RemoveProject, r
    <3>2. ListTypes' /\ activity' \in [running : BOOLEAN, waits : SUBSET Roots]
      BY <3>1, DropTypes
    <3>3. ScanTypes' BY <3>1, <3>2 DEF ScanTypes
    <3>4. QED BY <1>1, <1>4, <3>2, <3>3, TypesFrames
  <2>2. CASE ~Listed(r)
    <3>1. UNCHANGED listVars /\ UNCHANGED scanVars
      BY <1>9, <2>2 DEF RemoveProject, r, scanVars
    <3>2. QED BY <1>1, <1>4, <3>1, TypesFrames
  <2>3. QED BY <2>1, <2>2
<1>10. QED BY <1>7, <1>8, <1>9

LEMMA UserTypes ==
  ASSUME Types, User
  PROVE  Types'
<1> USE DEF Types
<1>1. ASSUME NEW rs, StartScans(rs)
      PROVE  /\ scan' \in [Roots -> {"none", "queued", "read", "landed", "panicked"}]
             /\ found' \in [Roots -> 0..MaxVersion]
  BY <1>1, StartScansTypes
<1>2. CASE UserRefreshes
  <2> DEFINE all == Range(projects)
  <2>1. all \subseteq Roots BY DEF ListTypes, Range
  <2> HIDE DEF all
  <2>2. /\ StartScans(all) /\ UNCHANGED parked
        /\ activity' = [running |-> TRUE, waits |-> activity.waits \cup all]
    BY <1>2 DEF UserRefreshes, all
  <2>3. ScanTypes' BY <1>1, <2>1, <2>2 DEF ScanTypes
  <2>4. FrameTypes' BY <1>2 DEF UserRefreshes, FrameTypes
  <2>5. QED BY <1>2, <2>3, <2>4, TypesFrames DEF UserRefreshes
<1>3. ASSUME NEW r \in Roots, UserAdds(r) PROVE Types'
  <2>1. ListTypes' BY <1>3, InsertTypes DEF UserAdds
  <2>2. ScanTypes' BY <1>1, <1>3 DEF UserAdds, StartScan, ScanTypes
  <2>3. QED BY <1>3, <2>1, <2>2, TypesFrames DEF UserAdds
<1>4. ASSUME NEW r \in Roots, UserRemoves(r) PROVE Types'
  <2>1. ListTypes' /\ activity' \in [running : BOOLEAN, waits : SUBSET Roots]
    BY <1>4, DropTypes DEF UserRemoves
  <2>2. ScanTypes' BY <1>4, <2>1 DEF UserRemoves, ScanTypes
  <2>3. QED BY <1>4, <2>1, <2>2, TypesFrames DEF UserRemoves
<1>5. ASSUME NEW i \in Places, NEW j \in Places, UserMoves(i, j) PROVE Types'
  <2>1. projects \in Seq(Roots) /\ IsInjective(projects)
        /\ i \in DOMAIN projects /\ j \in DOMAIN projects
    BY <1>5 DEF ListTypes, UserMoves
  <2>2. /\ InsertAt(RemoveAt(projects, i), j, projects[i]) \in Seq(Roots)
        /\ IsInjective(InsertAt(RemoveAt(projects, i), j, projects[i]))
    BY <2>1, InjectiveMove
  <2>3. ListTypes' BY <1>5, <2>2 DEF ListTypes, UserMoves
  <2>4. QED BY <1>5, <2>3, TypesFrames DEF UserMoves
<1>6. ASSUME NEW t \in Tasks, NEW i \in Places, UserOpens(t, i) PROVE Types'
  <2>1. projects[i] \in Roots BY <1>6, ListedMember DEF UserOpens
  <2>2. TaskTypes' BY <1>6, <2>1 DEF TaskTypes, UserOpens
  <2>3. QED BY <1>6, <2>2, TypesFrames DEF UserOpens
<1>7. QED BY <1>2, <1>3, <1>4, <1>5, <1>6 DEF User

LEMMA TypesStep ==
  ASSUME Types, Placed, Next
  PROVE  Types'
<1>1. CASE FrameStarts
  BY <1>1, TypesFrames DEF Types, FrameStarts, FrameTypes
<1>2. CASE CollectCalls
  BY <1>2, TypesFrames DEF Types, CollectCalls, FrameTypes, CallTypes
<1>3. CASE PaintStarts
  BY <1>3, TypesFrames DEF Types, PaintStarts, FrameTypes
<1>4. CASE Frame
  BY <1>2, <1>3, <1>4, AdoptScansTypes, AdoptTasksTypes, CreateDialogTypes, DeleteDialogTypes,
     RequestTypes DEF Frame, Requests
<1>5. QED
  BY <1>1, <1>4, ConnectionTypes, WorkerTypes, UserTypes, WorldTypes DEF Next

-----------------------------------------------------------------------------
(* Where the calls are.                                                    *)

(* A scan that runs is not taken from under those parked on it.            *)
ScansKept == \A r \in Roots : scan[r] # "none" => scan'[r] # "none"

LEMMA PlacedInit == Init => Placed
<1> SUFFICES ASSUME Init PROVE Placed OBVIOUS
<1>1. Range(<<>>) = {} /\ IsInjective(<<>>) BY DEF Range, IsInjective
<1>2. ASSUME NEW c \in Clients PROVE PlaceOf(c)
  BY <1>1 DEF Init, PlaceOf, IsParked, NoCall
<1>3. QED BY <1>1, <1>2 DEF Init, Placed

(* A step that leaves every call where it is.                              *)
LEMMA QuietPlaced ==
  ASSUME Placed, ScansKept,
         UNCHANGED <<parked, inbox, batch, call, replies, verdict, scanned>>,
         \A c \in Clients : pc'[c] = "idle" => pc[c] = "idle",
         ui' # "calls" => ui # "calls" \/ batch = <<>>
  PROVE  Placed'
<1>1. ASSUME NEW c \in Clients PROVE PlaceOf(c)'
  <2>1. PlaceOf(c) BY DEF Placed
  <2>2. IsParked(c)' = IsParked(c) BY DEF IsParked
  <2>3. QED BY <2>1, <2>2 DEF PlaceOf, ScansKept
<1>2. QED BY <1>1 DEF Placed

LEMMA StartKeeps ==
  ASSUME ScanTypes, NEW rs, StartScans(rs)
  PROVE  ScansKept
BY StartScansTypes DEF ScansKept

LEMMA SendPlaced ==
  ASSUME Types, Placed, NEW c \in Clients, NEW q \in Calls, Send(c, q)
  PROVE  Placed'
<1>1. inbox \in Seq(Clients) /\ IsInjective(inbox) /\ c \notin Range(inbox)
  BY DEF Types, CallTypes, Placed, PlaceOf, Send
<1>2. /\ IsInjective(Append(inbox, c))
      /\ Range(Append(inbox, c)) = Range(inbox) \cup {c}
  BY <1>1, InjectiveAppend
<1>3. inbox' = Append(inbox, c) /\ Range(inbox)' = Range(inbox) \cup {c}
  BY <1>2 DEF Send
<1>4. ASSUME NEW d \in Clients PROVE PlaceOf(d)'
  <2>1. PlaceOf(d) BY DEF Placed
  <2>2. /\ UNCHANGED <<batch, replies, verdict, scanned, parked, scan>>
        /\ pc[c] = "idle" /\ pc' = [pc EXCEPT ![c] = "sending"]
        /\ call' = [call EXCEPT ![c] = q]
    BY DEF Send, scanVars
  <2>3. IsParked(d)' = IsParked(d) BY <2>2 DEF IsParked
  <2>4. CASE d = c
    <3>1. pc'[d] = "sending" BY <2>2, <2>4 DEF Types, CallTypes
    <3>2. replies[d] = 0 /\ verdict[d] = "none" /\ ~IsParked(d) /\ d \notin Range(batch)
      BY <2>1, <2>2, <2>4 DEF PlaceOf
    <3>3. QED BY <2>2, <2>3, <3>1, <3>2 DEF PlaceOf, IsParked
  <2>5. CASE d # c
    <3>1. pc'[d] = pc[d] /\ call'[d] = call[d] BY <2>2, <2>5 DEF Types, CallTypes
    <3>2. d \in Range(inbox)' <=> d \in Range(inbox) BY <1>3, <2>5
    <3>3. QED BY <2>1, <2>2, <2>3, <3>1, <3>2 DEF PlaceOf
  <2>6. QED BY <2>4, <2>5
<1>5. QED BY <1>2, <1>3, <1>4 DEF Placed, Send, frameVars

LEMMA CollectPlaced ==
  ASSUME Types, Placed, CollectCalls
  PROVE  Placed'
<1>1. /\ batch = <<>> /\ batch' = inbox /\ inbox' = <<>> /\ ui' = "calls"
      /\ UNCHANGED <<parked, scan, pc, call, replies, verdict, scanned>>
  BY DEF Placed, CollectCalls, scanVars
<1>2. Range(<<>>) = {} /\ IsInjective(<<>>) BY DEF Range, IsInjective
<1>3. Range(inbox)' = {} /\ Range(batch)' = Range(inbox) BY <1>1, <1>2
<1>4. ASSUME NEW c \in Clients PROVE PlaceOf(c)'
  <2>1. PlaceOf(c) BY DEF Placed
  <2>2. IsParked(c)' = IsParked(c) BY <1>1 DEF IsParked
  <2>3. QED BY <1>1, <1>3, <2>1, <2>2 DEF PlaceOf
<1>5. QED BY <1>1, <1>2, <1>4 DEF Placed

LEMMA AdoptPlaced ==
  ASSUME Types, Placed, AdoptScans
  PROVE  Placed'
<1> DEFINE ended == {r \in Roots : Ended(r)}
           heard == UNION {parked[r] : r \in ended}
           v == [c \in heard |-> ScanReply(call[c].root)]
           scanned2 == scanned \cup
               {c \in Clients : call[c].root \in ended /\ c \notin Range(inbox) \cup Range(batch)}
<1>1. /\ UNCHANGED <<inbox, batch, pc, call>>
      /\ scan' = [r \in Roots |-> IF r \in ended THEN "none" ELSE scan[r]]
      /\ parked' = [r \in Roots |-> IF r \in ended THEN {} ELSE parked[r]]
      /\ Answer(heard, v) /\ scanned' = scanned2
      /\ ui = "polls" /\ ui' = "tasks"
  BY DEF AdoptScans, Unparked
<1>2. ended \subseteq Roots OBVIOUS
<1> HIDE DEF ended, v
<1>3. ASSUME NEW c \in Clients PROVE PlaceOf(c)'
  <2>1. PlaceOf(c) BY DEF Placed
  <2>2. IsParked(c)' => IsParked(c) BY <1>1 DEF IsParked
  <2>3. /\ replies' = [x \in Clients |-> IF x \in heard THEN replies[x] + 1 ELSE replies[x]]
        /\ verdict' = [x \in Clients |-> IF x \in heard THEN v[x] ELSE verdict[x]]
    BY <1>1 DEF Answer
  <2>4. CASE c \in heard
    <3>1. PICK r \in ended : c \in parked[r] BY <2>4
    <3>2. /\ replies[c] = 0 /\ call[c].root = r /\ pc[c] # "idle"
          /\ c \notin Range(inbox) /\ c \notin Range(batch)
      BY <1>2, <2>1, <3>1 DEF PlaceOf, IsParked
    <3>3. replies'[c] = 1 BY <2>3, <2>4, <3>2
    <3>4. c \in scanned' BY <1>1, <3>1, <3>2
    <3>5. ~IsParked(c)'
      <4>1. SUFFICES ASSUME NEW s \in Roots, c \in parked'[s] PROVE FALSE BY DEF IsParked
      <4>2. s \notin ended /\ c \in parked[s] BY <1>1, <4>1
      <4>3. call[c].root = s BY <2>1, <4>2 DEF PlaceOf
      <4>4. QED BY <3>1, <3>2, <4>2, <4>3
    <3> HIDE DEF heard, scanned2
    <3>6. QED BY <1>1, <3>2, <3>3, <3>4, <3>5 DEF PlaceOf, IsParked
  <2>5. CASE c \notin heard
    <3>1. replies'[c] = replies[c] /\ verdict'[c] = verdict[c] BY <2>3, <2>5
    <3>2. c \in scanned => c \in scanned' BY <1>1
    <3>3. \A r \in Roots : c \in parked'[r] => c \in parked[r] /\ scan'[r] = scan[r] BY <1>1
    <3> HIDE DEF heard, scanned2
    <3>4. QED BY <1>1, <2>1, <2>2, <3>1, <3>2, <3>3 DEF PlaceOf
  <2>6. QED BY <2>4, <2>5
<1>4. QED BY <1>1, <1>3 DEF Placed

LEMMA RequestPlaced ==
  ASSUME Types, Placed, NEW c \in Clients,
         RefreshProject(c) \/ AddProject(c) \/ RemoveProject(c)
  PROVE  Placed'
<1> DEFINE r == call[c].root
<1>1. /\ Current(c) /\ call[c].kind # "none"
      /\ UNCHANGED <<frameVars, inbox, pc, call, scanned>>
  BY DEF RefreshProject, AddProject, RemoveProject
<1>2. r \in Roots BY <1>1, CallRoot DEF Types
<1> HIDE DEF r
<1>3. /\ c \in Range(batch) /\ IsInjective(batch')
      /\ Range(batch)' = Range(batch) \ {c}
  BY <1>1, CurrentTypes DEF Types, Placed, Range
<1>4. replies[c] = 0 /\ ~IsParked(c) /\ c \notin Range(inbox) /\ pc[c] # "idle"
  BY <1>3 DEF Placed, PlaceOf
<1>5. ScansKept
  <2>1. ASSUME StartScan(r) PROVE ScansKept BY <2>1, StartKeeps DEF Types, StartScan
  <2>2. QED BY <2>1 DEF ScansKept, RefreshProject, AddProject, RemoveProject, r
(* It is answered, or parked on a scan that runs.                          *)
<1>6. \/ /\ UNCHANGED parked
         /\ \/ AnswerOne(c, "error")
            \/ AnswerOne(c, "rows") /\ call[c].kind # "refresh"
      \/ Park(c) /\ scan'[r] # "none"
  <2>1. ASSUME StartScan(r) PROVE scan'[r] # "none"
    <3> DEFINE rs == {r}
    <3>1. StartScans(rs) /\ r \in rs BY <2>1 DEF StartScan
    <3> HIDE DEF rs
    <3>2. QED BY <1>2, <3>1, StartScansTypes DEF Types
  <2>2. CASE RefreshProject(c) BY <2>1, <2>2 DEF RefreshProject, r
  <2>3. CASE AddProject(c) BY <2>1, <2>3 DEF AddProject, r
  <2>4. CASE RemoveProject(c) BY <2>4 DEF RemoveProject, r
  <2>5. QED BY <2>2, <2>3, <2>4
<1>7. ASSUME NEW d \in Clients, d # c PROVE PlaceOf(d)'
  <2>1. PlaceOf(d) BY DEF Placed
  <2>2. replies'[d] = replies[d] /\ verdict'[d] = verdict[d]
    BY <1>6, <1>7 DEF AnswerOne, Answer, Park
  <2>3. \A s \in Roots : d \in parked'[s] <=> d \in parked[s]
    BY <1>2, <1>6, <1>7 DEF Park, r, Types, ScanTypes
  <2>4. d \in Range(batch)' <=> d \in Range(batch) BY <1>3, <1>7
  <2>5. IsParked(d)' <=> IsParked(d) BY <2>3 DEF IsParked
  <2>6. QED BY <1>1, <1>5, <2>1, <2>2, <2>3, <2>4, <2>5 DEF PlaceOf, ScansKept
<1>8. PlaceOf(c)'
  <2>1. PlaceOf(c) BY DEF Placed
  <2>2. c \notin Range(batch)' BY <1>3
  <2>3. pc'[c] # "idle" /\ c \notin Range(inbox)' BY <1>1, <1>4
  <2>4. CASE /\ UNCHANGED parked
             /\ \/ AnswerOne(c, "error")
                \/ AnswerOne(c, "rows") /\ call[c].kind # "refresh"
    <3>1. replies'[c] = 1 /\ (verdict'[c] = "rows" => call'[c].kind # "refresh")
      BY <1>1, <1>4, <2>4 DEF AnswerOne, Answer
    <3>2. ~IsParked(c)' BY <1>4, <2>4 DEF IsParked
    <3>3. QED BY <2>2, <2>3, <3>1, <3>2 DEF PlaceOf, IsParked
  <2>5. CASE Park(c) /\ scan'[r] # "none"
    <3>1. UNCHANGED <<replies, verdict>> BY <2>5 DEF Park
    <3>2. \A s \in Roots : c \in parked'[s] => s = r
      BY <1>2, <1>4, <2>5 DEF Park, r, IsParked, Types, ScanTypes
    <3>3. QED BY <1>1, <1>4, <2>1, <2>2, <2>3, <2>5, <3>1, <3>2 DEF PlaceOf, r
  <2>6. QED BY <1>6, <2>4, <2>5
<1>9. ui' = "calls" /\ inbox' = inbox BY <1>1 DEF Current, frameVars
<1>10. QED BY <1>3, <1>7, <1>8, <1>9 DEF Placed

LEMMA PlacedStep ==
  ASSUME Types, Placed, Next
  PROVE  Placed'
<1> USE DEF Types
<1>1. ASSUME NEW c \in Clients, Connection(c) PROVE Placed'
  <2>1. ASSUME NEW q \in Calls, Send(c, q) PROVE Placed' BY <2>1, SendPlaced
  <2>2. CASE Wake(c) \/ Receive(c) \/ GiveUp(c)
    <3>1. \A d \in Clients : pc'[d] = "idle" => pc[d] = "idle"
      BY <2>2 DEF Wake, Receive, GiveUp, CallTypes
    <3>2. QED
      BY <2>2, <3>1, QuietPlaced DEF Wake, Receive, GiveUp, scanVars, frameVars, ScansKept
  <2>3. QED BY <1>1, <2>1, <2>2 DEF Connection
<1>2. ASSUME NEW r \in Roots, Worker(r) PROVE Placed'
  <2>1. ScansKept BY <1>2 DEF ScansKept, Worker, ScanReads, ScanEnds, ScanTypes
  <2>2. QED BY <1>2, <2>1, QuietPlaced DEF Worker, ScanReads, ScanEnds, callVars, frameVars
<1>3. CASE FrameStarts
  BY <1>3, QuietPlaced DEF FrameStarts, callVars, scanVars, ScansKept
<1>4. CASE AdoptTasks
  <2>1. ScansKept BY <1>4, StartKeeps DEF AdoptTasks, ScansKept
  <2>2. QED BY <1>4, <2>1, QuietPlaced DEF AdoptTasks, callVars
<1>5. CASE PaintStarts
  BY <1>5, QuietPlaced DEF PaintStarts, callVars, scanVars, ScansKept
<1>6. CASE ShowCreateDialog
  <2>1. ScansKept
    BY <1>6, StartKeeps DEF ShowCreateDialog, CreateDialogStep, StartScan, ScansKept
  <2>2. QED BY <1>6, <2>1, QuietPlaced DEF ShowCreateDialog, callVars
<1>7. CASE ShowDeleteDialog
  BY <1>7, QuietPlaced DEF ShowDeleteDialog, callVars, scanVars, ScansKept
<1>8. CASE Frame
  BY <1>4, <1>5, <1>6, <1>7, <1>8, AdoptPlaced, CollectPlaced, RequestPlaced
     DEF Frame, Requests
<1>9. CASE User
  <2>1. ScansKept
    BY <1>9, StartKeeps DEF User, UserRefreshes, UserAdds, UserRemoves, UserMoves, UserOpens,
                            StartScan, scanVars, ScansKept
  <2>2. /\ UNCHANGED callVars /\ UNCHANGED <<ui, parked>>
    BY <1>9 DEF User, UserRefreshes, UserAdds, UserRemoves, UserMoves, UserOpens,
                scanVars, frameVars
  <2>3. QED BY <2>1, <2>2, QuietPlaced DEF callVars
<1>10. CASE World
  <2>1. UNCHANGED <<callVars, scanVars, ui>>
    BY <1>10 DEF World, RepositoryChanges, TaskEnds, frameVars
  <2>2. QED BY <2>1, QuietPlaced DEF callVars, scanVars, ScansKept
<1>11. QED BY <1>1, <1>2, <1>3, <1>8, <1>9, <1>10 DEF Next

-----------------------------------------------------------------------------
(* How old the rows are.                                                   *)

(* What a step does to the rows of a root, its scan and its repository.    *)
Kept(r) == /\ shown'[r] = shown[r] /\ found'[r] = found[r] /\ disk'[r] >= disk[r]
           /\ scan'[r] \in {"read", "landed"} => scan[r] = scan'[r]

Read(r) == shown'[r] = shown[r] /\ disk'[r] = disk[r] /\ found'[r] = disk[r]

EndedScan(r) == /\ shown'[r] = shown[r] /\ disk'[r] = disk[r]
                /\ scan[r] = "read" /\ found'[r] \in {0, found[r]}

Adopted(r) == /\ disk'[r] = disk[r] /\ scan'[r] = "none" /\ found'[r] = 0
              /\ \/ shown'[r] = shown[r]
                 \/ shown'[r] = found[r] /\ found[r] # 0 /\ scan[r] = "landed"

Inserted(r) == /\ ~Listed(r) /\ shown'[r] = 0
               /\ disk'[r] = disk[r] /\ found'[r] = found[r]

RowMoves(r) == Kept(r) \/ Read(r) \/ EndedScan(r) \/ Adopted(r) \/ Inserted(r)

LEMMA FreshInit == Init => Fresh
BY ProjectsAssumption DEF Init, Fresh, FreshOf, ProjectsAssumption

LEMMA RowTypes ==
  ASSUME Types, NEW r \in Roots
  PROVE  shown[r] \in Nat /\ disk[r] \in Nat /\ found[r] \in Nat
BY DEF Types, ListTypes, DiskTypes, ScanTypes, Versions

LEMMA UnmovedRows ==
  ASSUME Types, UNCHANGED <<shown, disk>>, NEW r \in Roots,
         (\E rs : StartScans(rs)) \/ UNCHANGED <<scan, found>>
  PROVE  Kept(r)
<1>1. disk[r] >= disk[r] BY RowTypes
<1>2. CASE UNCHANGED <<scan, found>> BY <1>1, <1>2 DEF Kept
<1>3. ASSUME NEW rs, StartScans(rs) PROVE Kept(r)
  <2>1. /\ scan[r] # "none" => scan'[r] = scan[r]
        /\ scan[r] = "none" => scan'[r] \in {"none", "queued"}
    BY <1>3, StartScansTypes DEF Types
  <2>2. QED BY <1>1, <1>3, <2>1 DEF StartScans, Kept
<1>4. QED BY <1>2, <1>3

LEMMA InsertedRows ==
  ASSUME Types, NEW s \in Roots, ~Listed(s), InsertProject(s), StartScan(s), UNCHANGED disk,
         NEW r \in Roots
  PROVE  Kept(r) \/ Inserted(r)
<1>1. found' = found BY DEF StartScan, StartScans
<1>2. CASE r = s
  <2>1. shown'[r] = 0 BY <1>2 DEF InsertProject, Types, ListTypes
  <2>2. QED BY <1>1, <1>2, <2>1 DEF Inserted
<1>3. CASE r # s
  <2>1. shown'[r] = shown[r] BY <1>3, InsertTypes DEF Types
  <2>2. /\ scan[r] # "none" => scan'[r] = scan[r]
        /\ scan[r] = "none" => scan'[r] \in {"none", "queued"}
    BY StartScansTypes DEF Types, StartScan
  <2>3. disk[r] >= disk[r] BY RowTypes
  <2>4. QED BY <1>1, <2>1, <2>2, <2>3 DEF Kept
<1>4. QED BY <1>2, <1>3

LEMMA RowMovesStep ==
  ASSUME Types, Next, NEW r \in Roots
  PROVE  RowMoves(r)
<1>1. ASSUME NEW c \in Clients, Connection(c) PROVE Kept(r)
  BY <1>1, UnmovedRows DEF Connection, Send, Wake, Receive, GiveUp, listVars, scanVars
<1>2. ASSUME NEW s \in Roots, Worker(s) PROVE RowMoves(r)
  <2>1. CASE r # s
    <3>1. /\ scan'[r] = scan[r] /\ found'[r] = found[r]
          /\ UNCHANGED <<shown, disk>>
      BY <1>2, <2>1 DEF Worker, ScanReads, ScanEnds, listVars, Types, ScanTypes
    <3>2. disk[r] >= disk[r] BY RowTypes
    <3>3. QED BY <3>1, <3>2 DEF RowMoves, Kept
  <2>2. CASE r = s /\ ScanReads(s)
    <3>1. found'[r] = disk[r] /\ UNCHANGED <<shown, disk>>
      BY <2>2 DEF ScanReads, listVars, Types, ScanTypes
    <3>2. QED BY <3>1 DEF RowMoves, Read
  <2>3. ASSUME NEW outcome, r = s, ScanEnds(s, outcome) PROVE RowMoves(r)
    <3>1. found'[r] \in {0, found[r]} /\ UNCHANGED <<shown, disk>> /\ scan[r] = "read"
      BY <2>3 DEF ScanEnds, listVars, Types, ScanTypes
    <3>2. QED BY <3>1 DEF RowMoves, EndedScan
  <2>4. QED BY <1>2, <2>1, <2>2, <2>3 DEF Worker
<1>3. CASE AdoptScans
  <2> DEFINE ended == {x \in Roots : Ended(x)}
  <2>1. /\ UNCHANGED disk /\ shown' = ShownAfter(ended)
        /\ scan' = [x \in Roots |-> IF x \in ended THEN "none" ELSE scan[x]]
        /\ found' = [x \in Roots |-> IF x \in ended THEN 0 ELSE found[x]]
    BY <1>3 DEF AdoptScans
  <2> HIDE DEF ended
  <2>2. shown'[r] = IF r \in ended /\ Listed(r) /\ scan[r] = "landed" /\ found[r] # 0
                    THEN found[r] ELSE shown[r]
    BY <2>1 DEF ShownAfter
  <2>3. CASE r \in ended BY <2>1, <2>2, <2>3 DEF RowMoves, Adopted
  <2>4. CASE r \notin ended
    <3>1. disk[r] >= disk[r] BY RowTypes
    <3>2. QED BY <2>1, <2>2, <2>4, <3>1 DEF RowMoves, Kept
  <2>5. QED BY <2>3, <2>4
<1>4. ASSUME NEW c \in Clients, RefreshProject(c) \/ AddProject(c) \/ RemoveProject(c)
      PROVE  RowMoves(r)
  <2> DEFINE s == call[c].root
  <2>1. CASE RefreshProject(c) \/ RemoveProject(c)
    <3>1. UNCHANGED <<shown, disk>> /\ (StartScan(s) \/ UNCHANGED <<scan, found>>)
      BY <2>1 DEF RefreshProject, RemoveProject, DropProject, listVars
    <3>2. QED BY <3>1, UnmovedRows DEF StartScan, RowMoves
  <2>2. CASE AddProject(c)
    <3>1. s \in Roots BY <2>2, CallRoot DEF Types, AddProject
    <3>2. UNCHANGED disk BY <2>2 DEF AddProject
    <3>3. CASE Listed(s)
      <4>1. UNCHANGED <<shown, disk, scan, found>>
        BY <2>2, <3>2, <3>3 DEF AddProject, listVars
      <4>2. QED BY <4>1, UnmovedRows DEF RowMoves
    <3>4. CASE ~Listed(s)
      <4>1. InsertProject(s) /\ StartScan(s) BY <2>2, <3>4 DEF AddProject
      <4> HIDE DEF s
      <4>2. QED BY <3>1, <3>2, <3>4, <4>1, InsertedRows DEF RowMoves
    <3>5. QED BY <3>3, <3>4
  <2>3. QED BY <1>4, <2>1, <2>2
<1>5. CASE \/ FrameStarts \/ AdoptTasks \/ CollectCalls \/ PaintStarts
           \/ ShowCreateDialog \/ ShowDeleteDialog
  <2>1. UNCHANGED <<shown, disk>>
    BY <1>5 DEF FrameStarts, AdoptTasks, CollectCalls, PaintStarts, ShowCreateDialog,
                ShowDeleteDialog, listVars
  <2>2. (\E rs : StartScans(rs)) \/ UNCHANGED <<scan, found>>
    BY <1>5 DEF FrameStarts, AdoptTasks, CollectCalls, PaintStarts, ShowCreateDialog,
                CreateDialogStep, StartScan, ShowDeleteDialog, scanVars
  <2>3. QED BY <2>1, <2>2, UnmovedRows DEF RowMoves
<1>6. CASE User
  <2>1. ASSUME NEW s \in Roots, UserAdds(s) PROVE RowMoves(r)
    BY <2>1, InsertedRows DEF UserAdds, RowMoves
  <2>2. CASE \/ UserRefreshes \/ \E s \in Roots : UserRemoves(s)
             \/ \E i, j \in Places : UserMoves(i, j)
             \/ \E t \in Tasks, i \in Places : UserOpens(t, i)
    <3>1. UNCHANGED <<shown, disk>>
      BY <2>2 DEF UserRefreshes, UserRemoves, UserMoves, UserOpens, DropProject, listVars
    <3>2. (\E rs : StartScans(rs)) \/ UNCHANGED <<scan, found>>
      BY <2>2 DEF UserRefreshes, UserRemoves, UserMoves, UserOpens, scanVars
    <3>3. QED BY <3>1, <3>2, UnmovedRows DEF RowMoves
  <2>3. QED BY <1>6, <2>1, <2>2 DEF User
<1>7. CASE World
  <2>1. UNCHANGED <<shown, scan, found>>
    BY <1>7 DEF World, RepositoryChanges, TaskEnds, listVars, scanVars
  <2>2. disk'[r] >= disk[r]
    <3>1. disk[r] \in Nat BY RowTypes
    <3>2. ASSUME NEW s, disk' = [disk EXCEPT ![s] = @ + 1] PROVE disk'[r] >= disk[r]
      BY <3>1, <3>2 DEF Types, DiskTypes
    <3>3. QED BY <1>7, <3>1, <3>2 DEF World, RepositoryChanges, TaskEnds
  <2>3. QED BY <2>1, <2>2 DEF RowMoves, Kept
<1>8. QED
  BY <1>1, <1>2, <1>3, <1>4, <1>5, <1>6, <1>7 DEF Next, Frame, Requests, RowMoves

LEMMA FreshStep ==
  ASSUME Types, Types', Fresh, Next
  PROVE  Fresh'
<1> SUFFICES ASSUME NEW r \in Roots PROVE FreshOf(r)' BY DEF Fresh
<1>1. RowMoves(r) /\ FreshOf(r) BY RowMovesStep DEF Fresh
<1>2. shown[r] \in Nat /\ disk[r] \in Nat /\ found[r] \in Nat BY RowTypes
<1>3. shown'[r] \in Nat /\ disk'[r] \in Nat /\ found'[r] \in Nat
  BY DEF Types, ListTypes, DiskTypes, ScanTypes, Versions
<1>4. QED
  BY <1>1, <1>2, <1>3 DEF RowMoves, Kept, Read, EndedScan, Adopted, Inserted, FreshOf

-----------------------------------------------------------------------------
(* The theorems.                                                           *)

IInv == Types /\ Placed /\ Fresh

LEMMA Stutters ==
  ASSUME IInv, UNCHANGED vars
  PROVE  IInv'
<1>1. Types'
  BY DEF IInv, Types, vars, FrameTypes, ListTypes, DiskTypes, ScanTypes, CallTypes, TaskTypes,
         frameVars, listVars, scanVars, callVars, taskVars
<1>2. Placed'
  BY QuietPlaced DEF IInv, vars, frameVars, scanVars, callVars, ScansKept
<1>3. Fresh'
  BY DEF IInv, Fresh, FreshOf, vars, listVars, scanVars
<1>4. QED BY <1>1, <1>2, <1>3 DEF IInv

(* Every call is in one place and answered at most once, and no rows are   *)
(* newer than what a scan of their root has read (poll_project_refreshes,  *)
(* InFlight, Project::apply).                                              *)
THEOREM Inductive == Spec => []IInv
<1>1. Init => IInv BY TypesInit, PlacedInit, FreshInit DEF IInv
<1>2. IInv /\ [Next]_vars => IInv'
  <2>1. ASSUME IInv, Next PROVE IInv'
    BY <2>1, TypesStep, PlacedStep, FreshStep DEF IInv
  <2>2. QED BY <2>1, Stutters
<1>3. QED BY <1>1, <1>2, PTL DEF Spec

(* The types, and no call is answered twice, whichever of the frame, the   *)
(* scan's adoption and the timeout comes first (Waiters, call_app).        *)
THEOREM ProjectsInvariant == Spec => []Inv
<1>1. IInv => Inv
  <2>1. ASSUME IInv PROVE TypeOK
    BY <2>1 DEF IInv, Types, TypeOK, FrameTypes, ListTypes, DiskTypes, ScanTypes, CallTypes,
                TaskTypes
  <2>2. ASSUME IInv PROVE AnsweredOnce BY <2>2 DEF IInv, Placed, PlaceOf, AnsweredOnce
  <2>3. QED BY <2>1, <2>2 DEF Inv
<1>2. QED BY <1>1, Inductive, PTL

(* Rows in answer to a refresh come only after a scan of the root was      *)
(* adopted while the call was already taken: never from the rows at hand   *)
(* when it came (defer_project_refresh, poll_project_refreshes).           *)
THEOREM RefreshAnsweredFromScan == Spec => []AnsweredFromScan
<1>1. IInv => AnsweredFromScan BY DEF IInv, Placed, PlaceOf, AnsweredFromScan
<1>2. QED BY <1>1, Inductive, PTL

(* A listed project's rows never go back to an older state of its          *)
(* repository: a scan's result replaces only rows older than what it read, *)
(* and a failed one replaces nothing (Project::apply).                     *)
THEOREM RowsOnlyNewer == Spec => RowsNeverGoBack
<1> DEFINE Row == \A r \in Roots : Listed(r) /\ Listed(r)' => shown'[r] >= shown[r]
<1>1. IInv /\ [Next]_vars => [Row]_vars
  <2>1. SUFFICES ASSUME IInv, Next PROVE Row OBVIOUS
  <2>2. SUFFICES ASSUME NEW r \in Roots, Listed(r) PROVE shown'[r] >= shown[r] OBVIOUS
  <2>3. RowMoves(r) /\ FreshOf(r) BY <2>1, RowMovesStep DEF IInv, Fresh
  <2>4. shown[r] \in Nat /\ disk[r] \in Nat /\ found[r] \in Nat BY <2>1, RowTypes DEF IInv
  <2>5. QED
    BY <2>2, <2>3, <2>4 DEF RowMoves, Kept, Read, EndedScan, Adopted, Inserted, FreshOf
<1>2. QED BY <1>1, Inductive, PTL DEF Spec, RowsNeverGoBack
=============================================================================
