----------------------------- MODULE ViewsProofs -----------------------------
(***************************************************************************)
(* Theorems of Views, for any number of sessions and operations, any       *)
(* settings and any layout a window starts with.                           *)
(***************************************************************************)
EXTENDS Views, SelectionLemmas

Lists == Seq(Sessions)

-----------------------------------------------------------------------------
(* The session list.                                                       *)

LEMMA IdsOfIs ==
  ASSUME NEW list \in Lists
  PROVE  /\ IdsOf(list) \in Seq(Ids) /\ Len(IdsOf(list)) = Len(list)
         /\ DOMAIN IdsOf(list) = 1..Len(list)
         /\ \A i \in 1..Len(list) : IdsOf(list)[i] = list[i].id
<1>1. /\ Len(list) \in Nat /\ DOMAIN list = 1..Len(list)
      /\ \A i \in 1..Len(list) : list[i] \in Sessions
  BY DEF Lists
<1>2. \A i \in 1..Len(list) : list[i].id \in Ids BY <1>1 DEF Sessions
<1>3. QED BY <1>1, <1>2 DEF IdsOf

LEMMA IdsOfConcat ==
  ASSUME NEW p \in Lists, NEW q \in Lists
  PROVE  IdsOf(p \o q) = IdsOf(p) \o IdsOf(q)
<1>1. p \o q \in Lists /\ Len(p \o q) = Len(p) + Len(q) BY DEF Lists
<1>2. /\ \A i \in 1..Len(p) : (p \o q)[i] = p[i]
      /\ \A i \in (Len(p) + 1)..(Len(p) + Len(q)) : (p \o q)[i] = q[i - Len(p)]
  BY DEF Lists
<1>3. Len(p) \in Nat /\ Len(q) \in Nat BY DEF Lists
<1> DEFINE a == IdsOf(p \o q)
           b == IdsOf(p) \o IdsOf(q)
<1>4. a \in Seq(Ids) /\ b \in Seq(Ids) /\ Len(a) = Len(p) + Len(q) /\ Len(b) = Len(a)
  <2>1. IdsOf(p) \in Seq(Ids) /\ IdsOf(q) \in Seq(Ids) /\ IdsOf(p \o q) \in Seq(Ids)
    BY <1>1, IdsOfIs
  <2>2. Len(IdsOf(p)) = Len(p) /\ Len(IdsOf(q)) = Len(q) /\ Len(IdsOf(p \o q)) = Len(p) + Len(q)
    BY <1>1, IdsOfIs
  <2>3. QED BY <2>1, <2>2
<1>5. ASSUME NEW i \in 1..Len(a) PROVE a[i] = b[i]
  <2>1. IdsOf(p) \in Seq(Ids) /\ IdsOf(q) \in Seq(Ids) BY IdsOfIs
  <2>2. Len(IdsOf(p)) = Len(p) /\ Len(IdsOf(q)) = Len(q) BY IdsOfIs
  <2>3. i \in 1..(Len(p) + Len(q)) BY <1>4
  <2>4. a[i] = (p \o q)[i].id BY <1>1, <2>3, IdsOfIs
  <2>5. CASE i <= Len(p)
    <3>1. b[i] = IdsOf(p)[i] /\ i \in 1..Len(p) BY <2>1, <2>2, <2>3, <2>5, <1>3
    <3>2. QED BY <1>2, <2>4, <3>1, IdsOfIs
  <2>6. CASE i > Len(p)
    <3>1. b[i] = IdsOf(q)[i - Len(p)] /\ i - Len(p) \in 1..Len(q)
      BY <2>1, <2>2, <2>3, <2>6, <1>3
    <3>2. (p \o q)[i] = q[i - Len(p)] BY <1>2, <1>3, <2>3, <2>6
    <3>3. QED BY <2>4, <3>1, <3>2, IdsOfIs
  <2>7. i <= Len(p) \/ i > Len(p) BY <1>3, <2>3
  <2> HIDE DEF a, b
  <2>8. QED BY <2>5, <2>6, <2>7
<1>6. QED
  <2> HIDE DEF a, b
  <2>1. a = b BY <1>4, <1>5, SeqEqual
  <2>2. QED BY <2>1 DEF a, b

Of(w) == [id : Ids, ws : {w}, tab : BOOLEAN]

LEMMA OfIs ==
  ASSUME NEW e \in Sessions, NEW w
  PROVE  e \in Of(w) <=> e.ws = w
BY DEF Of, Sessions

LEMMA Chosen ==
  ASSUME NEW list \in Lists, NEW w
  PROVE  /\ Select(list, Of(w)) \in Lists
         /\ In(list, w) = IdsOf(Select(list, Of(w)))
<1>1. Select(list, Of(w)) \in Lists BY SelectSeqType DEF Lists
<1>2. QED BY <1>1 DEF In, Of

LEMMA InType ==
  ASSUME NEW list \in Lists, NEW w
  PROVE  In(list, w) \in Seq(Ids)
BY Chosen, IdsOfIs

(* The ids of a workspace are those of its members.                        *)
LEMMA InMember ==
  ASSUME NEW list \in Lists, NEW w, NEW k \in 1..Len(In(list, w))
  PROVE  \E i \in 1..Len(list) : list[i].ws = w /\ list[i].id = In(list, w)[k]
<1> DEFINE own == Select(list, Of(w))
<1>1. own \in Lists /\ In(list, w) = IdsOf(own) BY Chosen
<1>2. own \in Seq(Of(w) \cap Sessions) BY SelectType DEF Lists
<1>3. k \in 1..Len(own) /\ In(list, w)[k] = own[k].id BY <1>1, IdsOfIs
<1>4. own[k] \in Of(w) /\ own[k] \in Sessions BY <1>2, <1>3
<1>5. PICK i \in 1..Len(list) : own[k] = list[i] BY <1>3, SelectMember DEF Lists
<1>6. own[k].ws = w BY <1>4, OfIs
<1>7. QED BY <1>3, <1>5, <1>6

LEMMA InHas ==
  ASSUME NEW list \in Lists, NEW i \in 1..Len(list)
  PROVE  \E k \in 1..Len(In(list, list[i].ws)) : In(list, list[i].ws)[k] = list[i].id
<1> DEFINE w == list[i].ws
           own == Select(list, Of(w))
<1>1. own \in Lists /\ In(list, w) = IdsOf(own) BY Chosen
<1>2. list[i] \in Sessions BY DEF Lists
<1>3. list[i] \in Of(w) BY <1>2, OfIs
<1>4. PICK k \in 1..Len(own) : own[k] = list[i] BY <1>3, SelectHas DEF Lists
<1>5. QED BY <1>1, <1>4, IdsOfIs

LEMMA InEmpty ==
  ASSUME NEW list \in Lists, NEW w
  PROVE  In(list, w) = <<>> <=> \A i \in 1..Len(list) : list[i].ws # w
<1>1. ASSUME In(list, w) # <<>> PROVE \E i \in 1..Len(list) : list[i].ws = w
  <2>1. 1 \in 1..Len(In(list, w)) BY <1>1, InType
  <2>2. QED BY <2>1, InMember
<1>2. ASSUME NEW i \in 1..Len(list), list[i].ws = w PROVE In(list, w) # <<>>
  <2>1. PICK k \in 1..Len(In(list, w)) : TRUE BY <1>2, InHas
  <2>2. Len(<<>>) = 0 OBVIOUS
  <2>3. QED BY <2>1, <2>2
<1>3. QED BY <1>1, <1>2

LEMMA InConcat ==
  ASSUME NEW p \in Lists, NEW q \in Lists, NEW w
  PROVE  In(p \o q, w) = In(p, w) \o In(q, w)
<1>1. p \o q \in Lists BY DEF Lists
<1>2. Select(p \o q, Of(w)) = Select(p, Of(w)) \o Select(q, Of(w))
  BY SelectConcat DEF Lists
<1>3. Select(p, Of(w)) \in Lists /\ Select(q, Of(w)) \in Lists BY Chosen
<1>4. IdsOf(Select(p, Of(w)) \o Select(q, Of(w))) = In(p, w) \o In(q, w)
  BY <1>3, Chosen, IdsOfConcat
<1>5. QED BY <1>1, <1>2, <1>4, Chosen

LEMMA PlaceIs ==
  ASSUME NEW q, NEW x
  PROVE  /\ (\E i \in DOMAIN q : q[i] = x) => Place(q, x) \in DOMAIN q /\ q[Place(q, x)] = x
         /\ (\A i \in DOMAIN q : q[i] # x) => Place(q, x) = 0
BY DEF Place

LEMMA AtIs ==
  ASSUME NEW list \in Lists, NEW id
  PROVE  \/ At(list, id) \in 1..Len(list) /\ list[At(list, id)].id = id
         \/ At(list, id) = 0 /\ \A i \in 1..Len(list) : list[i].id # id
<1>1. DOMAIN IdsOf(list) = 1..Len(list) /\ \A i \in 1..Len(list) : IdsOf(list)[i] = list[i].id
  BY IdsOfIs
<1>2. QED BY <1>1, PlaceIs DEF At

-----------------------------------------------------------------------------
(* What an operation may do with the record it is given.  A spawn past the *)
(* bound leaves one that no step takes, with one session too many counted. *)

Wide == [list : Lists, active : [Workspaces -> Opt(Ids)], returns : [Ids -> Opt(Ids)],
         current : Workspaces, opened : 0..(MaxSessions + 1),
         deferred : [to : Workspaces \cup Opt(Ids), tree : BOOLEAN],
         cursor : Opt(Rows), bare : SUBSET Workspaces]

Lives(list, w) == \E i \in 1..Len(list) : list[i].ws = w
Lodges(list, id, w) == \E i \in 1..Len(list) : list[i].ws = w /\ list[i].id = id

(* Ids are given once, in order; ActiveIsOwn; a session does not hand back *)
(* to itself.                                                              *)
Good(s) ==
    /\ s \in Wide
    /\ \A i, j \in 1..Len(s.list) : s.list[i].id = s.list[j].id => i = j
    /\ \A i \in 1..Len(s.list) : s.list[i].id <= s.opened
    /\ \A w \in Workspaces : IF Lives(s.list, w) THEN Lodges(s.list, s.active[w], w)
                             ELSE s.active[w] = None
    /\ \A id \in Ids : s.returns[id] # id

(* Somebody is on screen, or a failed spawn says why nobody is.            *)
Settled(s) == Lives(s.list, s.current) \/ s.current \in s.bare

(* At most one session was opened.                                         *)
Grown(s, t) ==
    /\ Good(t) /\ t.cursor = s.cursor /\ t.deferred = s.deferred
    /\ \/ t.list = s.list /\ t.opened = s.opened
       \/ /\ s.opened < MaxSessions /\ t.opened = s.opened + 1
          /\ \E e \in Sessions : e.id = t.opened /\ t.list = Append(s.list, e)
       \/ t.opened = MaxSessions + 1

LEMMA Names ==
  /\ MaxSessions \in Nat /\ MaxOps \in Nat
  /\ Home \notin Nat /\ Trunk \notin Nat /\ Feature \notin Nat /\ Project \notin Nat
  /\ Root \notin Nat /\ Detached \notin Nat /\ None \notin Nat
  /\ Home # Trunk /\ Home # Feature /\ Trunk # Feature
  /\ Project \notin Workspaces /\ Root \notin Workspaces \cup {Project}
  /\ Detached \notin Workspaces \cup {Project, Root}
  /\ None \notin Workspaces \cup {Project, Root, Detached}
  /\ Ids \subseteq Nat \ {0} /\ Ids \cap (Workspaces \cup {Project, Root, Detached, None}) = {}
<1> DEFINE O == <<Home, Trunk, Feature, Project, Root, Detached, None>>
<1>1. DOMAIN O = 1..7 /\ O[1] = Home /\ O[2] = Trunk /\ O[3] = Feature /\ O[4] = Project
      /\ O[5] = Root /\ O[6] = Detached /\ O[7] = None
  OBVIOUS
<1>2. \A i, j \in 1..7 : O[i] \notin Nat /\ (O[i] = O[j] => i = j)
  BY <1>1, ViewsAssumption DEF ViewsAssumption, Others
<1>3. 1 \in 1..7 /\ 2 \in 1..7 /\ 3 \in 1..7 /\ 4 \in 1..7 /\ 5 \in 1..7 /\ 6 \in 1..7 /\ 7 \in 1..7
  OBVIOUS
<1> HIDE DEF O
<1>4. Home \notin Nat /\ Trunk \notin Nat /\ Feature \notin Nat /\ Project \notin Nat
      /\ Root \notin Nat /\ Detached \notin Nat /\ None \notin Nat
  BY <1>1, <1>2, <1>3
<1>5. Home # Trunk /\ Home # Feature /\ Trunk # Feature BY <1>1, <1>2, <1>3
<1>6. Project # Home /\ Project # Trunk /\ Project # Feature BY <1>1, <1>2, <1>3
<1>7. Root # Home /\ Root # Trunk /\ Root # Feature /\ Root # Project BY <1>1, <1>2, <1>3
<1>8. Detached # Home /\ Detached # Trunk /\ Detached # Feature /\ Detached # Project
      /\ Detached # Root
  BY <1>1, <1>2, <1>3
<1>9. None # Home /\ None # Trunk /\ None # Feature /\ None # Project
      /\ None # Root /\ None # Detached
  BY <1>1, <1>2, <1>3
<1>10. MaxSessions \in Nat /\ MaxOps \in Nat BY ViewsAssumption DEF ViewsAssumption
<1>11. Ids \subseteq Nat \ {0} BY <1>10 DEF Ids
<1>12. QED BY <1>4, <1>5, <1>6, <1>7, <1>8, <1>9, <1>10, <1>11 DEF Workspaces

LEMMA HereIs ==
  ASSUME NEW s \in Wide, NEW id, NEW w
  PROVE  /\ Here(s, id, w) <=> Lodges(s.list, id, w)
         /\ In(s.list, w) = <<>> <=> ~Lives(s.list, w)
         /\ Open(s, id) <=> \E i \in 1..Len(s.list) : s.list[i].id = id
<1>1. s.list \in Lists /\ DOMAIN s.list = 1..Len(s.list) BY DEF Wide, Lists
<1>2. Here(s, id, w) <=> Lodges(s.list, id, w) BY <1>1 DEF Here, Lodges, ToSet
<1>3. In(s.list, w) = <<>> <=> ~Lives(s.list, w) BY <1>1, InEmpty DEF Lives
<1>4. Open(s, id) <=> \E i \in 1..Len(s.list) : s.list[i].id = id
  BY <1>1, AtIs DEF Open
<1>5. QED BY <1>2, <1>3, <1>4

LEMMA LodgerIs ==
  ASSUME NEW list \in Lists, NEW id, NEW w, Lodges(list, id, w)
  PROVE  id \in Ids /\ w \in Workspaces /\ Lives(list, w)
<1>1. PICK i \in 1..Len(list) : list[i].ws = w /\ list[i].id = id BY DEF Lodges
<1>2. list[i] \in Sessions BY DEF Lists
<1>3. list[i].id \in Ids /\ list[i].ws \in Workspaces BY <1>2 DEF Sessions
<1>4. QED BY <1>1, <1>3 DEF Lives

LEMMA SetActiveIs ==
  ASSUME NEW s \in Wide, NEW w \in Workspaces, NEW id \in Ids, \A x \in Ids : s.returns[x] # x
  PROVE  LET t == SetActive(s, w, id) IN
         /\ t \in Wide /\ t.list = s.list /\ t.opened = s.opened /\ t.current = s.current
         /\ t.bare = s.bare /\ t.cursor = s.cursor /\ t.deferred = s.deferred
         /\ t.active = [s.active EXCEPT ![w] = id]
         /\ \A x \in Ids : t.returns[x] # x
<1> DEFINE previous == s.active[w]
           takes == previous \notin {None, id}
                    /\ \E e \in ToSet(s.list) : e.id = id /\ e.tab
           r == IF takes THEN previous ELSE s.returns[id]
           t == SetActive(s, w, id)
<1>1. r \in Opt(Ids) /\ r # id
  <2>1. previous \in Opt(Ids) /\ s.returns[id] \in Opt(Ids) BY DEF Wide
  <2>2. QED BY <2>1
<1>2. t = [s EXCEPT !.active[w] = id, !.returns[id] = r]
  BY DEF SetActive
<1> HIDE DEF r, t
<1>3. /\ t.active = [s.active EXCEPT ![w] = id] /\ t.returns = [s.returns EXCEPT ![id] = r]
      /\ t.list = s.list /\ t.opened = s.opened /\ t.current = s.current /\ t.bare = s.bare
      /\ t.cursor = s.cursor /\ t.deferred = s.deferred
  BY <1>2 DEF Wide
<1>4. t.active \in [Workspaces -> Opt(Ids)] /\ t.returns \in [Ids -> Opt(Ids)]
  BY <1>1, <1>3 DEF Wide, Opt
<1>5. t \in Wide BY <1>2, <1>3, <1>4 DEF Wide
<1>6. \A x \in Ids : t.returns[x] # x
  <2>1. s.returns \in [Ids -> Opt(Ids)] BY DEF Wide
  <2>2. QED BY <1>1, <1>3, <2>1
<1>7. QED BY <1>3, <1>5, <1>6 DEF t

LEMMA GoodSetActive ==
  ASSUME NEW s, Good(s), NEW w \in Workspaces, NEW id, Lodges(s.list, id, w)
  PROVE  LET t == SetActive(s, w, id) IN
         /\ Grown(s, t) /\ t.list = s.list /\ t.opened = s.opened /\ t.current = s.current
         /\ t.bare = s.bare /\ t.active = [s.active EXCEPT ![w] = id]
<1> DEFINE t == SetActive(s, w, id)
<1>1. s \in Wide /\ s.list \in Lists /\ \A x \in Ids : s.returns[x] # x BY DEF Good, Wide
<1>2. id \in Ids /\ Lives(s.list, w) BY <1>1, LodgerIs
<1>3. /\ t \in Wide /\ t.list = s.list /\ t.opened = s.opened /\ t.current = s.current
      /\ t.bare = s.bare /\ t.cursor = s.cursor /\ t.deferred = s.deferred
      /\ t.active = [s.active EXCEPT ![w] = id]
      /\ \A x \in Ids : t.returns[x] # x
  BY <1>1, <1>2, SetActiveIs
<1> HIDE DEF t
<1>4. \A v \in Workspaces : IF Lives(t.list, v) THEN Lodges(t.list, t.active[v], v)
                            ELSE t.active[v] = None
  <2>1. s.active \in [Workspaces -> Opt(Ids)] BY <1>1 DEF Wide
  <2>2. QED BY <1>2, <1>3, <2>1 DEF Good
<1>5. Good(t) BY <1>3, <1>4 DEF Good
<1>6. QED BY <1>3, <1>5 DEF Grown, t

LEMMA GoodPush ==
  ASSUME NEW s, Good(s), s.opened < MaxSessions, NEW w \in Workspaces, NEW tab \in BOOLEAN
  PROVE  LET t == Push(s, w, tab)
             e == [id |-> s.opened + 1, ws |-> w, tab |-> tab] IN
         /\ Grown(s, t) /\ t.opened = s.opened + 1 /\ t.list = Append(s.list, e)
         /\ t.current = s.current /\ t.bare = s.bare \ {w}
         /\ Lives(t.list, w)
<1> DEFINE n == s.opened + 1
           e == [id |-> n, ws |-> w, tab |-> tab]
           m == [s EXCEPT !.list = Append(@, e), !.opened = n, !.bare = @ \ {w}]
           t == SetActive(m, w, n)
<1>1. s \in Wide /\ s.list \in Lists /\ s.opened \in Nat BY Names DEF Good, Wide
<1>2. n \in Ids /\ e \in Sessions BY <1>1, Names DEF Ids, Sessions
<1>3. /\ m.list = Append(s.list, e) /\ m.opened = n /\ m.bare = s.bare \ {w}
      /\ m.active = s.active /\ m.returns = s.returns /\ m.current = s.current
      /\ m.cursor = s.cursor /\ m.deferred = s.deferred
  BY <1>1 DEF Wide
<1>4. n \in 0..(MaxSessions + 1) BY <1>1, Names
<1>5. m.list \in Lists /\ Len(m.list) = Len(s.list) + 1 /\ Len(s.list) \in Nat
      /\ m.list[Len(s.list) + 1] = e /\ \A i \in 1..Len(s.list) : m.list[i] = s.list[i]
  BY <1>1, <1>2, <1>3 DEF Lists
<1>6. m \in Wide
  <2>1. s.bare \ {w} \in SUBSET Workspaces BY <1>1 DEF Wide
  <2>2. QED BY <1>1, <1>3, <1>4, <1>5, <2>1 DEF Wide
<1> HIDE DEF e, m, t
<1>7. e.id = n /\ e.ws = w BY DEF e
<1>8. n = s.opened + 1 OBVIOUS
<1> HIDE DEF n
<1>9. Lodges(m.list, n, w) /\ Lives(m.list, w)
  <2>1. Len(s.list) + 1 \in 1..Len(m.list) BY <1>5
  <2>2. QED BY <1>5, <1>7, <2>1 DEF Lodges, Lives
<1>10. \A i \in 1..Len(m.list) : i \in 1..Len(s.list) \/ i = Len(s.list) + 1 BY <1>5
<1>11. \A i \in 1..Len(s.list) : s.list[i].id <= s.opened /\ s.list[i].id \in Nat
  <2>1. \A i \in 1..Len(s.list) : s.list[i] \in Sessions BY <1>1 DEF Lists
  <2>2. QED BY <2>1, Names DEF Good, Sessions
<1>12. \A i \in 1..Len(m.list) : m.list[i].id <= n
  <2>1. \A i \in 1..Len(s.list) : s.list[i].id <= n BY <1>1, <1>8, <1>11
  <2>2. n <= n BY <1>1, <1>8
  <2>3. QED BY <1>5, <1>7, <1>10, <2>1, <2>2
<1>13. \A i, j \in 1..Len(m.list) : m.list[i].id = m.list[j].id => i = j
  <2>1. \A i, j \in 1..Len(s.list) : s.list[i].id = s.list[j].id => i = j BY DEF Good
  <2>2. \A i \in 1..Len(s.list) : m.list[i].id # n BY <1>1, <1>5, <1>8, <1>11
  <2>3. m.list[Len(s.list) + 1].id = n BY <1>5, <1>7
  <2>4. SUFFICES ASSUME NEW i \in 1..Len(m.list), NEW j \in 1..Len(m.list),
                        m.list[i].id = m.list[j].id
                 PROVE  i = j
    OBVIOUS
  <2>5. CASE i \in 1..Len(s.list) /\ j \in 1..Len(s.list) BY <1>5, <2>1, <2>4, <2>5
  <2>6. CASE i = Len(s.list) + 1 \/ j = Len(s.list) + 1
    BY <1>10, <2>2, <2>3, <2>4, <2>6
  <2>7. QED BY <1>10, <2>5, <2>6
<1>14. \A v \in Workspaces : v # w => (Lives(m.list, v) <=> Lives(s.list, v))
                                     /\ \A x : Lodges(s.list, x, v) => Lodges(m.list, x, v)
  <2>1. SUFFICES ASSUME NEW v \in Workspaces, v # w
                 PROVE  (Lives(m.list, v) <=> Lives(s.list, v))
                        /\ \A x : Lodges(s.list, x, v) => Lodges(m.list, x, v)
    OBVIOUS
  <2>2. \A i \in 1..Len(m.list) : m.list[i].ws = v => i \in 1..Len(s.list)
    BY <1>5, <1>7, <1>10, <2>1
  <2>3. 1..Len(s.list) \subseteq 1..Len(m.list) BY <1>5
  <2>4. QED BY <1>5, <2>2, <2>3 DEF Lives, Lodges
<1>15. ASSUME NEW v \in Workspaces
       PROVE  IF Lives(m.list, v) THEN v = w \/ Lodges(m.list, m.active[v], v)
              ELSE m.active[v] = None
  BY <1>3, <1>9, <1>14, <1>15 DEF Good
<1>16. Good(t) /\ t.list = m.list /\ t.opened = m.opened /\ t.current = m.current
       /\ t.bare = m.bare /\ t.cursor = m.cursor /\ t.deferred = m.deferred
  <2>1. \A x \in Ids : m.returns[x] # x BY <1>3 DEF Good
  <2>2. /\ t \in Wide /\ t.list = m.list /\ t.opened = m.opened /\ t.current = m.current
        /\ t.bare = m.bare /\ t.cursor = m.cursor /\ t.deferred = m.deferred
        /\ t.active = [m.active EXCEPT ![w] = n]
        /\ \A x \in Ids : t.returns[x] # x
    BY <1>2, <1>6, <2>1, SetActiveIs DEF t
  <2>3. \A v \in Workspaces : IF Lives(t.list, v) THEN Lodges(t.list, t.active[v], v)
                              ELSE t.active[v] = None
    <3>1. m.active \in [Workspaces -> Opt(Ids)] BY <1>6 DEF Wide
    <3>2. QED BY <1>9, <1>15, <2>2, <3>1
  <2>4. Good(t) BY <1>3, <1>12, <1>13, <2>2, <2>3 DEF Good
  <2>5. QED BY <2>2, <2>4
<1>17. t = Push(s, w, tab) BY DEF Push, t, m, e, n
<1>18. Grown(s, t)
  <2>1. Good(t) /\ t.cursor = s.cursor /\ t.deferred = s.deferred BY <1>3, <1>16
  <2>2. t.opened = s.opened + 1 /\ t.list = Append(s.list, e) /\ e.id = t.opened
    BY <1>3, <1>7, <1>8, <1>16
  <2>3. QED BY <1>2, <2>1, <2>2 DEF Grown
<1>19. t.list = Append(s.list, e) /\ t.opened = s.opened + 1 /\ t.current = s.current
       /\ t.bare = s.bare \ {w} /\ Lives(t.list, w)
  BY <1>3, <1>8, <1>9, <1>16
<1>20. QED BY <1>17, <1>18, <1>19 DEF e, n

LEMMA SpawnIs ==
  ASSUME NEW s, Good(s), s.opened <= MaxSessions, NEW w \in Workspaces
  PROVE  LET t == Spawn(s, w) IN
         /\ Grown(s, t) /\ t.current = s.current
         /\ Gone(w) => t.list = s.list /\ t.active = s.active
         /\ t.opened <= MaxSessions => Lives(t.list, w) \/ w \in t.bare
<1> DEFINE t == Spawn(s, w)
<1>1. s \in Wide /\ s.opened \in 0..MaxSessions /\ MaxSessions \in Nat
  BY Names DEF Good, Wide
<1>2. CASE Gone(w)
  <2>1. t = [s EXCEPT !.bare = @ \cup {w}] BY <1>2 DEF Spawn
  <2>2. /\ t.bare = s.bare \cup {w} /\ t.list = s.list /\ t.active = s.active
        /\ t.returns = s.returns /\ t.opened = s.opened /\ t.current = s.current
        /\ t.cursor = s.cursor /\ t.deferred = s.deferred
    BY <1>1, <2>1 DEF Wide
  <2> HIDE DEF t
  <2>3. s.bare \cup {w} \in SUBSET Workspaces BY <1>1 DEF Wide
  <2>4. t \in Wide BY <1>1, <2>1, <2>2, <2>3 DEF Wide
  <2>5. Good(t) BY <2>2, <2>4 DEF Good
  <2>6. Grown(s, t) BY <2>2, <2>5 DEF Grown
  <2>7. QED BY <2>2, <2>6 DEF t
<1>3. CASE ~Gone(w) /\ s.opened = MaxSessions
  <2>1. t = [s EXCEPT !.opened = MaxSessions + 1] BY <1>3 DEF Spawn
  <2>2. /\ t.bare = s.bare /\ t.list = s.list /\ t.active = s.active
        /\ t.returns = s.returns /\ t.opened = MaxSessions + 1 /\ t.current = s.current
        /\ t.cursor = s.cursor /\ t.deferred = s.deferred
    BY <1>1, <2>1 DEF Wide
  <2> HIDE DEF t
  <2>3. MaxSessions + 1 \in 0..(MaxSessions + 1) /\ ~(MaxSessions + 1 <= MaxSessions) BY <1>1
  <2>4. t \in Wide BY <1>1, <2>1, <2>2, <2>3 DEF Wide
  <2>5. \A i \in 1..Len(s.list) : s.list[i].id <= MaxSessions + 1
    <3>1. ASSUME NEW i \in 1..Len(s.list) PROVE s.list[i].id <= MaxSessions + 1
      <4>1. s.list[i] \in Sessions BY <1>1 DEF Wide, Lists
      <4>2. s.list[i].id \in 1..MaxSessions BY <4>1 DEF Sessions, Ids
      <4>3. QED BY <1>1, <4>2
    <3>2. QED BY <3>1
  <2>6. Good(t) BY <2>2, <2>4, <2>5 DEF Good
  <2>7. Grown(s, t) BY <2>2, <2>6 DEF Grown
  <2>8. QED BY <1>3, <2>2, <2>3, <2>7 DEF t
<1>4. CASE ~Gone(w) /\ s.opened # MaxSessions
  <2>1. t = Push(s, w, FALSE) /\ s.opened < MaxSessions BY <1>1, <1>4 DEF Spawn
  <2>2. FALSE \in BOOLEAN OBVIOUS
  <2> HIDE DEF t
  <2>3. Grown(s, t) /\ t.current = s.current /\ Lives(t.list, w)
    BY <2>1, <2>2, GoodPush
  <2>4. QED BY <1>4, <2>3 DEF t
<1>5. QED BY <1>2, <1>3, <1>4

(* The head of a workspace's ids is one of its own.                        *)
LEMMA HeadLodges ==
  ASSUME NEW list \in Lists, NEW w, In(list, w) # <<>>
  PROVE  Lodges(list, Head(In(list, w)), w) /\ Lodges(list, In(list, w)[Len(In(list, w))], w)
<1>1. In(list, w) \in Seq(Ids) /\ Len(In(list, w)) \in Nat \ {0} BY InType
<1>2. Head(In(list, w)) = In(list, w)[1] BY <1>1
<1>3. 1 \in 1..Len(In(list, w)) /\ Len(In(list, w)) \in 1..Len(In(list, w)) BY <1>1
<1>4. \A k \in 1..Len(In(list, w)) : Lodges(list, In(list, w)[k], w)
  BY InMember DEF Lodges
<1>5. QED BY <1>2, <1>3, <1>4

LEMMA EnsureIs ==
  ASSUME NEW s, Good(s), s.opened <= MaxSessions
  PROVE  LET t == Ensure(s) IN
         /\ Grown(s, t) /\ t.current = s.current
         /\ t.opened <= MaxSessions => Settled(t)
<1>1. /\ s \in Wide /\ s.list \in Lists /\ s.current \in Workspaces /\ s.active[s.current] \in Opt(Ids)
  BY DEF Good, Wide
<1>2. Grown(s, s) BY DEF Grown
<1>3. CASE Open(s, OnScreen(s))
  <2>1. PICK i \in 1..Len(s.list) : s.list[i].id = s.active[s.current]
    BY <1>1, <1>3, HereIs DEF OnScreen
  <2>2. s.list[i].id \in Ids /\ None \notin Ids
    <3>1. s.list[i] \in Sessions BY <1>1 DEF Lists
    <3>2. QED BY <3>1, Names DEF Sessions
  <2>3. Lives(s.list, s.current) BY <1>1, <2>1, <2>2 DEF Good
  <2>4. Ensure(s) = s BY <1>3 DEF Ensure
  <2>5. QED BY <1>2, <2>3, <2>4 DEF Settled
<1>4. CASE ~Open(s, OnScreen(s)) /\ In(s.list, s.current) # <<>>
  <2> DEFINE c == s.current
             id == Head(In(s.list, c))
             t == SetActive(s, c, id)
  <2>1. Lodges(s.list, id, c) /\ Lives(s.list, c) /\ c \in Workspaces
    BY <1>1, <1>4, HeadLodges, HereIs
  <2>2. Ensure(s) = t BY <1>4 DEF Ensure
  <2> HIDE DEF id, c
  <2>3. /\ Grown(s, t) /\ t.list = s.list /\ t.opened = s.opened /\ t.current = s.current
        /\ t.bare = s.bare /\ t.active = [s.active EXCEPT ![c] = id]
    BY <2>1, GoodSetActive
  <2> HIDE DEF t
  <2>4. QED BY <2>1, <2>2, <2>3 DEF Settled, c
<1>5. CASE ~Open(s, OnScreen(s)) /\ In(s.list, s.current) = <<>>
  <2>1. Ensure(s) = Spawn(s, s.current) BY <1>5 DEF Ensure
  <2>2. QED BY <1>1, <2>1, SpawnIs DEF Settled
<1>6. QED BY <1>3, <1>4, <1>5

(* Looking elsewhere alone.                                                *)
LEMMA GoodCurrent ==
  ASSUME NEW s, Good(s), NEW w \in Workspaces
  PROVE  LET t == [s EXCEPT !.current = w] IN
         /\ Good(t) /\ t.list = s.list /\ t.opened = s.opened /\ t.current = w
         /\ t.active = s.active /\ t.bare = s.bare /\ t.cursor = s.cursor
         /\ t.deferred = s.deferred
<1> DEFINE t == [s EXCEPT !.current = w]
<1>1. s \in Wide BY DEF Good
<1>2. /\ t.list = s.list /\ t.opened = s.opened /\ t.current = w /\ t.returns = s.returns
      /\ t.active = s.active /\ t.bare = s.bare /\ t.cursor = s.cursor
      /\ t.deferred = s.deferred
  BY <1>1 DEF Wide
<1>3. t \in Wide BY <1>1 DEF Wide
<1> HIDE DEF t
<1>4. Good(t) BY <1>2, <1>3 DEF Good
<1>5. QED BY <1>2, <1>4 DEF t

LEMMA GrownFrom ==
  ASSUME NEW r, NEW s, NEW t, Grown(s, t), r.list = s.list, r.opened = s.opened,
         r.cursor = s.cursor, r.deferred = s.deferred
  PROVE  Grown(r, t)
BY DEF Grown

LEMMA ActivateWsIs ==
  ASSUME NEW s, Good(s), s.opened <= MaxSessions, NEW w \in Workspaces
  PROVE  LET t == ActivateWs(s, w) IN
         /\ Grown(s, t)
         /\ t.opened <= MaxSessions =>
              IF Gone(w) /\ In(s.list, w) = <<>> THEN t = s ELSE t.current = w /\ Settled(t)
<1> DEFINE m == [s EXCEPT !.current = w]
<1>1. Grown(s, s) BY DEF Grown
<1>2. CASE Gone(w) /\ In(s.list, w) = <<>> BY <1>1, <1>2 DEF ActivateWs
<1>3. CASE ~(Gone(w) /\ In(s.list, w) = <<>>)
  <2>1. ActivateWs(s, w) = Ensure(m) BY <1>3 DEF ActivateWs
  <2>2. /\ Good(m) /\ m.list = s.list /\ m.opened = s.opened /\ m.current = w
        /\ m.cursor = s.cursor /\ m.deferred = s.deferred
    BY GoodCurrent
  <2> HIDE DEF m
  <2>3. /\ Grown(m, Ensure(m)) /\ Ensure(m).current = m.current
        /\ Ensure(m).opened <= MaxSessions => Settled(Ensure(m))
    BY <2>2, EnsureIs
  <2>4. Grown(s, Ensure(m)) BY <2>2, <2>3, GrownFrom
  <2>5. QED BY <1>3, <2>1, <2>2, <2>3, <2>4
<1>4. QED BY <1>2, <1>3

LEMMA ActivateIdIs ==
  ASSUME NEW s, Good(s), NEW id
  PROVE  LET t == ActivateId(s, id) IN
         /\ Grown(s, t) /\ t.list = s.list /\ t.opened = s.opened
         /\ ~Open(s, id) => t = s
         /\ \A w : Lodges(s.list, id, w) =>
              /\ t.current = w /\ Lives(t.list, w) /\ t.active = [s.active EXCEPT ![w] = id]
<1>1. s \in Wide /\ s.list \in Lists BY DEF Good, Wide
<1>2. CASE ~Open(s, id)
  <2>1. ActivateId(s, id) = s BY <1>2 DEF ActivateId
  <2>2. \A w : ~Lodges(s.list, id, w) BY <1>1, <1>2, HereIs DEF Lodges
  <2>3. QED BY <2>1, <2>2 DEF Grown
<1>3. CASE Open(s, id)
  <2> DEFINE w == s.list[At(s.list, id)].ws
             m == [s EXCEPT !.current = w]
             t == SetActive(m, w, id)
  <2>1. At(s.list, id) \in 1..Len(s.list) /\ s.list[At(s.list, id)].id = id
    BY <1>1, <1>3, AtIs DEF Open
  <2>2. Lodges(s.list, id, w) BY <2>1 DEF Lodges
  <2>3. w \in Workspaces /\ Lives(s.list, w) BY <1>1, <2>2, LodgerIs
  <2>4. \A v : Lodges(s.list, id, v) => v = w BY <2>1 DEF Lodges, Good
  <2>5. ActivateId(s, id) = t BY <1>3 DEF ActivateId
  <2> HIDE DEF w
  <2>6. /\ Good(m) /\ m.list = s.list /\ m.opened = s.opened /\ m.current = w
        /\ m.active = s.active /\ m.cursor = s.cursor /\ m.deferred = s.deferred
    BY <2>3, GoodCurrent
  <2> HIDE DEF m
  <2>7. Grown(m, t) /\ t.list = m.list /\ t.opened = m.opened /\ t.current = m.current
        /\ t.active = [m.active EXCEPT ![w] = id]
    BY <2>2, <2>3, <2>6, GoodSetActive
  <2> HIDE DEF t
  <2>8. Grown(s, t) BY <2>6, <2>7, GrownFrom
  <2>9. QED BY <1>3, <2>3, <2>4, <2>5, <2>6, <2>7, <2>8
<1>4. QED BY <1>2, <1>3

-----------------------------------------------------------------------------
(* Closing.                                                                *)

(* t is s without the sessions of X.                                       *)
Less(s, t, X) ==
    /\ Good(t) /\ t.current = s.current /\ t.opened = s.opened /\ t.deferred = s.deferred
    /\ t.cursor = s.cursor /\ t.bare = s.bare
    /\ \A x, w : Lodges(t.list, x, w) <=> Lodges(s.list, x, w) /\ x \notin X

LEMMA RestIs ==
  ASSUME NEW T, NEW list \in Seq(T), NEW i \in 1..Len(list)
  PROVE  LET rest == RemoveAt(list, i) IN
         /\ rest \in Seq(T) /\ Len(rest) = Len(list) - 1 /\ Len(list) \in Nat \ {0}
         /\ \A k \in 1..(i - 1) : k \in 1..Len(rest) /\ rest[k] = list[k]
         /\ \A k \in (i + 1)..Len(list) : k - 1 \in 1..Len(rest) /\ rest[k - 1] = list[k]
         /\ \A k \in 1..Len(rest) : IF k < i THEN rest[k] = list[k] ELSE rest[k] = list[k + 1]
<1> DEFINE a == SubSeq(list, 1, i - 1)
           b == SubSeq(list, i + 1, Len(list))
           rest == a \o b
           n == Len(list)
<1>1. n \in Nat /\ i \in 1..n OBVIOUS
<1>2. a \in Seq(T) /\ Len(a) = i - 1 /\ \A k \in 1..(i - 1) : a[k] = list[k]
  BY <1>1
<1>3. b \in Seq(T) /\ Len(b) = n - i /\ \A k \in 1..(n - i) : b[k] = list[i + k]
  BY <1>1
<1> HIDE DEF a, b
<1>4. /\ rest \in Seq(T) /\ Len(rest) = n - 1
      /\ \A k \in 1..(i - 1) : rest[k] = a[k]
      /\ \A k \in i..(n - 1) : rest[k] = b[k - (i - 1)]
  <2>1. Len(rest) = n - 1 /\ rest \in Seq(T) BY <1>1, <1>2, <1>3
  <2>2. \A k \in 1..(i - 1) : rest[k] = a[k] BY <1>1, <1>2, <1>3
  <2>3. \A k \in i..(n - 1) : k \in 1..(Len(a) + Len(b)) /\ ~(k <= Len(a)) BY <1>1, <1>2, <1>3
  <2>4. \A k \in 1..(Len(a) + Len(b)) : ~(k <= Len(a)) => rest[k] = b[k - Len(a)]
    BY <1>2, <1>3
  <2>5. \A k \in i..(n - 1) : rest[k] = b[k - (i - 1)] BY <1>2, <2>3, <2>4
  <2>6. QED BY <2>1, <2>2, <2>5
<1>5. RemoveAt(list, i) = rest BY DEF RemoveAt, a, b
<1> HIDE DEF rest
<1>6. \A k \in 1..(i - 1) : k \in 1..Len(rest) /\ rest[k] = list[k] BY <1>1, <1>2, <1>4
<1>7. \A k \in i..(n - 1) : rest[k] = list[k + 1]
  <2>1. SUFFICES ASSUME NEW k \in i..(n - 1) PROVE rest[k] = list[k + 1] OBVIOUS
  <2>2. k - (i - 1) \in 1..(n - i) /\ i + (k - (i - 1)) = k + 1 BY <1>1
  <2>3. QED BY <1>3, <1>4, <2>2
<1>8. \A k \in (i + 1)..n : k - 1 \in 1..Len(rest) /\ rest[k - 1] = list[k]
  <2>1. SUFFICES ASSUME NEW k \in (i + 1)..n
                 PROVE  k - 1 \in 1..Len(rest) /\ rest[k - 1] = list[k]
    OBVIOUS
  <2>2. k - 1 \in i..(n - 1) /\ (k - 1) + 1 = k /\ k - 1 \in 1..Len(rest) BY <1>1, <1>4
  <2>3. QED BY <1>7, <2>2
<1>9. \A k \in 1..Len(rest) : IF k < i THEN rest[k] = list[k] ELSE rest[k] = list[k + 1]
  <2>1. \A k \in 1..Len(rest) : IF k < i THEN k \in 1..(i - 1) ELSE k \in i..(n - 1) BY <1>1, <1>4
  <2>2. QED BY <1>6, <1>7, <2>1
<1>10. rest \in Seq(T) /\ Len(rest) = n - 1 /\ n \in Nat \ {0} BY <1>1, <1>4
<1>11. QED BY <1>5, <1>6, <1>8, <1>9, <1>10

LEMMA LandingIs ==
  ASSUME NEW list \in Lists, NEW w, NEW i \in Nat \ {0}
  PROVE  IF Lives(list, w) THEN Lodges(list, CloseLanding(list, w, i), w)
         ELSE CloseLanding(list, w, i) = None
<1> DEFINE sub == SubSeq(list, i, Len(list))
           after == In(sub, w)
<1>1. In(list, w) = <<>> <=> ~Lives(list, w) BY InEmpty DEF Lives
<1>2. sub \in Lists /\ \A k \in 1..Len(sub) : \E j \in 1..Len(list) : sub[k] = list[j]
  <2>1. Len(list) \in Nat BY DEF Lists
  <2>2. CASE i <= Len(list)
    <3>1. sub \in Lists /\ Len(sub) = (Len(list) - i) + 1
          /\ \A k \in 1..Len(sub) : sub[k] = list[i + k - 1]
      BY <2>1, <2>2 DEF Lists
    <3>2. \A k \in 1..Len(sub) : i + k - 1 \in 1..Len(list) BY <2>1, <2>2, <3>1
    <3>3. QED BY <3>1, <3>2
  <2>3. CASE i > Len(list)
    <3>1. sub = <<>> BY <2>1, <2>3 DEF Lists
    <3> HIDE DEF sub
    <3>2. QED BY <3>1 DEF Lists
  <2>4. QED BY <2>1, <2>2, <2>3
<1> HIDE DEF sub
<1>3. ASSUME after # <<>> PROVE Lodges(list, Head(after), w)
  <2>1. Lodges(sub, Head(after), w) BY <1>2, <1>3, HeadLodges
  <2>2. QED BY <1>2, <2>1 DEF Lodges
<1>4. ASSUME In(list, w) # <<>> PROVE Lodges(list, Last(In(list, w)), w)
                                      /\ Lodges(list, Head(In(list, w)), w)
  BY <1>4, HeadLodges DEF Last
<1> HIDE DEF after
<1>5. CloseLanding(list, w, i) =
        IF In(list, w) = <<>> THEN None
        ELSE IF ~ui.follow THEN Head(In(list, w))
        ELSE IF after # <<>> THEN Head(after)
        ELSE Last(In(list, w))
  BY DEF CloseLanding, after, sub
<1>6. QED BY <1>1, <1>3, <1>4, <1>5

LEMMA RestLodges ==
  ASSUME NEW list \in Lists, \A k, j \in 1..Len(list) : list[k].id = list[j].id => k = j,
         NEW i \in 1..Len(list)
  PROVE  LET rest == RemoveAt(list, i) IN
         /\ \A x, w : Lodges(rest, x, w) <=> Lodges(list, x, w) /\ x # list[i].id
         /\ \A w : w # list[i].ws => (Lives(rest, w) <=> Lives(list, w))
         /\ \A k, j \in 1..Len(rest) : rest[k].id = rest[j].id => k = j
         /\ \A k \in 1..Len(rest) : \E j \in 1..Len(list) : rest[k] = list[j]
<1> DEFINE rest == RemoveAt(list, i)
           n == Len(list)
           from(k) == IF k < i THEN k ELSE k + 1
<1>1. /\ rest \in Lists /\ Len(rest) = n - 1 /\ n \in Nat \ {0}
      /\ \A k \in 1..(i - 1) : k \in 1..Len(rest) /\ rest[k] = list[k]
      /\ \A k \in (i + 1)..n : k - 1 \in 1..Len(rest) /\ rest[k - 1] = list[k]
      /\ \A k \in 1..Len(rest) : IF k < i THEN rest[k] = list[k] ELSE rest[k] = list[k + 1]
  BY RestIs DEF Lists
<1> HIDE DEF rest
<1>2. \A k \in 1..Len(rest) : from(k) \in 1..n /\ from(k) # i /\ rest[k] = list[from(k)]
  BY <1>1
<1>3. \A k \in 1..n : k # i => \E j \in 1..Len(rest) : rest[j] = list[k]
  <2>1. \A k \in 1..n : k # i => k \in 1..(i - 1) \/ k \in (i + 1)..n BY <1>1
  <2>2. QED BY <1>1, <2>1
<1>4. \A k, j \in 1..Len(rest) : from(k) = from(j) => k = j BY <1>1
<1> HIDE DEF from
<1>5. \A k, j \in 1..Len(rest) : rest[k].id = rest[j].id => k = j BY <1>2, <1>4
<1>6. \A x, w : Lodges(rest, x, w) <=> Lodges(list, x, w) /\ x # list[i].id
  <2>1. ASSUME NEW x, NEW w, Lodges(rest, x, w) PROVE Lodges(list, x, w) /\ x # list[i].id
    <3>1. PICK k \in 1..Len(rest) : rest[k].ws = w /\ rest[k].id = x BY <2>1 DEF Lodges
    <3>2. QED BY <1>2, <3>1 DEF Lodges
  <2>2. ASSUME NEW x, NEW w, Lodges(list, x, w), x # list[i].id PROVE Lodges(rest, x, w)
    <3>1. PICK k \in 1..n : list[k].ws = w /\ list[k].id = x BY <2>2 DEF Lodges
    <3>2. QED BY <1>3, <2>2, <3>1 DEF Lodges
  <2>3. QED BY <2>1, <2>2
<1>7. \A w : w # list[i].ws => (Lives(rest, w) <=> Lives(list, w))
  <2>1. \A v : (\E k \in 1..Len(rest) : rest[k].ws = v) => \E k \in 1..n : list[k].ws = v
    BY <1>2
  <2>2. \A v : v # list[i].ws /\ (\E k \in 1..n : list[k].ws = v)
                 => \E k \in 1..Len(rest) : rest[k].ws = v
    <3>1. SUFFICES ASSUME NEW v, NEW k \in 1..n, v # list[i].ws, list[k].ws = v
                   PROVE  \E j \in 1..Len(rest) : rest[j].ws = v
      OBVIOUS
    <3>2. k # i BY <3>1
    <3>3. QED BY <1>3, <3>1, <3>2
  <2>3. QED BY <2>1, <2>2 DEF Lives
<1>8. QED BY <1>2, <1>5, <1>6, <1>7 DEF rest

LEMMA WithoutIs ==
  ASSUME NEW s, Good(s), NEW id
  PROVE  Less(s, Without(s, id), {id})
<1> DEFINE t == Without(s, id)
           i == At(s.list, id)
           w == s.list[i].ws
           rest == RemoveAt(s.list, i)
           back == ReturnTarget(s, id)
           next == IF s.active[w] # id THEN s.active[w]
                   ELSE IF back # None THEN back ELSE CloseLanding(rest, w, i)
<1>1. s \in Wide /\ s.list \in Lists BY DEF Good, Wide
<1>2. CASE i = 0
  <2>1. t = s BY <1>2 DEF Without
  <2>2. \A x, v : Lodges(s.list, x, v) => x # id BY <1>1, <1>2, AtIs DEF Lodges
  <2>3. QED BY <2>1, <2>2 DEF Less
<1>3. CASE i # 0
  <2>1. i \in 1..Len(s.list) /\ s.list[i].id = id BY <1>1, <1>3, AtIs
  <2>2. t = [s EXCEPT !.list = rest, !.returns[id] = None, !.active[w] = next]
    BY <1>3 DEF Without
  <2>3. s.list[i] \in Sessions BY <1>1, <2>1 DEF Lists
  <2>4. id \in Ids /\ w \in Workspaces BY <2>1, <2>3 DEF Sessions
  <2>5. \A k, j \in 1..Len(s.list) : s.list[k].id = s.list[j].id => k = j BY DEF Good
  <2>6. /\ \A x, v : Lodges(rest, x, v) <=> Lodges(s.list, x, v) /\ x # id
        /\ \A v : v # w => (Lives(rest, v) <=> Lives(s.list, v))
        /\ \A k, j \in 1..Len(rest) : rest[k].id = rest[j].id => k = j
        /\ \A k \in 1..Len(rest) : \E j \in 1..Len(s.list) : rest[k] = s.list[j]
    BY <1>1, <2>1, <2>5, RestLodges
  <2>7. rest \in Lists
    <3> HIDE DEF i
    <3>1. QED BY <1>1, <2>1, RestIs DEF Lists
  <2>8. back # None => Lodges(rest, back, w)
    <3>1. SUFFICES ASSUME back # None PROVE Lodges(rest, back, w) OBVIOUS
    <3>2. back = s.returns[id] /\ Here(s, back, w) BY <3>1 DEF ReturnTarget
    <3>3. back # id BY <2>4, <3>2 DEF Good
    <3>4. QED BY <1>1, <2>6, <3>2, <3>3, HereIs
  <2>9. IF Lives(rest, w) THEN Lodges(rest, CloseLanding(rest, w, i), w)
        ELSE CloseLanding(rest, w, i) = None
    <3>1. i \in Nat \ {0} BY <2>1
    <3> HIDE DEF rest, i
    <3>2. QED BY <2>7, <3>1, LandingIs
  <2> HIDE DEF rest, back, i
  <2>10. Lives(s.list, w) BY <2>1 DEF Lives
  <2>11. IF Lives(rest, w) THEN Lodges(rest, next, w) ELSE next = None
    <3>1. Lodges(s.list, s.active[w], w) BY <2>4, <2>10 DEF Good
    <3>2. s.active[w] # id => Lodges(rest, s.active[w], w) BY <2>6, <3>1
    <3>3. \A x : Lodges(rest, x, w) => Lives(rest, w) BY <2>7, LodgerIs
    <3> HIDE DEF w
    <3>4. QED BY <2>8, <2>9, <3>2, <3>3
  <2>12. next \in Opt(Ids)
    <3>1. \A x : Lodges(rest, x, w) => x \in Ids BY <2>7, LodgerIs
    <3>2. QED BY <2>11, <3>1 DEF Opt
  <2> HIDE DEF next
  <2>13. /\ t.list = rest /\ t.returns = [s.returns EXCEPT ![id] = None]
         /\ t.active = [s.active EXCEPT ![w] = next]
         /\ t.opened = s.opened /\ t.current = s.current /\ t.bare = s.bare
         /\ t.cursor = s.cursor /\ t.deferred = s.deferred
    BY <1>1, <2>2 DEF Wide
  <2>14. s.active \in [Workspaces -> Opt(Ids)] /\ s.returns \in [Ids -> Opt(Ids)]
    BY <1>1 DEF Wide
  <2>15. t.active \in [Workspaces -> Opt(Ids)] /\ t.returns \in [Ids -> Opt(Ids)]
    BY <2>12, <2>13, <2>14 DEF Opt
  <2>16. t \in Wide BY <1>1, <2>2, <2>7, <2>13, <2>15 DEF Wide
  <2> HIDE DEF t
  <2>17. \A x \in Ids : t.returns[x] # x
    BY <2>4, <2>13, <2>14, Names DEF Good
  <2>18. \A v \in Workspaces : IF Lives(t.list, v) THEN Lodges(t.list, t.active[v], v)
                               ELSE t.active[v] = None
    <3>1. SUFFICES ASSUME NEW v \in Workspaces
                   PROVE  IF Lives(rest, v) THEN Lodges(rest, t.active[v], v)
                          ELSE t.active[v] = None
      BY <2>13
    <3>2. CASE v = w BY <2>4, <2>11, <2>13, <2>14, <3>2
    <3>3. CASE v # w
      <4>1. t.active[v] = s.active[v] BY <2>13, <2>14, <3>3
      <4>2. Lodges(s.list, id, w) /\ \A u : Lodges(s.list, id, u) => u = w
        BY <2>1, <2>5 DEF Lodges
      <4>3. Lives(s.list, v) => Lodges(s.list, s.active[v], v) BY DEF Good
      <4>4. Lives(s.list, v) => Lodges(rest, s.active[v], v) BY <2>6, <3>3, <4>2, <4>3
      <4>5. ~Lives(s.list, v) => s.active[v] = None BY DEF Good
      <4>6. QED BY <2>6, <3>3, <4>1, <4>4, <4>5
    <3>4. QED BY <3>2, <3>3
  <2>19. \A k \in 1..Len(rest) : rest[k].id <= s.opened BY <2>6 DEF Good
  <2>20. Good(t) BY <2>6, <2>13, <2>16, <2>17, <2>18, <2>19 DEF Good
  <2>21. \A x, v : Lodges(t.list, x, v) <=> Lodges(s.list, x, v) /\ x \notin {id}
    BY <2>6, <2>13
  <2>22. QED BY <2>13, <2>20, <2>21 DEF Less, t
<1>4. QED BY <1>2, <1>3

(* The recursive function of Removed exists.                               *)
RemovesTo(f, s, ids, n) ==
    f = [i \in 0..n |-> IF i = 0 THEN s ELSE Without(f[i - 1], ids[i])]

LEMMA RemovesExists ==
  ASSUME NEW s, NEW ids
  PROVE  \A n \in Nat : \E f : RemovesTo(f, s, ids, n)
<1> DEFINE D == {n \in Nat : \E f : RemovesTo(f, s, ids, n)}
<1>1. 0 \in D
  <2>1. RemovesTo([i \in 0..0 |-> s], s, ids, 0) BY DEF RemovesTo
  <2>2. QED BY <2>1
<1>2. ASSUME NEW n \in D PROVE n + 1 \in D
  <2>1. PICK f : RemovesTo(f, s, ids, n) OBVIOUS
  <2>2. n \in Nat OBVIOUS
  <2> DEFINE last == Without(f[n], ids[n + 1])
             g == [i \in 0..(n + 1) |-> IF i = n + 1 THEN last ELSE f[i]]
  <2>3. \A i \in 0..n : f[i] = IF i = 0 THEN s ELSE Without(f[i - 1], ids[i])
    BY <2>1 DEF RemovesTo
  <2>4. \A i \in 0..(n + 1) : g[i] = IF i = 0 THEN s ELSE Without(g[i - 1], ids[i])
    BY <2>2, <2>3
  <2>5. RemovesTo(g, s, ids, n + 1) BY <2>2, <2>4 DEF RemovesTo
  <2>6. QED BY <2>2, <2>5
<1>3. D = Nat
  <2> HIDE DEF D
  <2>1. D \in SUBSET Nat BY DEF D
  <2>2. QED BY <1>1, <1>2, <2>1, SetInduction
<1>4. QED BY <1>3

LEMMA RemovedFrom ==
  ASSUME NEW s, NEW ids, Len(ids) \in Nat
  PROVE  \E f : /\ Removed(s, ids) = f[Len(ids)] /\ f[0] = s
                /\ \A i \in 1..Len(ids) : f[i] = Without(f[i - 1], ids[i])
<1> DEFINE g == CHOOSE f : RemovesTo(f, s, ids, Len(ids))
<1>1. RemovesTo(g, s, ids, Len(ids)) BY RemovesExists
<1>2. Removed(s, ids) = g[Len(ids)] BY DEF Removed, RemovesTo
<1> HIDE DEF g
<1>3. \A i \in 0..Len(ids) : g[i] = IF i = 0 THEN s ELSE Without(g[i - 1], ids[i])
  BY <1>1 DEF RemovesTo
<1>4. g[0] = s /\ \A i \in 1..Len(ids) : g[i] = Without(g[i - 1], ids[i]) BY <1>3
<1>5. QED BY <1>2, <1>4

LEMMA RemovedOne ==
  ASSUME NEW s, NEW id
  PROVE  Removed(s, <<id>>) = Without(s, id)
<1> DEFINE q == <<id>>
<1>1. Len(q) = 1 /\ q[1] = id OBVIOUS
<1> HIDE DEF q
<1>2. PICK f : /\ Removed(s, q) = f[Len(q)] /\ f[0] = s
               /\ \A i \in 1..Len(q) : f[i] = Without(f[i - 1], q[i])
  BY <1>1, RemovedFrom
<1>3. f[1] = Without(f[0], q[1]) BY <1>1, <1>2
<1>4. QED BY <1>1, <1>2, <1>3 DEF q

LEMMA RemovedIs ==
  ASSUME NEW s, Good(s), NEW ids \in Seq(Ids)
  PROVE  Less(s, Removed(s, ids), ToSet(ids))
<1> DEFINE n == Len(ids)
           first(m) == {ids[k] : k \in 1..m}
<1>1. n \in Nat /\ DOMAIN ids = 1..n OBVIOUS
<1>2. PICK f : /\ Removed(s, ids) = f[n] /\ f[0] = s
               /\ \A i \in 1..n : f[i] = Without(f[i - 1], ids[i])
  BY RemovedFrom
<1> DEFINE D == {m \in Nat : m <= n => Less(s, f[m], first(m))}
<1>3. 0 \in D
  <2>1. first(0) = {} OBVIOUS
  <2>2. Less(s, s, {}) BY DEF Less
  <2>3. QED BY <1>2, <2>1, <2>2
<1>4. ASSUME NEW m \in D PROVE m + 1 \in D
  <2>1. SUFFICES ASSUME m + 1 <= n PROVE Less(s, f[m + 1], first(m + 1)) OBVIOUS
  <2>2. m \in Nat /\ m <= n /\ m + 1 \in 1..n /\ (m + 1) - 1 = m BY <1>1, <2>1
  <2>3. Less(s, f[m], first(m)) BY <2>2
  <2>4. f[m + 1] = Without(f[m], ids[m + 1]) BY <1>2, <2>2
  <2>5. Less(f[m], f[m + 1], {ids[m + 1]})
    <3>1. Good(f[m]) BY <2>3 DEF Less
    <3>2. QED BY <2>4, <3>1, WithoutIs
  <2>6. first(m + 1) = first(m) \cup {ids[m + 1]} BY <2>2
  <2> HIDE DEF first
  <2>7. QED BY <2>3, <2>5, <2>6 DEF Less
<1>5. D = Nat
  <2> HIDE DEF D
  <2>1. D \in SUBSET Nat BY DEF D
  <2>2. QED BY <1>3, <1>4, <2>1, SetInduction
<1>6. Less(s, f[n], first(n))
  <2>1. n \in D BY <1>1, <1>5
  <2>2. n <= n BY <1>1
  <2>3. QED BY <2>1, <2>2
<1>7. ToSet(ids) = first(n) BY <1>1 DEF ToSet
<1>8. QED BY <1>2, <1>6, <1>7

(* Where a ring lands is open, and not among what is closed.               *)
LEMMA RingLandingIs ==
  ASSUME NEW s, Good(s), NEW ids \in Seq(Ids), NEW w
  PROVE  LET to == RingLanding(s, ids, w) IN
         to = None \/ (to \notin ToSet(ids) /\ \E v : Lodges(s.list, to, v))
<1> DEFINE ring == Ring(s)
           places == {i \in DOMAIN ring : ring[i] \in ToSet(ids)}
           left(group) == {i \in DOMAIN ring \ places :
                             \E e \in ToSet(s.list) : e.id = ring[i] /\ e.ws \in group}
           after(group) == {i \in left(group) : \A j \in places : j < i}
           before(group) == {i \in left(group) : \A j \in places : i < j}
           least(S) == CHOOSE i \in S : \A j \in S : i <= j
           most(S) == CHOOSE i \in S : \A j \in S : j <= i
           search(group) == IF after(group) # {} THEN ring[least(after(group))]
                            ELSE IF before(group) # {} THEN ring[most(before(group))]
                            ELSE None
           own == IF ui.policy = "ring_project" /\ w # Home /\ ~(w = Feature /\ feature = "gone")
                  THEN search({Trunk, Feature}) ELSE None
           Fine(to) == to = None \/ (to \notin ToSet(ids) /\ \E v : Lodges(s.list, to, v))
<1>1. s.list \in Lists /\ DOMAIN s.list = 1..Len(s.list) BY DEF Good, Wide, Lists
<1>2. ring \in Seq(Ids)
  <2>1. In(s.list, Home) \in Seq(Ids) /\ In(s.list, Trunk) \in Seq(Ids)
        /\ In(s.list, Feature) \in Seq(Ids)
    BY <1>1, InType
  <2>2. QED BY <2>1 DEF Ring
<1> HIDE DEF ring
<1>3. DOMAIN ring = 1..Len(ring) /\ Len(ring) \in Nat BY <1>2
<1>4. ASSUME NEW group, NEW i \in left(group) PROVE Fine(ring[i])
  <2>1. ring[i] \notin ToSet(ids) /\ \E e \in ToSet(s.list) : e.id = ring[i] /\ e.ws \in group
    BY <1>4
  <2>2. PICK k \in 1..Len(s.list) : s.list[k].id = ring[i] BY <1>1, <2>1 DEF ToSet
  <2>3. Lodges(s.list, ring[i], s.list[k].ws) BY <2>2 DEF Lodges
  <2>4. QED BY <2>1, <2>3
<1>5. ASSUME NEW group PROVE Fine(search(group))
  <2>1. /\ after(group) \in SUBSET Nat /\ before(group) \in SUBSET (0..Len(ring))
        /\ after(group) \subseteq left(group) /\ before(group) \subseteq left(group)
    BY <1>3
  <2> DEFINE A == after(group)
             B == before(group)
  <2>2. A \in SUBSET Nat /\ B \in SUBSET (0..Len(ring)) /\ A \subseteq left(group) /\ B \subseteq left(group)
    BY <2>1
  <2>3. search(group) = IF A # {} THEN ring[least(A)] ELSE IF B # {} THEN ring[most(B)] ELSE None
    OBVIOUS
  <2> HIDE DEF A, B, left, search
  <2>4. A # {} => least(A) \in A
    <3>1. A # {} => \E i \in A : \A j \in A : i <= j BY <2>2, HasLeast
    <3>2. QED BY <3>1
  <2>5. B # {} => most(B) \in B
    <3>1. B # {} => \E i \in B : \A j \in B : j <= i BY <1>3, <2>2, HasGreatest
    <3>2. QED BY <3>1
  <2> HIDE DEF least, most, Fine
  <2>6. A # {} => Fine(ring[least(A)]) BY <1>4, <2>2, <2>4
  <2>7. B # {} => Fine(ring[most(B)]) BY <1>4, <2>2, <2>5
  <2>8. Fine(None) BY DEF Fine
  <2>9. QED BY <2>3, <2>6, <2>7, <2>8
<1>6. RingLanding(s, ids, w) =
        IF places = {} THEN None ELSE IF own # None THEN own ELSE search(Workspaces)
  BY DEF RingLanding, ring
<1> HIDE DEF search, places
<1>7. Fine(own) BY <1>5
<1> HIDE DEF own
<1>8. Fine(search(Workspaces)) BY <1>5
<1>9. QED BY <1>6, <1>7, <1>8

Rings == ui.policy \in {"ring_global", "ring_project"}

(* A verdict sends the user away from a workspace they are in and that is  *)
(* left empty: home, to the main checkout if somebody lives there, or to a *)
(* session that is left.                                                   *)
LEMMA VerdictIs ==
  ASSUME NEW s, Good(s), NEW left, left \in Wide, NEW ids \in Seq(Ids), NEW w, NEW reason,
         \A x, v : Lodges(left.list, x, v) <=> Lodges(s.list, x, v) /\ x \notin ToSet(ids)
  PROVE  LET v == Verdict(s, left, ids, w, reason) IN
         /\ v = None => reason = "spawn_failed" \/ w # left.current \/ Lives(left.list, w)
         /\ v # None =>
              /\ w = left.current /\ ~Lives(left.list, w) /\ reason # "spawn_failed"
              /\ \/ v = Home
                 \/ v = Trunk /\ Lives(left.list, Trunk)
                 \/ Rings /\ v \in Ids /\ \E u : Lodges(left.list, v, u)
<1> DEFINE fb == CloseFallback(left, w, reason)
           fallback == IF reason = "spawn_failed" THEN None ELSE fb
           landing == IF ui.policy \in {"ring_global", "ring_project"}
                      THEN RingLanding(s, ids, w) ELSE None
<1>1. landing = None \/ (Rings /\ landing \in Ids /\ \E u : Lodges(left.list, landing, u))
  <2>1. RingLanding(s, ids, w) = None
        \/ (RingLanding(s, ids, w) \notin ToSet(ids) /\ \E u : Lodges(s.list, RingLanding(s, ids, w), u))
    BY RingLandingIs
  <2>2. s.list \in Lists BY DEF Good, Wide
  <2>3. \A x, u : Lodges(s.list, x, u) => x \in Ids BY <2>2, LodgerIs
  <2>4. QED BY <2>1, <2>3 DEF Rings
<1>0. /\ In(left.list, w) = <<>> <=> ~Lives(left.list, w)
      /\ In(left.list, Trunk) = <<>> <=> ~Lives(left.list, Trunk)
      /\ Home # None /\ Trunk # None
  BY HereIs, Names DEF Workspaces
<1>2. fb = None <=> w # left.current \/ Lives(left.list, w)
  BY <1>0 DEF CloseFallback
<1>3. fb # None => fb = Home \/ (fb = Trunk /\ Lives(left.list, Trunk))
  BY <1>0 DEF CloseFallback
<1>4. Verdict(s, left, ids, w, reason) = IF fallback # None /\ landing # None THEN landing ELSE fallback
  BY DEF Verdict
<1> HIDE DEF fb, landing
<1>5. QED BY <1>1, <1>2, <1>3, <1>4

(* The cursor, the verdict that waits and the failed spawns are no part of *)
(* Good.                                                                   *)
LEMMA GoodCursor ==
  ASSUME NEW s, Good(s), NEW c \in Opt(Rows)
  PROVE  LET t == [s EXCEPT !.cursor = c] IN
         /\ Good(t) /\ t.list = s.list /\ t.opened = s.opened /\ t.current = s.current
         /\ t.active = s.active /\ t.bare = s.bare /\ t.cursor = c /\ t.deferred = s.deferred
         /\ t.returns = s.returns
<1> DEFINE t == [s EXCEPT !.cursor = c]
<1>1. s \in Wide BY DEF Good
<1>2. /\ t.list = s.list /\ t.opened = s.opened /\ t.current = s.current /\ t.returns = s.returns
      /\ t.active = s.active /\ t.bare = s.bare /\ t.cursor = c /\ t.deferred = s.deferred
  BY <1>1 DEF Wide
<1>3. t \in Wide BY <1>1 DEF Wide
<1> HIDE DEF t
<1>4. Good(t) BY <1>2, <1>3 DEF Good
<1>5. QED BY <1>2, <1>4 DEF t

LEMMA GoodDeferred ==
  ASSUME NEW s, Good(s), NEW d \in [to : Workspaces \cup Opt(Ids), tree : BOOLEAN]
  PROVE  LET t == [s EXCEPT !.deferred = d] IN
         /\ Good(t) /\ t.list = s.list /\ t.opened = s.opened /\ t.current = s.current
         /\ t.active = s.active /\ t.bare = s.bare /\ t.cursor = s.cursor /\ t.deferred = d
<1> DEFINE t == [s EXCEPT !.deferred = d]
<1>1. s \in Wide BY DEF Good
<1>2. /\ t.list = s.list /\ t.opened = s.opened /\ t.current = s.current /\ t.returns = s.returns
      /\ t.active = s.active /\ t.bare = s.bare /\ t.cursor = s.cursor /\ t.deferred = d
  BY <1>1 DEF Wide
<1>3. t \in Wide BY <1>1 DEF Wide
<1> HIDE DEF t
<1>4. Good(t) BY <1>2, <1>3 DEF Good
<1>5. QED BY <1>2, <1>4 DEF t

LEMMA GoodBare ==
  ASSUME NEW s, Good(s), NEW b \in SUBSET Workspaces
  PROVE  LET t == [s EXCEPT !.bare = b] IN
         /\ Good(t) /\ t.list = s.list /\ t.opened = s.opened /\ t.current = s.current
         /\ t.active = s.active /\ t.bare = b /\ t.cursor = s.cursor
         /\ t.deferred = s.deferred
<1> DEFINE t == [s EXCEPT !.bare = b]
<1>1. s \in Wide BY DEF Good
<1>2. /\ t.list = s.list /\ t.opened = s.opened /\ t.current = s.current /\ t.returns = s.returns
      /\ t.active = s.active /\ t.bare = b /\ t.cursor = s.cursor
      /\ t.deferred = s.deferred
  BY <1>1 DEF Wide
<1>3. t \in Wide BY <1>1 DEF Wide
<1> HIDE DEF t
<1>4. Good(t) BY <1>2, <1>3 DEF Good
<1>5. QED BY <1>2, <1>4 DEF t

(* At most one more session than s has.                                    *)
Longer(s, t) ==
    \/ t.list = s.list /\ t.opened = s.opened
    \/ \E e \in Sessions : e.id = s.opened + 1 /\ t.list = Append(s.list, e)

LEMMA GrownLonger ==
  ASSUME NEW s, NEW t, Grown(s, t), t.opened <= MaxSessions
  PROVE  Longer(s, t)
<1>1. ~(MaxSessions + 1 <= MaxSessions) BY Names
<1>2. QED BY <1>1 DEF Grown, Longer

LEMMA LongerLives ==
  ASSUME NEW s, s.list \in Lists, NEW t, Longer(s, t), NEW w
  PROVE  Lives(s.list, w) => Lives(t.list, w)
<1>1. CASE t.list = s.list BY <1>1
<1>2. CASE \E e \in Sessions : e.id = s.opened + 1 /\ t.list = Append(s.list, e)
  <2>1. PICK e \in Sessions : t.list = Append(s.list, e) BY <1>2
  <2>2. /\ 1..Len(s.list) \subseteq 1..Len(t.list)
        /\ \A i \in 1..Len(s.list) : t.list[i] = s.list[i]
    BY <2>1 DEF Lists
  <2>3. QED BY <2>2 DEF Lives
<1>3. QED BY <1>1, <1>2 DEF Longer

(* A spawn strands nobody.                                                 *)
LEMMA SpawnSettles ==
  ASSUME NEW s, Good(s), s.opened <= MaxSessions, NEW w \in Workspaces,
         Spawn(s, w).opened <= MaxSessions, NEW v,
         Lives(s.list, v) \/ v \in s.bare
  PROVE  Lives(Spawn(s, w).list, v) \/ v \in Spawn(s, w).bare
<1>1. s \in Wide /\ s.list \in Lists /\ s.opened \in 0..MaxSessions /\ MaxSessions \in Nat
  BY Names DEF Good, Wide
<1>2. Grown(s, Spawn(s, w)) BY SpawnIs
<1>3. Lives(s.list, v) => Lives(Spawn(s, w).list, v)
  BY <1>1, <1>2, GrownLonger, LongerLives
<1>4. CASE Gone(w)
  <2>1. Spawn(s, w).bare = s.bare \cup {w} BY <1>1, <1>4 DEF Spawn, Wide
  <2>2. QED BY <1>3, <2>1
<1>5. CASE ~Gone(w) /\ s.opened = MaxSessions
  <2>1. Spawn(s, w).opened = MaxSessions + 1 BY <1>1, <1>5 DEF Spawn, Wide
  <2>2. QED BY <1>1, <2>1
<1>6. CASE ~Gone(w) /\ s.opened # MaxSessions
  <2>1. Spawn(s, w) = Push(s, w, FALSE) /\ s.opened < MaxSessions BY <1>1, <1>6 DEF Spawn
  <2>2. FALSE \in BOOLEAN OBVIOUS
  <2>3. Push(s, w, FALSE).bare = s.bare \ {w} /\ Lives(Push(s, w, FALSE).list, w)
    BY <2>1, <2>2, GoodPush
  <2>4. QED BY <1>3, <2>1, <2>3
<1>7. QED BY <1>4, <1>5, <1>6

(* Wherever a verdict goes that is worth following, somebody is there.     *)
Worthy(v) == v \in {Home, Trunk} \/ (Rings /\ v \in Ids)

LEMMA ApplyIs ==
  ASSUME NEW s, Good(s), s.opened <= MaxSessions, NEW v \in Workspaces \cup Opt(Ids)
  PROVE  LET t == Apply(s, v) IN
         /\ Grown(s, t)
         /\ v = None => t = s
         /\ t.opened <= MaxSessions =>
              /\ v \in {Home, Trunk} => t.current = v /\ Settled(t)
              /\ \A w : Lodges(s.list, v, w) => t.current = w /\ Settled(t)
<1>1. s \in Wide /\ s.list \in Lists BY DEF Good, Wide
<1>2. \A w : Lodges(s.list, v, w) => v \in Ids BY <1>1, LodgerIs
<1>3. CASE v = None
  <2>1. Apply(s, v) = s BY <1>3 DEF Apply
  <2>2. v \notin {Home, Trunk} /\ v \notin Ids BY <1>3, Names DEF Workspaces
  <2>3. QED BY <1>2, <2>1, <2>2 DEF Grown
<1>4. CASE v \in Workspaces
  <2>1. Apply(s, v) = ActivateWs(s, v) /\ v \notin Ids /\ v # None BY <1>4, Names DEF Apply
  <2>2. v \in {Home, Trunk} => ~Gone(v) BY Names DEF Gone
  <2>3. /\ Grown(s, ActivateWs(s, v))
        /\ ActivateWs(s, v).opened <= MaxSessions =>
              IF Gone(v) /\ In(s.list, v) = <<>> THEN ActivateWs(s, v) = s
              ELSE ActivateWs(s, v).current = v /\ Settled(ActivateWs(s, v))
    BY <1>4, ActivateWsIs
  <2>4. QED BY <1>2, <2>1, <2>2, <2>3
<1>5. CASE v \in Ids
  <2>1. v \notin Workspaces /\ v # None BY <1>5, Names
  <2>2. Apply(s, v) = ActivateId(s, v) BY <2>1 DEF Apply
  <2> DEFINE t == ActivateId(s, v)
  <2>3. /\ Grown(s, t) /\ t.list = s.list /\ t.opened = s.opened
        /\ ~Open(s, v) => t = s
        /\ \A w : Lodges(s.list, v, w) =>
             /\ t.current = w /\ Lives(t.list, w) /\ t.active = [s.active EXCEPT ![w] = v]
    BY ActivateIdIs
  <2> HIDE DEF t
  <2>4. Apply(s, v) = t BY <2>2 DEF t
  <2>5. QED BY <2>1, <2>3, <2>4 DEF Settled, Workspaces
<1>6. QED BY <1>3, <1>4, <1>5 DEF Opt

(* NotStranded, of any such record.                                        *)
Roomed(s) == Settled(s) \/ s.deferred # NotDeferred

LEMMA WorthyDefers ==
  ASSUME NEW d, Worthy(d.to)
  PROVE  d # NotDeferred /\ d.to # None
<1>1. None \notin {Home, Trunk} /\ None \notin Ids BY Names DEF Workspaces
<1>2. QED BY <1>1 DEF Worthy, NotDeferred

LEMMA CloseIs ==
  ASSUME NEW s, Good(s), s.opened <= MaxSessions, NEW ids \in Seq(Ids), NEW w \in Workspaces,
         NEW reason
  PROVE  LET u == Close(s, ids, w, reason)
             r == Removed(s, ids) IN
         /\ Good(u)
         /\ u.opened <= MaxSessions => Longer(r, u)
         /\ u.deferred = s.deferred \/ (ui.follow /\ Worthy(u.deferred.to))
         /\ reason = "spawn_failed" =>
              /\ u.list = r.list /\ u.current = s.current /\ u.bare = s.bare
              /\ u.deferred = s.deferred /\ u.opened = s.opened
         /\ /\ u.opened <= MaxSessions /\ reason # "spawn_failed" /\ Roomed(s)
            /\ \A x \in ToSet(ids) : Lodges(s.list, x, w)
            => Roomed(u)
<1> DEFINE r == Removed(s, ids)
           returned == IF s.cursor \in ToSet(ids) THEN ReturnTarget(s, s.cursor) ELSE None
           c == IF returned # None THEN returned ELSE r.cursor
           left == [r EXCEPT !.cursor = IF returned # None THEN returned ELSE @]
           verdict == Verdict(s, left, ids, w, reason)
           d == [to |-> verdict, tree |-> reason = "deleted"]
           u == Close(s, ids, w, reason)
<1>1. s \in Wide /\ s.list \in Lists BY DEF Good, Wide
<1>2. Less(s, r, ToSet(ids)) BY RemovedIs
<1>3. r \in Wide /\ Good(r) BY <1>2 DEF Less, Good
<1> HIDE DEF r
<1>4. c \in Opt(Rows)
  <2>1. \A x : ReturnTarget(s, x) \in {s.returns[x], None} BY DEF ReturnTarget
  <2>2. s.cursor \in ToSet(ids) => s.cursor \in Ids BY DEF ToSet
  <2>3. \A x \in Ids : s.returns[x] \in Opt(Ids) BY <1>1 DEF Wide
  <2>4. returned \in Opt(Ids) BY <2>1, <2>2, <2>3 DEF Opt
  <2>5. r.cursor \in Opt(Rows) BY <1>3 DEF Wide
  <2>6. QED BY <2>4, <2>5 DEF Opt, Rows
<1>5. left = [r EXCEPT !.cursor = c] OBVIOUS
<1> HIDE DEF c, left
<1>6. /\ Good(left) /\ left.list = r.list /\ left.opened = r.opened /\ left.current = r.current
      /\ left.active = r.active /\ left.bare = r.bare /\ left.deferred = r.deferred
  BY <1>3, <1>4, <1>5, GoodCursor
<1>7. left.opened = s.opened /\ left.current = s.current /\ left.bare = s.bare
      /\ left.deferred = s.deferred
      /\ \A x, v : Lodges(left.list, x, v) <=> Lodges(s.list, x, v) /\ x \notin ToSet(ids)
  BY <1>2, <1>6 DEF Less
<1>8. /\ verdict = None => reason = "spawn_failed" \/ w # left.current \/ Lives(left.list, w)
      /\ verdict # None =>
           /\ w = left.current /\ ~Lives(left.list, w) /\ reason # "spawn_failed"
           /\ \/ verdict = Home
              \/ verdict = Trunk /\ Lives(left.list, Trunk)
              \/ Rings /\ verdict \in Ids /\ \E v : Lodges(left.list, verdict, v)
  <2>1. left \in Wide BY <1>6 DEF Good
  <2>2. QED BY <1>7, <2>1, VerdictIs
<1>9. u = IF verdict = None THEN left
          ELSE IF ui.policy = "respawn" /\ reason # "deleted" THEN Spawn(left, w)
          ELSE IF ui.follow THEN [left EXCEPT !.deferred = d]
          ELSE Apply(left, verdict)
  BY DEF Close, Leave, left, r, c
<1> HIDE DEF verdict, u
<1>10. Longer(r, left) BY <1>6 DEF Longer
<1>11. \A t : Longer(left, t) => Longer(r, t) BY <1>6 DEF Longer
<1>12. ASSUME \A x \in ToSet(ids) : Lodges(s.list, x, w), w # s.current, Settled(s)
       PROVE  Settled(left)
  <2>1. \A x \in ToSet(ids) : ~Lodges(s.list, x, s.current)
    BY <1>12 DEF Good, Lodges
  <2>2. Lives(s.list, s.current) => Lives(left.list, s.current)
    <3>1. s.current \in Workspaces BY <1>1 DEF Wide
    <3>2. Lives(s.list, s.current) => Lodges(s.list, s.active[s.current], s.current)
      BY <3>1 DEF Good
    <3>3. Lives(s.list, s.current) => Lodges(left.list, s.active[s.current], s.current)
      BY <1>7, <2>1, <3>2
    <3>4. left.list \in Lists BY <1>6 DEF Good, Wide
    <3>5. QED BY <3>3, <3>4, LodgerIs
  <2>3. QED BY <1>7, <1>12, <2>2 DEF Settled
<1>13. CASE verdict = None
  <2>1. u = left BY <1>9, <1>13
  <2>2. (\A x \in ToSet(ids) : Lodges(s.list, x, w)) /\ reason # "spawn_failed" /\ Roomed(s)
          => Roomed(left)
    BY <1>7, <1>8, <1>12, <1>13 DEF Roomed, Settled
  <2>3. QED BY <1>2, <1>6, <1>7, <1>10, <2>1, <2>2 DEF u, r
<1>14. CASE verdict # None /\ ui.policy = "respawn" /\ reason # "deleted"
  <2>1. u = Spawn(left, w) BY <1>9, <1>14
  <2>2. /\ Grown(left, u) /\ u.current = left.current
        /\ Gone(w) => u.list = left.list /\ u.active = left.active
        /\ u.opened <= MaxSessions => Lives(u.list, w) \/ w \in u.bare
    BY <1>6, <1>7, <2>1, SpawnIs
  <2>3. Good(u) /\ u.deferred = s.deferred BY <1>7, <2>2 DEF Grown
  <2>4. u.opened <= MaxSessions => Longer(r, u) BY <1>11, <2>2, GrownLonger
  <2>5. u.opened <= MaxSessions => Roomed(u) BY <1>8, <1>14, <2>2 DEF Roomed, Settled
  <2>6. QED BY <1>8, <1>14, <2>3, <2>4, <2>5 DEF u, r
<1>15. CASE verdict # None /\ ~(ui.policy = "respawn" /\ reason # "deleted") /\ ui.follow
  <2>1. u = [left EXCEPT !.deferred = d] BY <1>9, <1>15
  <2>2. Worthy(verdict) BY <1>8, <1>15 DEF Worthy
  <2>3. d \in [to : Workspaces \cup Opt(Ids), tree : BOOLEAN] /\ d.to = verdict
    BY <2>2 DEF Worthy, Workspaces, Opt
  <2> HIDE DEF d
  <2>4. /\ Good(u) /\ u.list = left.list /\ u.opened = left.opened /\ u.current = left.current
        /\ u.active = left.active /\ u.bare = left.bare /\ u.cursor = left.cursor
        /\ u.deferred = d
    BY <1>6, <2>1, <2>3, GoodDeferred
  <2>5. Longer(r, u) BY <1>6, <2>4 DEF Longer
  <2>6. Roomed(u) BY <2>2, <2>3, <2>4, WorthyDefers DEF Roomed
  <2>7. QED BY <1>8, <1>15, <2>2, <2>3, <2>4, <2>5, <2>6 DEF u, r
<1>16. CASE verdict # None /\ ~(ui.policy = "respawn" /\ reason # "deleted") /\ ~ui.follow
  <2>1. u = Apply(left, verdict) BY <1>9, <1>16
  <2>2. verdict \in Workspaces \cup Opt(Ids) BY <1>8, <1>16 DEF Workspaces, Opt
  <2>3. /\ Grown(left, u)
        /\ verdict = None => u = left
        /\ u.opened <= MaxSessions =>
              /\ verdict \in {Home, Trunk} => u.current = verdict /\ Settled(u)
              /\ \A v : Lodges(left.list, verdict, v) => u.current = v /\ Settled(u)
    BY <1>6, <1>7, <2>1, <2>2, ApplyIs
  <2>4. Good(u) /\ u.deferred = s.deferred BY <1>7, <2>3 DEF Grown
  <2>5. u.opened <= MaxSessions => Longer(r, u) BY <1>11, <2>3, GrownLonger
  <2>6. u.opened <= MaxSessions => Roomed(u) BY <1>8, <1>16, <2>3 DEF Roomed
  <2>7. QED BY <1>8, <1>16, <2>4, <2>5, <2>6 DEF u, r
<1>17. QED BY <1>13, <1>14, <1>15, <1>16

-----------------------------------------------------------------------------
(* Moving.                                                                 *)

(* t has the sessions of s, wherever they are.                             *)
SameIds(s, t) == \A x : (\E v : Lodges(t.list, x, v)) <=> (\E v : Lodges(s.list, x, v))

LEMMA MoveToIs ==
  ASSUME NEW s, Good(s), NEW id, Open(s, id), NEW w \in Workspaces, ~Lodges(s.list, id, w)
  PROVE  LET t == MoveTo(s, id, w) IN
         /\ Good(t) /\ t.opened = s.opened /\ t.deferred = s.deferred /\ t.cursor = s.cursor
         /\ SameIds(s, t) /\ Lodges(t.list, id, w)
         /\ Settled(s) => Settled(t)
         /\ OnScreen(s) \in {None, OnScreen(t)}
<1> DEFINE i == At(s.list, id)
           from == s.list[i].ws
           list == [s.list EXCEPT ![i].ws = w]
           wasActive == s.active[from] = id
           onScreen == wasActive /\ s.current = from
           next == IF In(list, from) = <<>> THEN None ELSE Head(In(list, from))
           a == IF wasActive THEN next ELSE s.active[from]
           b == IF onScreen \/ s.active[w] = None THEN id ELSE s.active[w]
           active == [[s.active EXCEPT ![from] = a] EXCEPT ![w] = b]
           c == IF onScreen THEN w ELSE s.current
           t == MoveTo(s, id, w)
<1>1. s \in Wide /\ s.list \in Lists /\ s.active \in [Workspaces -> Opt(Ids)]
      /\ s.current \in Workspaces /\ s.bare \subseteq Workspaces
  BY DEF Good, Wide
<1>2. i \in 1..Len(s.list) /\ s.list[i].id = id BY <1>1, AtIs DEF Open
<1> HIDE DEF i
<1>3. s.list[i] \in Sessions BY <1>1, <1>2 DEF Lists
<1>4. id \in Ids /\ from \in Workspaces /\ Lodges(s.list, id, from)
  BY <1>2, <1>3 DEF Sessions, Lodges
<1>5. from # w BY <1>4
<1>6. /\ list \in Lists /\ Len(list) = Len(s.list)
      /\ list[i].id = id /\ list[i].ws = w
      /\ \A k \in 1..Len(s.list) : k # i => list[k] = s.list[k]
  <2>1. [s.list[i] EXCEPT !.ws = w] \in Sessions BY <1>3 DEF Sessions
  <2>2. [s.list[i] EXCEPT !.ws = w].id = id /\ [s.list[i] EXCEPT !.ws = w].ws = w
    BY <1>2, <1>3 DEF Sessions
  <2>3. list = [s.list EXCEPT ![i] = [s.list[i] EXCEPT !.ws = w]] OBVIOUS
  <2>4. QED BY <1>1, <1>2, <2>1, <2>2, <2>3 DEF Lists
<1> HIDE DEF list
<1>7. t = [s EXCEPT !.list = list, !.active = active, !.current = c, !.bare = s.bare \ {w}]
  <2> DEFINE after == [s.active EXCEPT ![from] = IF wasActive THEN next ELSE @,
                                       ![w] = IF onScreen \/ @ = None THEN id ELSE @]
  <2>1. t = [s EXCEPT !.list = list, !.active = after,
                      !.current = IF onScreen THEN w ELSE @, !.bare = @ \ {w}]
    BY DEF MoveTo, i, list
  <2>2. after = active
    <3> HIDE DEF next, from
    <3>1. QED BY <1>1, <1>4, <1>5
  <2> HIDE DEF after, active, list, onScreen
  <2>3. QED BY <2>1, <2>2
<1>8. \A k \in 1..Len(s.list) : s.list[k].id = id => k = i BY <1>2 DEF Good
<1> HIDE DEF from
<1>9. \A x, v : Lodges(list, x, v) <=> IF x = id THEN v = w ELSE Lodges(s.list, x, v)
  <2>1. ASSUME NEW x, NEW v, Lodges(list, x, v)
        PROVE  IF x = id THEN v = w ELSE Lodges(s.list, x, v)
    <3>1. PICK k \in 1..Len(s.list) : list[k].ws = v /\ list[k].id = x BY <1>6, <2>1 DEF Lodges
    <3>2. CASE k = i BY <1>6, <3>1, <3>2
    <3>3. CASE k # i BY <1>6, <1>8, <3>1, <3>3 DEF Lodges
    <3>4. QED BY <3>2, <3>3
  <2>2. ASSUME NEW x, NEW v, x # id, Lodges(s.list, x, v) PROVE Lodges(list, x, v)
    <3>1. PICK k \in 1..Len(s.list) : s.list[k].ws = v /\ s.list[k].id = x BY <2>2 DEF Lodges
    <3>2. k # i BY <1>2, <2>2, <3>1
    <3>3. QED BY <1>6, <3>1, <3>2 DEF Lodges
  <2>3. Lodges(list, id, w) BY <1>2, <1>6 DEF Lodges
  <2>4. QED BY <2>1, <2>2, <2>3
<1>10. \A v : v \notin {from, w} => (Lives(list, v) <=> Lives(s.list, v))
  <2>1. \A l \in Lists : \A v : Lives(l, v) <=> \E x : Lodges(l, x, v) BY LodgerIs DEF Lives, Lodges
  <2>2. \A v : Lodges(s.list, id, v) => v = from BY <1>4, <1>8 DEF Lodges
  <2>3. QED BY <1>1, <1>6, <1>9, <2>1, <2>2
<1>11. Lives(list, w) BY <1>6, <1>9, LodgerIs
<1>12. IF Lives(list, from) THEN Lodges(list, next, from) ELSE next = None
  <2>1. In(list, from) = <<>> <=> ~Lives(list, from) BY <1>6, InEmpty DEF Lives
  <2>2. In(list, from) # <<>> => Lodges(list, Head(In(list, from)), from) BY <1>6, HeadLodges
  <2>3. QED BY <2>1, <2>2
<1>13. ~wasActive => Lodges(list, s.active[from], from) /\ Lives(list, from)
  <2>1. Lodges(s.list, s.active[from], from)
    <3>1. Lives(s.list, from) BY <1>1, <1>4, LodgerIs
    <3>2. QED BY <1>4, <3>1 DEF Good
  <2>2. ~wasActive => Lodges(list, s.active[from], from) BY <1>9, <2>1
  <2>3. QED BY <1>6, <2>2, LodgerIs
<1> HIDE DEF next
<1>14. IF Lives(list, from) THEN Lodges(list, a, from) ELSE a = None
  BY <1>12, <1>13
<1>15. Lodges(list, b, w)
  <2>1. s.active[w] # None => Lodges(s.list, s.active[w], w) /\ s.active[w] # id
    BY DEF Good
  <2>2. QED BY <1>9, <2>1
<1>16. a \in Opt(Ids) /\ b \in Opt(Ids)
  <2>1. \A x, v : Lodges(list, x, v) => x \in Ids BY <1>6, LodgerIs
  <2>2. QED BY <1>14, <1>15, <2>1 DEF Opt
<1>17. c \in Workspaces BY <1>1
<1> HIDE DEF a, b
<1>18. /\ active \in [Workspaces -> Opt(Ids)] /\ active[from] = a /\ active[w] = b
       /\ \A v \in Workspaces : v \notin {from, w} => active[v] = s.active[v]
  BY <1>1, <1>4, <1>5, <1>16
<1> HIDE DEF active, c
<1>19. /\ t.list = list /\ t.active = active /\ t.current = c /\ t.bare = s.bare \ {w}
       /\ t.returns = s.returns /\ t.opened = s.opened /\ t.deferred = s.deferred
       /\ t.cursor = s.cursor
  BY <1>1, <1>7 DEF Wide
<1>20. t \in Wide
  <2>1. s.bare \ {w} \in SUBSET Workspaces BY <1>1
  <2>2. QED BY <1>1, <1>6, <1>7, <1>17, <1>18, <2>1 DEF Wide
<1> HIDE DEF t
<1>21. \A v \in Workspaces : IF Lives(list, v) THEN Lodges(list, active[v], v)
                             ELSE active[v] = None
  <2>1. SUFFICES ASSUME NEW v \in Workspaces
                 PROVE  IF Lives(list, v) THEN Lodges(list, active[v], v) ELSE active[v] = None
    OBVIOUS
  <2>2. CASE v = from BY <1>14, <1>18, <2>2
  <2>3. CASE v = w BY <1>11, <1>15, <1>18, <2>3
  <2>4. CASE v \notin {from, w}
    <3>1. IF Lives(s.list, v) THEN Lodges(s.list, s.active[v], v) ELSE s.active[v] = None
      BY DEF Good
    <3>2. ~Lodges(s.list, id, v) BY <1>2, <1>4, <1>8, <2>4 DEF Lodges
    <3>3. QED BY <1>9, <1>10, <1>18, <2>4, <3>1, <3>2
  <2>5. QED BY <2>2, <2>3, <2>4
<1>22. /\ \A k, j \in 1..Len(list) : list[k].id = list[j].id => k = j
       /\ \A k \in 1..Len(list) : list[k].id <= s.opened
  <2>1. \A k \in 1..Len(list) : k \in 1..Len(s.list) /\ list[k].id = s.list[k].id BY <1>2, <1>6
  <2>2. QED BY <2>1 DEF Good
<1>23. Good(t)
  <2>1. \A x \in Ids : t.returns[x] # x BY <1>19 DEF Good
  <2>2. QED BY <1>19, <1>20, <1>21, <1>22, <2>1 DEF Good
<1>24. SameIds(s, t)
  <2>1. \A x : x # id => (\E v : Lodges(list, x, v)) <=> (\E v : Lodges(s.list, x, v)) BY <1>9
  <2>2. (\E v : Lodges(list, id, v)) /\ (\E v : Lodges(s.list, id, v)) BY <1>4, <1>9
  <2>3. QED BY <1>19, <2>1, <2>2 DEF SameIds
<1>25. Settled(s) => Settled(t)
  <2>1. SUFFICES ASSUME Settled(s) PROVE Lives(list, c) \/ c \in s.bare \ {w}
    BY <1>19 DEF Settled
  <2>2. CASE c = w BY <1>11, <2>2
  <2>3. CASE c = from /\ c # w
    <3>1. ~wasActive BY <2>3 DEF c
    <3>2. QED BY <1>13, <2>3, <3>1
  <2>4. CASE c \notin {from, w}
    <3>1. c = s.current BY <2>4 DEF c
    <3>2. QED BY <1>10, <2>1, <2>4, <3>1 DEF Settled
  <2>5. QED BY <2>2, <2>3, <2>4
<1>26. OnScreen(s) \in {None, OnScreen(t)}
  <2>1. OnScreen(t) = active[c] BY <1>19 DEF OnScreen
  <2>2. CASE onScreen
    <3>1. c = w /\ b = id /\ OnScreen(s) = id BY <2>2 DEF c, b, OnScreen
    <3>2. QED BY <1>18, <2>1, <3>1
  <2>3. CASE ~onScreen
    <3>1. c = s.current BY <2>3 DEF c
    <3>2. CASE c = w
      <4>1. b = s.active[w] \/ s.active[w] = None BY <2>3 DEF b
      <4>2. QED BY <1>18, <2>1, <3>1, <3>2, <4>1 DEF OnScreen
    <3>3. CASE c = from
      <4>1. a = s.active[from] BY <2>3, <3>1, <3>3 DEF a
      <4>2. QED BY <1>18, <2>1, <3>1, <3>3, <4>1 DEF OnScreen
    <3>4. CASE c \notin {from, w} BY <1>1, <1>18, <2>1, <3>1, <3>4 DEF OnScreen
    <3>5. QED BY <3>2, <3>3, <3>4
  <2>4. QED BY <2>2, <2>3
<1>27. Lodges(t.list, id, w) BY <1>9, <1>19
<1>28. QED BY <1>19, <1>23, <1>24, <1>25, <1>26, <1>27 DEF t

(* A place given to another one: everybody is still there, once.           *)
Shuffles(r, q) ==
    /\ Len(r) = Len(q)
    /\ \A k \in 1..Len(q) : \E j \in 1..Len(q) : r[k] = q[j]
    /\ \A k \in 1..Len(q) : \E j \in 1..Len(q) : r[j] = q[k]
    /\ \A k, j \in 1..Len(q) : r[k] = r[j] => k = j

LEMMA WalkIs ==
  ASSUME NEW T, NEW q \in Seq(T), NEW from \in 1..Len(q), NEW to \in 1..Len(q),
         \A k, j \in 1..Len(q) : q[k] = q[j] => k = j
  PROVE  Shuffles(InsertAt(RemoveAt(q, from), to, q[from]), q)
<1> DEFINE n == Len(q)
           p == RemoveAt(q, from)
           x == q[from]
           a == SubSeq(p, 1, to - 1)
           b == SubSeq(p, to, Len(p))
           r == (a \o <<x>>) \o b
           out(k) == IF k < from THEN k ELSE k - 1
           in(k) == IF k < to THEN k ELSE k + 1
           goes(k) == IF k = from THEN to ELSE in(out(k))
           back(k) == IF k < from THEN k ELSE k + 1
           comes(k) == IF k = to THEN from ELSE back(IF k < to THEN k ELSE k - 1)
<1>1. n \in Nat \ {0} /\ x \in T OBVIOUS
<1>2. /\ p \in Seq(T) /\ Len(p) = n - 1
      /\ \A k \in 1..Len(p) : IF k < from THEN p[k] = q[k] ELSE p[k] = q[k + 1]
  BY RestIs
<1> HIDE DEF p
<1>3. /\ a \in Seq(T) /\ Len(a) = to - 1 /\ \A k \in 1..(to - 1) : a[k] = p[k]
  BY <1>1, <1>2
<1>4. /\ b \in Seq(T) /\ Len(b) = n - to /\ \A k \in 1..(n - to) : b[k] = p[to + k - 1]
  BY <1>1, <1>2
<1> HIDE DEF a, b, x
<1>5. /\ a \o <<x>> \in Seq(T) /\ Len(a \o <<x>>) = to /\ (a \o <<x>>)[to] = x
      /\ \A k \in 1..(to - 1) : (a \o <<x>>)[k] = a[k]
  <2>1. <<x>> \in Seq(T) /\ Len(<<x>>) = 1 /\ <<x>>[1] = x BY <1>1
  <2>2. a \o <<x>> \in Seq(T) /\ Len(a \o <<x>>) = to BY <1>1, <1>3, <2>1
  <2>3. \A k \in 1..(Len(a) + 1) : (a \o <<x>>)[k] = IF k <= Len(a) THEN a[k] ELSE <<x>>[k - Len(a)]
    BY <1>3, <2>1
  <2>4. to \in 1..(Len(a) + 1) /\ ~(to <= Len(a)) /\ to - Len(a) = 1 BY <1>1, <1>3
  <2>5. (a \o <<x>>)[to] = x BY <2>1, <2>3, <2>4
  <2>6. \A k \in 1..(to - 1) : k \in 1..(Len(a) + 1) /\ k <= Len(a) BY <1>1, <1>3
  <2>7. QED BY <2>2, <2>3, <2>5, <2>6
<1> DEFINE h == a \o <<x>>
<1>6. h \in Seq(T) /\ Len(h) = to /\ h[to] = x /\ \A k \in 1..(to - 1) : h[k] = p[k]
  BY <1>3, <1>5
<1>7. r = h \o b OBVIOUS
<1> HIDE DEF h, r
<1>8. Len(r) = n /\ \A k \in 1..n : IF k <= to THEN r[k] = h[k] ELSE r[k] = b[k - to]
  <2>1. Len(r) = n BY <1>1, <1>4, <1>6, <1>7
  <2>2. \A k \in 1..(Len(h) + Len(b)) : r[k] = IF k <= Len(h) THEN h[k] ELSE b[k - Len(h)]
    BY <1>4, <1>6, <1>7
  <2>3. Len(h) = to /\ Len(h) + Len(b) = n BY <1>1, <1>4, <1>6
  <2>4. QED BY <2>1, <2>2, <2>3
<1>9. \A k \in 1..n : IF k < to THEN r[k] = p[k] ELSE IF k = to THEN r[k] = x
                      ELSE r[k] = p[k - 1]
  <2>1. SUFFICES ASSUME NEW k \in 1..n
                 PROVE  IF k < to THEN r[k] = p[k] ELSE IF k = to THEN r[k] = x
                        ELSE r[k] = p[k - 1]
    OBVIOUS
  <2>2. CASE k < to BY <1>1, <1>6, <1>8, <2>2
  <2>3. CASE k = to BY <1>1, <1>6, <1>8, <2>3
  <2>4. CASE k > to
    <3>1. k - to \in 1..(n - to) /\ to + (k - to) - 1 = k - 1 BY <1>1, <2>4
    <3>2. r[k] = b[k - to] BY <1>8, <2>4
    <3>3. QED BY <1>4, <2>4, <3>1, <3>2
  <2>5. QED BY <1>1, <2>2, <2>3, <2>4
<1>10. \A k \in 1..n : comes(k) \in 1..n /\ r[k] = q[comes(k)]
  BY <1>1, <1>2, <1>9 DEF x
<1>11. \A k \in 1..n : goes(k) \in 1..n /\ comes(goes(k)) = k
  BY <1>1
<1>12. \A k, j \in 1..n : comes(k) = comes(j) => k = j
  BY <1>1
<1>13. r = InsertAt(p, to, x) BY DEF InsertAt, r, h, a, b
<1> HIDE DEF comes, goes
<1>14. \A k \in 1..n : \E j \in 1..n : r[j] = q[k] BY <1>10, <1>11
<1>15. \A k, j \in 1..n : r[k] = r[j] => k = j BY <1>10, <1>12
<1>16. \A k \in 1..n : \E j \in 1..n : r[k] = q[j] BY <1>10
<1>17. Shuffles(r, q) BY <1>8, <1>14, <1>15, <1>16 DEF Shuffles
<1>18. QED BY <1>13, <1>17 DEF p, x

LEMMA ReorderedIs ==
  ASSUME NEW s, Good(s), NEW id, Open(s, id), NEW position \in Nat
  PROVE  LET t == Reordered(s, id, position) IN
         /\ Good(t) /\ t.opened = s.opened /\ t.deferred = s.deferred /\ t.cursor = s.cursor
         /\ t.current = s.current /\ t.active = s.active /\ t.bare = s.bare
         /\ \A x, v : Lodges(t.list, x, v) <=> Lodges(s.list, x, v)
<1> DEFINE n == Len(s.list)
           i == At(s.list, id)
           w == s.list[i].ws
           all == [k \in DOMAIN s.list |-> k]
           W == {k \in DOMAIN s.list : s.list[k].ws = w}
           slots == Select(all, W)
           from == Place(slots, i)
           to == IF position < Len(slots) THEN position + 1 ELSE Len(slots)
           walked == InsertAt(RemoveAt(slots, from), to, slots[from])
           g(k) == IF s.list[k].ws = w THEN walked[Place(slots, k)] ELSE k
           list == [k \in DOMAIN s.list |->
                      IF s.list[k].ws = w THEN s.list[walked[Place(slots, k)]] ELSE s.list[k]]
           t == Reordered(s, id, position)
<1>1. s \in Wide /\ s.list \in Lists /\ n \in Nat /\ DOMAIN s.list = 1..n
  BY DEF Good, Wide, Lists
<1>2. i \in 1..n /\ s.list[i].id = id BY <1>1, AtIs DEF Open
<1>3. t = [s EXCEPT !.list = list] BY DEF Reordered
<1> HIDE DEF i
<1>4. i \in W BY <1>1, <1>2
<1>5. all \in Seq(1..n) /\ Len(all) = n /\ \A k \in 1..n : all[k] = k BY <1>1
<1>6. W \subseteq 1..n BY <1>1
<1>7. W = {k \in 1..n : s.list[k].ws = w} BY <1>1
<1> HIDE DEF all
<1>8. slots \in Seq(W)
  <2>1. slots \in Seq(W \cap (1..n)) BY <1>5, SelectType
  <2>2. W \cap (1..n) = W BY <1>6
  <2>3. QED BY <2>1, <2>2
<1>9. \A k \in W : \E j \in 1..Len(slots) : slots[j] = k
  <2> DEFINE T == 1..n
  <2> HIDE DEF T, W
  <2>1. \A q \in Seq(T) : \A k \in 1..Len(q) : q[k] \in W =>
          \E j \in 1..Len(Select(q, W)) : Select(q, W)[j] = q[k]
    BY SelectHas
  <2>2. \A k \in 1..Len(all) : all[k] \in W => \E j \in 1..Len(slots) : slots[j] = all[k]
    BY <1>5, <2>1 DEF T
  <2> HIDE DEF slots, W
  <2>3. QED BY <1>5, <1>6, <2>2
<1>10. \A k, j \in 1..Len(slots) : slots[k] = slots[j] => k = j
  <2>1. \A k, j \in 1..Len(all) : all[k] = all[j] => k = j BY <1>5
  <2>2. QED BY <1>5, <2>1, SelectOnce
<1> HIDE DEF slots, W
<1>11. DOMAIN slots = 1..Len(slots) /\ Len(slots) \in Nat BY <1>8
<1>12. \A k \in W : Place(slots, k) \in 1..Len(slots) /\ slots[Place(slots, k)] = k
  BY <1>9, <1>11, PlaceIs
<1>13. from \in 1..Len(slots) /\ to \in 1..Len(slots)
  <2>1. from \in 1..Len(slots) BY <1>4, <1>12
  <2>2. QED BY <1>11, <2>1
<1> HIDE DEF from, to
<1>14. /\ Len(walked) = Len(slots)
       /\ \A k \in 1..Len(slots) : \E j \in 1..Len(slots) : walked[k] = slots[j]
       /\ \A k \in 1..Len(slots) : \E j \in 1..Len(slots) : walked[j] = slots[k]
       /\ \A k, j \in 1..Len(slots) : walked[k] = walked[j] => k = j
  <2>1. Shuffles(walked, slots) BY <1>8, <1>10, <1>13, WalkIs
  <2> HIDE DEF walked
  <2>2. QED BY <2>1 DEF Shuffles
<1> HIDE DEF walked
<1>15. \A k \in 1..Len(slots) : walked[k] \in W
  <2>1. \A k \in 1..Len(slots) : slots[k] \in W BY <1>8
  <2>2. QED BY <1>14, <2>1
<1>16. \A k \in W : walked[Place(slots, k)] \in W BY <1>12, <1>15
<1>17. \A k \in 1..n : g(k) \in 1..n /\ s.list[g(k)].ws = s.list[k].ws /\ list[k] = s.list[g(k)]
  BY <1>1, <1>7, <1>16
<1>18. \A k, j \in 1..n : g(k) = g(j) => k = j
  <2>1. SUFFICES ASSUME NEW k \in 1..n, NEW j \in 1..n, g(k) = g(j) PROVE k = j OBVIOUS
  <2>2. k \in W <=> j \in W BY <1>7, <1>17, <2>1
  <2>3. CASE k \in W /\ j \in W
    <3>1. walked[Place(slots, k)] = walked[Place(slots, j)] BY <1>7, <2>1, <2>3
    <3>2. Place(slots, k) = Place(slots, j) BY <1>12, <1>14, <2>3, <3>1
    <3>3. QED BY <1>12, <2>3, <3>2
  <2>4. CASE k \notin W /\ j \notin W BY <1>7, <2>1, <2>4
  <2>5. QED BY <2>2, <2>3, <2>4
<1>19. \A k \in 1..n : \E j \in 1..n : g(j) = k
  <2>1. SUFFICES ASSUME NEW k \in 1..n PROVE \E j \in 1..n : g(j) = k OBVIOUS
  <2>2. CASE k \notin W BY <1>7, <2>2
  <2>3. CASE k \in W
    <3>1. PICK m \in 1..Len(slots) : slots[m] = k BY <1>9, <2>3
    <3>2. PICK l \in 1..Len(slots) : walked[l] = slots[m] BY <1>14
    <3>3. slots[l] \in W BY <1>8
    <3>4. Place(slots, slots[l]) = l BY <1>10, <1>12, <3>3
    <3>5. g(slots[l]) = k /\ slots[l] \in 1..n BY <1>6, <1>7, <3>1, <3>2, <3>3, <3>4
    <3>6. QED BY <3>5
  <2>4. QED BY <2>2, <2>3
<1>20. list \in Lists /\ Len(list) = n
  <2>1. \A k \in 1..n : list[k] \in Sessions
    <3> HIDE DEF list, g
    <3>1. \A k \in 1..n : s.list[k] \in Sessions BY <1>1 DEF Lists
    <3>2. QED BY <1>17, <3>1
  <2>2. DOMAIN list = 1..n BY <1>1
  <2>3. list = [k \in 1..n |-> list[k]] BY <1>1
  <2> HIDE DEF list
  <2>4. QED BY <1>1, <2>1, <2>2, <2>3 DEF Lists
<1> HIDE DEF list, g
<1>21. /\ t.list = list /\ t.opened = s.opened /\ t.current = s.current
       /\ t.returns = s.returns /\ t.active = s.active /\ t.bare = s.bare
       /\ t.cursor = s.cursor /\ t.deferred = s.deferred
  BY <1>1, <1>3 DEF Wide
<1>22. t \in Wide BY <1>1, <1>3, <1>20 DEF Wide
<1> HIDE DEF t
<1>23. \A x, v : Lodges(list, x, v) <=> Lodges(s.list, x, v)
  <2>1. ASSUME NEW x, NEW v, Lodges(list, x, v) PROVE Lodges(s.list, x, v)
    <3>1. PICK k \in 1..n : list[k].ws = v /\ list[k].id = x BY <1>20, <2>1 DEF Lodges
    <3>2. QED BY <1>17, <3>1 DEF Lodges
  <2>2. ASSUME NEW x, NEW v, Lodges(s.list, x, v) PROVE Lodges(list, x, v)
    <3>1. PICK k \in 1..n : s.list[k].ws = v /\ s.list[k].id = x BY <2>2 DEF Lodges
    <3>2. PICK j \in 1..n : g(j) = k BY <1>19
    <3>3. list[j].ws = v /\ list[j].id = x BY <1>17, <3>1, <3>2
    <3>4. QED BY <1>20, <3>3 DEF Lodges
  <2>3. QED BY <2>1, <2>2
<1>24. \A v : Lives(list, v) <=> Lives(s.list, v)
  <2>1. \A l \in Lists : \A v : Lives(l, v) <=> \E x : Lodges(l, x, v) BY LodgerIs DEF Lives, Lodges
  <2>2. QED BY <1>1, <1>20, <1>23, <2>1
<1>25. \A k, j \in 1..n : list[k].id = list[j].id => k = j
  <2>1. SUFFICES ASSUME NEW k \in 1..n, NEW j \in 1..n, list[k].id = list[j].id PROVE k = j
    OBVIOUS
  <2>2. g(k) \in 1..n /\ g(j) \in 1..n /\ s.list[g(k)].id = s.list[g(j)].id BY <1>17, <2>1
  <2>3. g(k) = g(j) BY <2>2 DEF Good
  <2>4. QED BY <1>18, <2>3
<1>26. \A k \in 1..n : list[k].id <= s.opened BY <1>17 DEF Good
<1>27. Good(t)
  <2>1. \A v \in Workspaces : IF Lives(t.list, v) THEN Lodges(t.list, t.active[v], v)
                              ELSE t.active[v] = None
    BY <1>21, <1>23, <1>24 DEF Good
  <2>2. \A x \in Ids : t.returns[x] # x BY <1>21 DEF Good
  <2>3. QED BY <1>20, <1>21, <1>22, <1>25, <1>26, <2>1, <2>2 DEF Good
<1>28. QED BY <1>21, <1>23, <1>27 DEF t

-----------------------------------------------------------------------------
(* What every step does with the record, s before it and t after: it keeps *)
(* Good; what waits stays, is decided, or is done with; nobody is left     *)
(* stranded; and a list with the same sessions in another order, or in     *)
(* other workspaces, shows what was on screen.                             *)

Quiet == ~(ui.follow /\ Rings)

Step(s, t) ==
    /\ Good(t)
    /\ t.deferred \in {s.deferred, NotDeferred} \/ (ui.follow /\ Worthy(t.deferred.to))
    /\ Quiet /\ Roomed(s) => Roomed(t)
    /\ t.list # s.list /\ SameIds(s, t) => OnScreen(s) \in {None, OnScreen(t)}

LEMMA LongerDiffers ==
  ASSUME NEW s, Good(s), NEW t, Longer(s, t), t.list # s.list
  PROVE  ~SameIds(s, t)
<1>1. s.list \in Lists /\ s.opened \in Nat BY Names DEF Good, Wide
<1>2. PICK e \in Sessions : e.id = s.opened + 1 /\ t.list = Append(s.list, e) BY DEF Longer
<1>3. Len(s.list) + 1 \in 1..Len(t.list) /\ t.list[Len(s.list) + 1] = e BY <1>1, <1>2 DEF Lists
<1>4. Lodges(t.list, e.id, e.ws) BY <1>3 DEF Lodges
<1>5. \A i \in 1..Len(s.list) : s.list[i].id <= s.opened /\ s.list[i].id \in Nat
  <2>1. \A i \in 1..Len(s.list) : s.list[i] \in Sessions BY <1>1 DEF Lists
  <2>2. QED BY <2>1, Names DEF Good, Sessions
<1>6. \A v : ~Lodges(s.list, e.id, v)
  <2>1. \A i \in 1..Len(s.list) : s.list[i].id # s.opened + 1 BY <1>1, <1>5
  <2>2. QED BY <1>2, <2>1 DEF Lodges
<1>7. QED BY <1>4, <1>6 DEF SameIds

LEMMA GrownStep ==
  ASSUME NEW s, Good(s), NEW t, Grown(s, t), t.opened <= MaxSessions,
         Settled(s) => Settled(t)
  PROVE  Step(s, t)
<1>1. Longer(s, t) BY GrownLonger
<1>2. t.list # s.list => ~SameIds(s, t) BY <1>1, LongerDiffers
<1>3. Good(t) /\ t.deferred = s.deferred BY DEF Grown
<1>4. QED BY <1>2, <1>3 DEF Step, Roomed

LEMMA StepCursor ==
  ASSUME NEW s, NEW t, Step(s, t), NEW c \in Opt(Rows)
  PROVE  Step(s, [t EXCEPT !.cursor = c])
<1> DEFINE u == [t EXCEPT !.cursor = c]
<1>1. /\ Good(u) /\ u.list = t.list /\ u.opened = t.opened /\ u.current = t.current
      /\ u.active = t.active /\ u.bare = t.bare /\ u.cursor = c /\ u.deferred = t.deferred
      /\ u.returns = t.returns
  BY GoodCursor DEF Step
<1> HIDE DEF u
<1>2. Step(s, u) BY <1>1 DEF Step, Roomed, Settled, SameIds, OnScreen
<1>3. QED BY <1>2 DEF u

LEMMA LessLives ==
  ASSUME NEW s, Good(s), NEW t, NEW X, Less(s, t, X), NEW w,
         \A x \in X : Lodges(s.list, x, w), NEW v \in Workspaces, v # w
  PROVE  Lives(s.list, v) => Lives(t.list, v)
<1>1. SUFFICES ASSUME Lives(s.list, v) PROVE Lives(t.list, v) OBVIOUS
<1>2. Lodges(s.list, s.active[v], v) BY <1>1 DEF Good
<1>3. s.active[v] \notin X BY <1>2 DEF Good, Lodges
<1>4. Lodges(t.list, s.active[v], v) BY <1>2, <1>3 DEF Less
<1>5. t.list \in Lists BY DEF Less, Good, Wide
<1>6. QED BY <1>4, <1>5, LodgerIs

LEMMA CloseStep ==
  ASSUME NEW s, Good(s), s.opened <= MaxSessions, NEW ids \in Seq(Ids), NEW w \in Workspaces,
         NEW reason, reason # "spawn_failed", \A x \in ToSet(ids) : Lodges(s.list, x, w),
         Close(s, ids, w, reason).opened <= MaxSessions
  PROVE  Step(s, Close(s, ids, w, reason))
<1> DEFINE u == Close(s, ids, w, reason)
           r == Removed(s, ids)
<1>1. /\ Good(u)
      /\ u.opened <= MaxSessions => Longer(r, u)
      /\ u.deferred = s.deferred \/ (ui.follow /\ Worthy(u.deferred.to))
      /\ reason = "spawn_failed" =>
           /\ u.list = r.list /\ u.current = s.current /\ u.bare = s.bare
           /\ u.deferred = s.deferred /\ u.opened = s.opened
      /\ /\ u.opened <= MaxSessions /\ reason # "spawn_failed" /\ Roomed(s)
         /\ \A x \in ToSet(ids) : Lodges(s.list, x, w)
         => Roomed(u)
  BY CloseIs
<1>2. Less(s, r, ToSet(ids)) BY RemovedIs
<1>3. u.opened <= MaxSessions OBVIOUS
<1> HIDE DEF u
<1>4. Longer(r, u) BY <1>1, <1>3
<1>5. ASSUME u.list # s.list PROVE ~SameIds(s, u)
  <2>1. CASE Len(ids) = 0
    <3>1. PICK f : /\ r = f[Len(ids)] /\ f[0] = s
                   /\ \A i \in 1..Len(ids) : f[i] = Without(f[i - 1], ids[i])
      <4>1. Len(ids) \in Nat OBVIOUS
      <4>2. QED BY <4>1, RemovedFrom
    <3>2. r = s BY <2>1, <3>1
    <3>3. QED BY <1>4, <1>5, <3>2, LongerDiffers
  <2>2. CASE Len(ids) # 0
    <3>1. ids[1] \in ToSet(ids) /\ ids[1] \in Ids BY <2>2 DEF ToSet
    <3>2. Lodges(s.list, ids[1], w) BY <3>1
    <3>3. \A v : ~Lodges(r.list, ids[1], v) BY <1>2, <3>1 DEF Less
    <3>4. \A v : ~Lodges(u.list, ids[1], v)
      <4>1. CASE u.list = r.list BY <3>3, <4>1
      <4>2. CASE \E e \in Sessions : e.id = r.opened + 1 /\ u.list = Append(r.list, e)
        <5>1. PICK e \in Sessions : e.id = r.opened + 1 /\ u.list = Append(r.list, e) BY <4>2
        <5>2. r.opened = s.opened /\ r.list \in Lists BY <1>2 DEF Less, Good, Wide
        <5>3. s.opened \in Nat /\ ids[1] \in Nat /\ ids[1] <= s.opened
          <6>1. PICK k \in 1..Len(s.list) : s.list[k].id = ids[1] BY <3>2 DEF Lodges
          <6>2. s.list[k].id <= s.opened /\ s.opened \in Nat BY Names DEF Good, Wide
          <6>3. QED BY <3>1, <6>1, <6>2, Names
        <5>4. ids[1] # e.id BY <5>1, <5>2, <5>3
        <5>5. \A k \in 1..Len(u.list) : u.list[k] = e \/ (k \in 1..Len(r.list) /\ u.list[k] = r.list[k])
          BY <5>1, <5>2 DEF Lists
        <5>6. QED BY <3>3, <5>4, <5>5 DEF Lodges
      <4>3. QED BY <1>4, <4>1, <4>2 DEF Longer
    <3>5. QED BY <3>2, <3>4 DEF SameIds
  <2>3. QED BY <2>1, <2>2
<1>6. Step(s, u) BY <1>1, <1>3, <1>5 DEF Step
<1>7. QED BY <1>6 DEF u

-----------------------------------------------------------------------------
(* The operations, one after another.                                      *)

Fit == Good(app) /\ app.opened <= MaxSessions

LEMMA OpenShellStep ==
  ASSUME Fit, NEW w \in Workspaces, NEW show \in BOOLEAN, OpenShell(w, show)
  PROVE  Step(app, app')
<1> DEFINE m == Spawn(app, w)
           c == IF show THEN w ELSE m.current
           t == [m EXCEPT !.current = c]
<1>1. app' = t /\ t.opened <= MaxSessions BY DEF OpenShell, Only, Op
<1>2. /\ Grown(app, m) /\ m.current = app.current
      /\ Gone(w) => m.list = app.list /\ m.active = app.active
      /\ m.opened <= MaxSessions => Lives(m.list, w) \/ w \in m.bare
  BY SpawnIs DEF Fit
<1>3. c \in Workspaces BY <1>2 DEF Grown, Good, Wide
<1> HIDE DEF m, c
<1>4. Good(m) BY <1>2 DEF Grown
<1>5. /\ Good(t) /\ t.list = m.list /\ t.opened = m.opened /\ t.current = c
      /\ t.active = m.active /\ t.bare = m.bare /\ t.cursor = m.cursor
      /\ t.deferred = m.deferred
  BY <1>3, <1>4, GoodCurrent
<1>6. Settled(app) => Settled(t)
  <2>1. m.opened <= MaxSessions BY <1>1, <1>5
  <2>2. CASE show BY <1>2, <1>5, <2>1, <2>2 DEF c, Settled
  <2>3. CASE ~show
    <3>1. c = app.current BY <1>2, <2>3 DEF c
    <3>2. Settled(app) => Lives(m.list, c) \/ c \in m.bare
      BY <2>1, <3>1, SpawnSettles DEF Settled, Fit, m
    <3>3. QED BY <1>5, <3>2 DEF Settled
  <2>4. QED BY <2>2, <2>3
<1>7. Grown(app, t) BY <1>2, <1>5 DEF Grown
<1>8. QED BY <1>1, <1>6, <1>7, GrownStep DEF Fit

LEMMA CloseOneStep ==
  ASSUME Fit, NEW id, Open(app, id), CloseOne(app, id, "user").opened <= MaxSessions
  PROVE  Step(app, CloseOne(app, id, "user"))
<1> DEFINE i == At(app.list, id)
           w == app.list[i].ws
           ids == <<id>>
<1>1. app \in Wide /\ app.list \in Lists BY DEF Fit, Good, Wide
<1>2. i \in 1..Len(app.list) /\ app.list[i].id = id BY <1>1, AtIs DEF Open
<1> HIDE DEF i
<1>3. app.list[i] \in Sessions BY <1>1, <1>2 DEF Lists
<1>4. id \in Ids /\ w \in Workspaces /\ Lodges(app.list, id, w)
  BY <1>2, <1>3 DEF Sessions, Lodges
<1>5. ids \in Seq(Ids) /\ ToSet(ids) = {id} BY <1>4 DEF ToSet
<1>6. CloseOne(app, id, "user") = Close(app, ids, w, "user") BY DEF CloseOne, i
<1> HIDE DEF ids, w
<1>7. \A x \in ToSet(ids) : Lodges(app.list, x, w) BY <1>4, <1>5
<1>8. "user" # "spawn_failed" OBVIOUS
<1>9. QED BY <1>4, <1>5, <1>6, <1>7, <1>8, CloseStep DEF Fit

LEMMA ToggleTabStep ==
  ASSUME Fit, ToggleTab
  PROVE  Step(app, app')
<1> DEFINE w == app.current
<1>1. app \in Wide /\ app.list \in Lists /\ w \in Workspaces BY DEF Fit, Good, Wide
<1>2. ASSUME app.opened < MaxSessions, Only(Push(app, w, TRUE)) PROVE Step(app, app')
  <2> DEFINE t == Push(app, w, TRUE)
             e == [id |-> app.opened + 1, ws |-> w, tab |-> TRUE]
  <2>1. app' = t /\ t.opened <= MaxSessions BY <1>2 DEF Only, Op
  <2>2. TRUE \in BOOLEAN OBVIOUS
  <2> HIDE DEF w
  <2>3. /\ Grown(app, t) /\ t.opened = app.opened + 1 /\ t.list = Append(app.list, e)
        /\ t.current = app.current /\ t.bare = app.bare \ {w}
        /\ Lives(t.list, w)
    BY <1>1, <1>2, <2>2, GoodPush DEF Fit
  <2> HIDE DEF t
  <2>4. Settled(t) BY <2>3 DEF Settled, w
  <2>5. QED BY <2>1, <2>3, <2>4, GrownStep DEF Fit
<1>3. ASSUME NEW e \in ToSet(app.list), e.ws = w,
             Only(IF app.active[w] = e.id THEN CloseOne(app, e.id, "user")
                  ELSE SetActive(app, w, e.id))
      PROVE  Step(app, app')
  <2>1. PICK k \in 1..Len(app.list) : app.list[k] = e BY <1>1, <1>3 DEF ToSet, Lists
  <2>2. Lodges(app.list, e.id, w) BY <1>3, <2>1 DEF Lodges
  <2>3. CASE app.active[w] = e.id
    <3>1. app' = CloseOne(app, e.id, "user") /\ CloseOne(app, e.id, "user").opened <= MaxSessions
      BY <1>3, <2>3 DEF Only, Op
    <3>2. Open(app, e.id) BY <1>1, <2>1, HereIs
    <3>3. QED BY <3>1, <3>2, CloseOneStep
  <2>4. CASE app.active[w] # e.id
    <3> DEFINE t == SetActive(app, w, e.id)
    <3>1. app' = t /\ t.opened <= MaxSessions BY <1>3, <2>4 DEF Only, Op
    <3> HIDE DEF w
    <3>2. /\ Grown(app, t) /\ t.list = app.list /\ t.opened = app.opened
          /\ t.current = app.current /\ t.bare = app.bare
          /\ t.active = [app.active EXCEPT ![w] = e.id]
      BY <1>1, <2>2, GoodSetActive DEF Fit
    <3> HIDE DEF t
    <3>3. Settled(app) => Settled(t) BY <3>2 DEF Settled
    <3>4. QED BY <3>1, <3>2, <3>3, GrownStep DEF Fit
  <2>5. QED BY <2>3, <2>4
<1>4. QED BY <1>2, <1>3 DEF ToggleTab

LEMMA ActivateWorkspaceStep ==
  ASSUME Fit, NEW w \in Workspaces, ActivateWorkspace(w)
  PROVE  Step(app, app')
<1> DEFINE t == ActivateWs(app, w)
<1>1. app' = t /\ t.opened <= MaxSessions BY DEF ActivateWorkspace, Only, Op
<1>2. /\ Grown(app, t)
      /\ t.opened <= MaxSessions =>
           IF Gone(w) /\ In(app.list, w) = <<>> THEN t = app ELSE t.current = w /\ Settled(t)
  BY ActivateWsIs DEF Fit
<1> HIDE DEF t
<1>3. Settled(app) => Settled(t) BY <1>1, <1>2
<1>4. QED BY <1>1, <1>2, <1>3, GrownStep DEF Fit

LEMMA ActivateSessionStep ==
  ASSUME Fit, NEW id \in Ids, ActivateSession(id)
  PROVE  Step(app, app')
<1> DEFINE t == ActivateId(app, id)
<1>1. app' = t /\ t.opened <= MaxSessions /\ Open(app, id) BY DEF ActivateSession, Only, Op
<1>2. /\ Grown(app, t) /\ t.list = app.list /\ t.opened = app.opened
      /\ ~Open(app, id) => t = app
      /\ \A w : Lodges(app.list, id, w) =>
           /\ t.current = w /\ Lives(t.list, w) /\ t.active = [app.active EXCEPT ![w] = id]
  BY ActivateIdIs DEF Fit
<1> HIDE DEF t
<1>3. \E w : Lodges(app.list, id, w)
  <2>1. PICK k \in 1..Len(app.list) : app.list[k].id = id BY <1>1, HereIs DEF Fit, Good
  <2>2. Lodges(app.list, id, app.list[k].ws) BY <2>1 DEF Lodges
  <2>3. QED BY <2>2
<1>4. Settled(t) BY <1>2, <1>3 DEF Settled
<1>5. QED BY <1>1, <1>2, <1>4, GrownStep DEF Fit

LEMMA CloseSessionStep ==
  ASSUME Fit, NEW id \in Ids, CloseSession(id)
  PROVE  Step(app, app')
<1>1. app' = CloseOne(app, id, "user") /\ app'.opened <= MaxSessions /\ Open(app, id)
  BY DEF CloseSession, Op
<1>2. QED BY <1>1, CloseOneStep

LEMMA SpawnFailsStep ==
  ASSUME Fit, NEW id \in Ids, SpawnFails(id)
  PROVE  Step(app, app')
<1> DEFINE i == At(app.list, id)
           w == app.list[i].ws
           ids == <<id>>
           r == Removed(app, ids)
           left == Close(app, ids, w, "spawn_failed")
           b == IF In(left.list, w) = <<>> THEN left.bare \cup {w} ELSE left.bare
           t == [left EXCEPT !.bare = b]
<1>1. app \in Wide /\ app.list \in Lists /\ Good(app) /\ app.opened <= MaxSessions
  BY DEF Fit, Good, Wide
<1>2. /\ app' = t /\ Open(app, id) /\ app.deferred = NotDeferred
  BY DEF SpawnFails, Bared, CloseOne, Only, Op
<1>3. i \in 1..Len(app.list) /\ app.list[i].id = id BY <1>1, <1>2, AtIs DEF Open
<1> HIDE DEF i
<1>4. app.list[i] \in Sessions BY <1>1, <1>3 DEF Lists
<1>5. w \in Workspaces /\ Lodges(app.list, id, w)
  BY <1>3, <1>4 DEF Sessions, Lodges
<1>6. ids \in Seq(Ids) /\ ToSet(ids) = {id} BY DEF ToSet
<1> HIDE DEF ids, w
<1> DEFINE reason == "spawn_failed"
           u == Close(app, ids, w, reason)
<1>7. /\ Good(u)
      /\ u.opened <= MaxSessions => Longer(r, u)
      /\ u.deferred = app.deferred \/ (ui.follow /\ Worthy(u.deferred.to))
      /\ reason = "spawn_failed" =>
           /\ u.list = r.list /\ u.current = app.current /\ u.bare = app.bare
           /\ u.deferred = app.deferred /\ u.opened = app.opened
      /\ /\ u.opened <= MaxSessions /\ reason # "spawn_failed" /\ Roomed(app)
         /\ \A x \in ToSet(ids) : Lodges(app.list, x, w)
         => Roomed(u)
  <2> HIDE DEF reason
  <2>1. QED BY <1>1, <1>5, <1>6, CloseIs
<1>8. Less(app, r, {id}) BY <1>1, <1>6, RemovedIs
<1>9. left = u OBVIOUS
<1> HIDE DEF left, u, r
<1>10. /\ Good(left) /\ left.list = r.list /\ left.current = app.current /\ left.bare = app.bare
       /\ left.deferred = app.deferred
  BY <1>7, <1>9
<1>11. b \in SUBSET Workspaces BY <1>1, <1>5, <1>10 DEF Wide
<1> HIDE DEF b
<1>12. /\ Good(t) /\ t.list = left.list /\ t.opened = left.opened /\ t.current = left.current
       /\ t.active = left.active /\ t.bare = b /\ t.cursor = left.cursor
       /\ t.deferred = left.deferred
  BY <1>10, <1>11, GoodBare
<1> HIDE DEF t
<1>13. Settled(app) => Settled(t)
  <2>1. SUFFICES ASSUME Settled(app) PROVE Lives(r.list, app.current) \/ app.current \in b
    BY <1>10, <1>12 DEF Settled
  <2>2. left.bare \subseteq b BY DEF b
  <2>3. CASE app.current = w
    <3>1. In(left.list, w) = <<>> <=> ~Lives(left.list, w) BY <1>10, HereIs DEF Good
    <3>2. QED BY <1>10, <2>3, <3>1 DEF b
  <2>4. CASE app.current # w
    <3>1. app.current \in Workspaces BY <1>1 DEF Wide
    <3>2. \A x \in {id} : Lodges(app.list, x, w) BY <1>5
    <3>3. Lives(app.list, app.current) => Lives(r.list, app.current)
      BY <1>1, <1>8, <2>4, <3>1, <3>2, LessLives
    <3>4. QED BY <1>10, <2>1, <2>2, <3>3 DEF Settled
  <2>5. QED BY <2>3, <2>4
<1>14. ~SameIds(app, t)
  <2>1. \A v : ~Lodges(t.list, id, v) BY <1>8, <1>10, <1>12 DEF Less
  <2>2. QED BY <1>5, <2>1 DEF SameIds
<1>15. Step(app, t) BY <1>2, <1>10, <1>12, <1>13, <1>14 DEF Step, Roomed
<1>16. QED BY <1>2, <1>15

LEMMA DeleteWorktreeStep ==
  ASSUME Fit, DeleteWorktree
  PROVE  Step(app, app')
<1> DEFINE ids == In(app.list, Feature)
           reason == "deleted"
<1>1. app.list \in Lists BY DEF Fit, Good, Wide
<1>2. app' = Close(app, ids, Feature, reason) /\ app'.opened <= MaxSessions
  BY DEF DeleteWorktree, Op
<1>3. ids \in Seq(Ids) /\ \A x \in ToSet(ids) : Lodges(app.list, x, Feature)
  <2>1. ids \in Seq(Ids) BY <1>1, InType
  <2>2. \A k \in 1..Len(ids) : Lodges(app.list, ids[k], Feature) BY <1>1, InMember DEF Lodges
  <2>3. DOMAIN ids = 1..Len(ids) BY <2>1
  <2>4. QED BY <2>1, <2>2, <2>3 DEF ToSet
<1>4. Feature \in Workspaces /\ reason # "spawn_failed" BY DEF Workspaces
<1> HIDE DEF ids, reason
<1>5. QED BY <1>2, <1>3, <1>4, CloseStep DEF Fit

LEMMA MovedStep ==
  ASSUME Fit, NEW id, NEW w, NEW position \in Nat, MayMove(id, w)
  PROVE  Step(app, Moved(id, w, position)) /\ id \in Ids
<1> DEFINE i == At(app.list, id)
           from == app.list[i].ws
           m == IF from = w THEN app ELSE MoveTo(app, id, w)
           t == Reordered(m, id, position)
<1>1. app \in Wide /\ app.list \in Lists /\ Good(app) BY DEF Fit, Good, Wide
<1>2. Open(app, id) BY DEF MayMove
<1>3. i \in 1..Len(app.list) /\ app.list[i].id = id BY <1>1, <1>2, AtIs DEF Open
<1>4. t = Moved(id, w, position) BY DEF Moved
<1> HIDE DEF i
<1>5. app.list[i] \in Sessions BY <1>1, <1>3 DEF Lists
<1>6. id \in Ids /\ from \in Workspaces /\ Lodges(app.list, id, from)
  BY <1>3, <1>5 DEF Sessions, Lodges
<1>7. \A v : Lodges(app.list, id, v) <=> v = from
  <2>1. \A k \in 1..Len(app.list) : app.list[k].id = id => k = i BY <1>1, <1>3 DEF Good
  <2>2. QED BY <1>6, <2>1 DEF Lodges
<1>8. w \in Workspaces
  <2>1. ToSet(Reorderable) \subseteq Workspaces
    <3>1. Order(app) \in Seq(Workspaces)
      <4>1. <<Home, Trunk>> \in Seq(Workspaces) /\ <<Feature>> \in Seq(Workspaces)
            /\ <<>> \in Seq(Workspaces)
        BY DEF Workspaces
      <4>2. QED BY <4>1 DEF Order
    <3>2. Reorderable \in Seq(Workspaces) BY <3>1, SelectSeqType DEF Reorderable
    <3>3. QED BY <3>2 DEF ToSet
  <2>2. Here(app, id, w) => w = from BY <1>1, <1>7, HereIs
  <2>3. QED BY <1>6, <2>1, <2>2 DEF MayMove
<1> HIDE DEF from, m
<1>9. /\ Good(m) /\ m.opened = app.opened /\ m.deferred = app.deferred /\ m.cursor = app.cursor
      /\ SameIds(app, m) /\ Lodges(m.list, id, w)
      /\ Settled(app) => Settled(m)
      /\ OnScreen(app) \in {None, OnScreen(m)}
  <2>1. CASE from = w
    <3>1. m = app BY <2>1 DEF m
    <3>2. QED BY <1>1, <1>6, <2>1, <3>1 DEF SameIds
  <2>2. CASE from # w
    <3>1. m = MoveTo(app, id, w) BY <2>2 DEF m
    <3>2. ~Lodges(app.list, id, w) BY <1>7, <2>2
    <3>3. QED BY <1>1, <1>2, <1>8, <3>1, <3>2, MoveToIs
  <2>3. QED BY <2>1, <2>2
<1>10. Open(m, id)
  <2>1. m \in Wide BY <1>9 DEF Good
  <2>2. QED BY <1>9, <2>1, HereIs DEF Lodges
<1>11. /\ Good(t) /\ t.opened = m.opened /\ t.deferred = m.deferred /\ t.cursor = m.cursor
       /\ t.current = m.current /\ t.active = m.active /\ t.bare = m.bare
       /\ \A x, v : Lodges(t.list, x, v) <=> Lodges(m.list, x, v)
  BY <1>9, <1>10, ReorderedIs
<1> HIDE DEF t
<1>12. Settled(m) => Settled(t)
  <2>1. t.list \in Lists /\ m.list \in Lists BY <1>9, <1>11 DEF Good, Wide
  <2>2. \A l \in Lists : \A v : Lives(l, v) <=> \E x : Lodges(l, x, v) BY LodgerIs DEF Lives, Lodges
  <2>3. QED BY <1>11, <2>1, <2>2 DEF Settled
<1>13. OnScreen(t) = OnScreen(m) BY <1>11 DEF OnScreen
<1>14. Step(app, t) BY <1>9, <1>11, <1>12, <1>13 DEF Step, Roomed
<1>15. QED BY <1>4, <1>6, <1>14

LEMMA DropSessionStep ==
  ASSUME Fit, NEW id \in Ids, NEW w \in Workspaces, DropSession(id, w)
  PROVE  Step(app, app')
<1>1. app.list \in Lists BY DEF Fit, Good, Wide
<1>2. PICK position \in 0..Len(In(app.list, w)) : Only(Moved(id, w, position))
  BY DEF DropSession
<1>3. position \in Nat BY <1>1, InType
<1>4. app' = Moved(id, w, position) /\ MayMove(id, w) BY <1>2 DEF Only, Op, DropSession
<1>5. QED BY <1>3, <1>4, MovedStep

LEMMA MoveSessionStep ==
  ASSUME Fit, NEW id \in Ids, NEW w \in Workspaces, MoveSession(id, w)
  PROVE  Step(app, app')
<1> DEFINE t == MoveTo(app, id, w)
<1>1. Good(app) /\ app \in Wide BY DEF Fit, Good
<1>2. Open(app, id) /\ ~Here(app, id, w) /\ app' = t BY DEF MoveSession, Only, Op
<1>3. ~Lodges(app.list, id, w) BY <1>1, <1>2, HereIs
<1>4. /\ Good(t) /\ t.opened = app.opened /\ t.deferred = app.deferred
      /\ Settled(app) => Settled(t)
      /\ OnScreen(app) \in {None, OnScreen(t)}
  BY <1>1, <1>2, <1>3, MoveToIs
<1> HIDE DEF t
<1>5. QED BY <1>2, <1>4 DEF Step, Roomed

LEMMA StepSessionStep ==
  ASSUME Fit, NEW delta \in {-1, 1}, StepSession(delta)
  PROVE  Step(app, app')
<1> DEFINE id == Subject
           from == app.list[At(app.list, id)].ws
           range == IF from \in ToSet(Reorderable) THEN Reorderable ELSE <<from>>
           k == Place(range, from) + delta
           index == Place(In(app.list, from), id) - 1
           inside == index + delta \in 0..(Len(In(app.list, from)) - 1)
           w == IF inside THEN from ELSE range[k]
           position == IF inside THEN index + delta
                       ELSE IF delta = 1 THEN 0 ELSE Len(In(app.list, w))
           m == Moved(id, w, position)
<1>1. app.list \in Lists BY DEF Fit, Good, Wide
<1>2. MayMove(id, w) /\ app' = [m EXCEPT !.cursor = id]
  BY DEF StepSession, Op
<1>3. position \in Nat
  <2> HIDE DEF w, from, k, index
  <2>1. inside => index + delta \in Nat BY <1>1, InType
  <2>2. Len(In(app.list, w)) \in Nat BY <1>1, InType
  <2>3. QED BY <2>1, <2>2
<1> HIDE DEF id, w, position
<1>4. Step(app, m) /\ id \in Ids BY <1>2, <1>3, MovedStep
<1>5. id \in Opt(Rows) BY <1>4 DEF Opt, Rows
<1> HIDE DEF m
<1>6. QED BY <1>2, <1>4, <1>5, StepCursor

-----------------------------------------------------------------------------
(* The rows.                                                               *)

LEMMA ToSetConcat ==
  ASSUME NEW T, NEW p \in Seq(T), NEW q \in Seq(T)
  PROVE  p \o q \in Seq(T) /\ ToSet(p \o q) = ToSet(p) \cup ToSet(q)
<1>1. p \o q \in Seq(T) /\ Len(p \o q) = Len(p) + Len(q) OBVIOUS
<1>2. DOMAIN p = 1..Len(p) /\ DOMAIN q = 1..Len(q) /\ DOMAIN (p \o q) = 1..(Len(p) + Len(q))
  BY <1>1
<1>3. ASSUME NEW i \in 1..(Len(p) + Len(q)) PROVE (p \o q)[i] \in ToSet(p) \cup ToSet(q)
  <2>1. CASE i <= Len(p)
    <3>1. (p \o q)[i] = p[i] /\ i \in DOMAIN p BY <1>2, <2>1
    <3>2. QED BY <3>1 DEF ToSet
  <2>2. CASE ~(i <= Len(p))
    <3>1. (p \o q)[i] = q[i - Len(p)] /\ i - Len(p) \in DOMAIN q BY <1>2, <2>2
    <3>2. QED BY <3>1 DEF ToSet
  <2>3. QED BY <2>1, <2>2
<1>4. ASSUME NEW i \in DOMAIN p PROVE p[i] \in ToSet(p \o q)
  <2>1. i \in DOMAIN (p \o q) /\ (p \o q)[i] = p[i] BY <1>2
  <2>2. QED BY <2>1 DEF ToSet
<1>5. ASSUME NEW i \in DOMAIN q PROVE q[i] \in ToSet(p \o q)
  <2>1. Len(p) + i \in DOMAIN (p \o q) /\ (p \o q)[Len(p) + i] = q[i] BY <1>2
  <2>2. QED BY <2>1 DEF ToSet
<1>6. ToSet(p \o q) \subseteq ToSet(p) \cup ToSet(q)
  <2>1. \A x \in ToSet(p \o q) : \E i \in 1..(Len(p) + Len(q)) : x = (p \o q)[i]
    BY <1>2 DEF ToSet
  <2>2. QED BY <1>3, <2>1
<1>7. ToSet(p) \subseteq ToSet(p \o q) /\ ToSet(q) \subseteq ToSet(p \o q)
  BY <1>4, <1>5 DEF ToSet
<1>8. QED BY <1>1, <1>6, <1>7

LEMMA ToSetOne ==
  ASSUME NEW x
  PROVE  ToSet(<<x>>) = {x} /\ ToSet(<<>>) = {}
BY DEF ToSet

LEMMA ListedIs ==
  ASSUME NEW T, T.list \in Lists, NEW w
  PROVE  /\ Listed(T, w) \in Seq(Ids) /\ Listed(T, w) \in Seq(Rows)
         /\ \A x \in ToSet(Listed(T, w)) : Lodges(T.list, x, w)
<1>1. In(T.list, w) \in Seq(Ids) BY InType
<1>2. \A k \in 1..Len(In(T.list, w)) : Lodges(T.list, In(T.list, w)[k], w)
  BY InMember DEF Lodges
<1>3. Listed(T, w) = <<>> \/ Listed(T, w) = In(T.list, w) BY DEF Listed
<1>4. Listed(T, w) \in Seq(Ids)
  <2>1. <<>> \in Seq(Ids) OBVIOUS
  <2>2. QED BY <1>1, <1>3, <2>1
<1>5. Listed(T, w) \in Seq(Rows)
  <2>1. Ids \subseteq Rows BY DEF Rows
  <2>2. QED BY <1>4, <2>1
<1>6. \A x \in ToSet(Listed(T, w)) : Lodges(T.list, x, w)
  <2>1. DOMAIN In(T.list, w) = 1..Len(In(T.list, w)) BY <1>1
  <2>2. QED BY <1>2, <1>3, <2>1, ToSetOne DEF ToSet
<1>7. QED BY <1>4, <1>5, <1>6

Branch(T, w) == IF w \in T.trees THEN <<w>> \o Listed(T, w) ELSE <<>>

LEMMA BranchIs ==
  ASSUME NEW T, T.list \in Lists, NEW w \in Workspaces
  PROVE  /\ Branch(T, w) \in Seq(Rows)
         /\ ToSet(Branch(T, w)) = IF w \in T.trees THEN {w} \cup ToSet(Listed(T, w)) ELSE {}
<1>1. <<w>> \in Seq(Rows) /\ <<>> \in Seq(Rows) BY DEF Rows
<1>2. Listed(T, w) \in Seq(Rows) BY ListedIs
<1>3. <<w>> \o Listed(T, w) \in Seq(Rows)
      /\ ToSet(<<w>> \o Listed(T, w)) = {w} \cup ToSet(Listed(T, w))
  <2> DEFINE W == <<w>>
  <2>1. W \in Seq(Rows) /\ ToSet(W) = {w} BY <1>1, ToSetOne
  <2> HIDE DEF W
  <2>2. W \o Listed(T, w) \in Seq(Rows) /\ ToSet(W \o Listed(T, w)) = ToSet(W) \cup ToSet(Listed(T, w))
    BY <1>2, <2>1, ToSetConcat
  <2>3. QED BY <2>1, <2>2 DEF W
<1>4. QED BY <1>1, <1>3, ToSetOne DEF Branch

LEMMA ShownIs ==
  ASSUME NEW T, T.list \in Lists
  PROVE  /\ Shown(T) \in Seq(Rows)
         /\ ToSet(Shown(T)) = {Home, Project} \cup ToSet(Listed(T, Home))
              \cup IF T.expanded THEN ToSet(Branch(T, Trunk)) \cup ToSet(Branch(T, Feature)) ELSE {}
<1> DEFINE h == Listed(T, Home)
           a == Branch(T, Trunk)
           b == Branch(T, Feature)
           c == IF T.expanded THEN a \o b ELSE <<>>
           H == <<Home>>
           P == <<Project>>
<1>1. h \in Seq(Rows) BY ListedIs
<1>2. a \in Seq(Rows) /\ b \in Seq(Rows) BY BranchIs DEF Workspaces
<1>3. H \in Seq(Rows) /\ P \in Seq(Rows) /\ ToSet(H) = {Home} /\ ToSet(P) = {Project}
  BY ToSetOne DEF Rows, Workspaces
<1>4. Shown(T) = ((H \o h) \o P) \o c BY DEF Shown, Branch
<1> HIDE DEF h, a, b, H, P
<1>5. c \in Seq(Rows) /\ ToSet(c) = IF T.expanded THEN ToSet(a) \cup ToSet(b) ELSE {}
  <2>1. a \o b \in Seq(Rows) /\ ToSet(a \o b) = ToSet(a) \cup ToSet(b) BY <1>2, ToSetConcat
  <2>2. <<>> \in Seq(Rows) OBVIOUS
  <2>3. ToSet(<<>>) = {} BY ToSetOne
  <2>4. QED BY <2>1, <2>2, <2>3
<1> HIDE DEF c
<1> DEFINE g == H \o h
<1>6. g \in Seq(Rows) /\ ToSet(g) = ToSet(H) \cup ToSet(h) BY <1>1, <1>3, ToSetConcat
<1> DEFINE j == g \o P
<1> HIDE DEF g
<1>7. j \in Seq(Rows) /\ ToSet(j) = ToSet(g) \cup ToSet(P) BY <1>3, <1>6, ToSetConcat
<1> HIDE DEF j
<1>8. j \o c \in Seq(Rows) /\ ToSet(j \o c) = ToSet(j) \cup ToSet(c) BY <1>5, <1>7, ToSetConcat
<1>9. Shown(T) = j \o c BY <1>4 DEF g, j
<1>10. QED BY <1>3, <1>5, <1>6, <1>7, <1>8, <1>9 DEF h, a, b

(* One more session hides no row.                                          *)
LEMMA ShownGrows ==
  ASSUME NEW T, T.list \in Lists, NEW U, U.list \in Lists, T.trees \subseteq U.trees,
         U.expanded = T.expanded,
         U.list = T.list \/ \E e \in Sessions : U.list = Append(T.list, e),
         NEW row, Projects(T, row)
  PROVE  Projects(U, row)
<1>1. ASSUME NEW w PROVE ToSet(Listed(T, w)) \subseteq ToSet(Listed(U, w))
  <2> DEFINE a == In(T.list, w)
             b == In(U.list, w)
  <2>1. a \in Seq(Ids) /\ b \in Seq(Ids) BY InType
  <2>2. \E c \in Seq(Ids) : b = a \o c
    <3>1. CASE U.list = T.list
      <4>1. b = a \o <<>> BY <2>1, <3>1
      <4>2. <<>> \in Seq(Ids) OBVIOUS
      <4>3. QED BY <4>1, <4>2
    <3>2. CASE \E e \in Sessions : U.list = Append(T.list, e)
      <4>1. PICK e \in Sessions : U.list = Append(T.list, e) BY <3>2
      <4> DEFINE q == <<e>>
      <4>2. U.list = T.list \o q /\ q \in Lists BY <4>1, AppendIsConcat DEF Lists
      <4> HIDE DEF q
      <4>3. In(U.list, w) = In(T.list, w) \o In(q, w) BY <4>2, InConcat
      <4>4. In(q, w) \in Seq(Ids) BY <4>2, InType
      <4>5. QED BY <4>3, <4>4 DEF a, b
    <3>3. QED BY <3>1, <3>2
  <2> HIDE DEF a, b
  <2>3. PICK c \in Seq(Ids) : b = a \o c BY <2>2
  <2>4. ToSet(a) \subseteq ToSet(b) BY <2>1, <2>3, ToSetConcat
  <2>5. Len(b) >= Len(a) BY <2>1, <2>3
  <2>6. Listed(T, w) = IF Len(a) < 2 THEN <<>> ELSE a BY DEF Listed, a
  <2>7. Listed(U, w) = IF Len(b) < 2 THEN <<>> ELSE b BY DEF Listed, b
  <2>8. Len(a) \in Nat /\ Len(b) \in Nat BY <2>1
  <2>9. CASE Len(a) < 2 BY <2>6, <2>9, ToSetOne
  <2>10. CASE ~(Len(a) < 2)
    <3>1. ~(Len(b) < 2) BY <2>5, <2>8, <2>10
    <3>2. QED BY <2>4, <2>6, <2>7, <2>10, <3>1
  <2>11. QED BY <2>9, <2>10
<1>2. ASSUME NEW w \in Workspaces PROVE ToSet(Branch(T, w)) \subseteq ToSet(Branch(U, w))
  BY <1>1, BranchIs
<1>3. ToSet(Branch(T, Trunk)) \subseteq ToSet(Branch(U, Trunk))
      /\ ToSet(Branch(T, Feature)) \subseteq ToSet(Branch(U, Feature))
  BY <1>2 DEF Workspaces
<1>4. ToSet(Listed(T, Home)) \subseteq ToSet(Listed(U, Home)) BY <1>1
<1>5. /\ ToSet(Shown(T)) = {Home, Project} \cup ToSet(Listed(T, Home))
           \cup IF T.expanded THEN ToSet(Branch(T, Trunk)) \cup ToSet(Branch(T, Feature)) ELSE {}
      /\ ToSet(Shown(U)) = {Home, Project} \cup ToSet(Listed(U, Home))
           \cup IF U.expanded THEN ToSet(Branch(U, Trunk)) \cup ToSet(Branch(U, Feature)) ELSE {}
  BY ShownIs
<1>6. QED BY <1>3, <1>4, <1>5 DEF Projects

-----------------------------------------------------------------------------
(* The pass.                                                               *)

(* A repaired cursor is on a row that is shown, and what the terminal is   *)
(* to follow is that row, with somebody there.                             *)
Inhabited(list, row) ==
    (\E w : Lodges(list, row, w)) \/ (row \in Workspaces /\ In(list, row) # <<>>)

LEMMA RepairIs ==
  ASSUME NEW prev, NEW next, next.list \in Lists, NEW cursor
  PROVE  LET r == Repair(prev, next, cursor) IN
         /\ r.cursor = None \/ Projects(next, r.cursor)
         /\ r.follow = None \/ Inhabited(next.list, r.follow)
<1> DEFINE landing == Slide(prev, next, cursor)
           r == Repair(prev, next, cursor)
<1>1. Projects(next, Home) /\ Projects(next, Project) BY ShownIs DEF Projects
<1>2. \A tree, row : Projects(next, Climb(tree, next, row)) BY <1>1 DEF Climb
<1> HIDE DEF landing
<1>3. ASSUME Projects(next, landing), NEW f, f = FollowTarget(next, landing), f # None
      PROVE  Inhabited(next.list, f)
  <2>1. f = landing /\ (f \in Ids \/ (f \in Workspaces /\ In(next.list, f) # <<>>))
    BY <1>3 DEF FollowTarget
  <2>2. CASE f \in Ids
    <3>1. f \notin {Home, Project, Trunk, Feature} BY <2>2, Names DEF Workspaces
    <3>2. f \in {Home, Project} \cup ToSet(Listed(next, Home))
              \cup IF next.expanded THEN ToSet(Branch(next, Trunk)) \cup ToSet(Branch(next, Feature)) ELSE {}
      BY <1>3, <2>1, ShownIs DEF Projects
    <3>3. /\ ToSet(Branch(next, Trunk)) \subseteq {Trunk} \cup ToSet(Listed(next, Trunk))
          /\ ToSet(Branch(next, Feature)) \subseteq {Feature} \cup ToSet(Listed(next, Feature))
      BY BranchIs DEF Workspaces
    <3>4. \E w : f \in ToSet(Listed(next, w)) BY <3>1, <3>2, <3>3
    <3>5. QED BY <3>4, ListedIs DEF Inhabited
  <2>3. QED BY <2>1, <2>2 DEF Inhabited
<1>4. \/ r = [cursor |-> cursor, follow |-> None] /\ (cursor = None \/ Projects(next, cursor))
      \/ r = [cursor |-> Climb(next, next, cursor), follow |-> None]
      \/ r = [cursor |-> Home, follow |-> None]
      \/ r = [cursor |-> landing, follow |-> FollowTarget(next, landing)] /\ Projects(next, landing)
      \/ r = [cursor |-> Climb(prev, next, cursor), follow |-> None]
  BY DEF Repair, landing
<1> HIDE DEF r
<1>5. r.cursor = None \/ Projects(next, r.cursor) BY <1>1, <1>2, <1>4
<1>6. r.follow = None \/ Inhabited(next.list, r.follow) BY <1>3, <1>4
<1>7. QED BY <1>5, <1>6 DEF r

LEMMA FollowIs ==
  ASSUME NEW s, Good(s), NEW row, Inhabited(s.list, row)
  PROVE  LET t == Follow(s, row) IN Grown(s, t) /\ t.list = s.list /\ Settled(t)
<1>1. s \in Wide /\ s.list \in Lists BY DEF Good, Wide
<1>2. ASSUME NEW id, NEW w, Lodges(s.list, id, w)
      PROVE  LET t == ActivateId(s, id) IN Grown(s, t) /\ t.list = s.list /\ Settled(t)
  <2> DEFINE t == ActivateId(s, id)
  <2>1. /\ Grown(s, t) /\ t.list = s.list /\ t.opened = s.opened
        /\ ~Open(s, id) => t = s
        /\ \A v : Lodges(s.list, id, v) =>
             /\ t.current = v /\ Lives(t.list, v) /\ t.active = [s.active EXCEPT ![v] = id]
    BY ActivateIdIs
  <2> HIDE DEF t
  <2>2. Grown(s, t) /\ t.list = s.list /\ Settled(t) BY <1>2, <2>1 DEF Settled
  <2>3. QED BY <2>2 DEF t
<1>3. CASE \E w : Lodges(s.list, row, w)
  <2>1. row \in Ids BY <1>1, <1>3, LodgerIs
  <2>2. Follow(s, row) = ActivateId(s, row) BY <2>1 DEF Follow
  <2>3. QED BY <1>2, <1>3, <2>2
<1>4. CASE row \in Workspaces /\ In(s.list, row) # <<>>
  <2> DEFINE id == IF Open(s, s.active[row]) THEN s.active[row] ELSE Head(In(s.list, row))
  <2>1. row \notin Ids BY <1>4, Names
  <2>2. Follow(s, row) = ActivateId(s, id) BY <2>1 DEF Follow
  <2>3. \E w : Lodges(s.list, id, w)
    <3>1. Lodges(s.list, Head(In(s.list, row)), row) BY <1>1, <1>4, HeadLodges
    <3>2. Open(s, s.active[row]) => \E i \in 1..Len(s.list) : s.list[i].id = s.active[row]
      BY <1>1, HereIs
    <3>3. QED BY <3>1, <3>2 DEF Lodges
  <2> HIDE DEF id
  <2>4. QED BY <1>2, <2>2, <2>3
<1>5. QED BY <1>3, <1>4 DEF Inhabited

Waits == app.deferred = NotDeferred \/ (ui.follow /\ Worthy(app.deferred.to))

LEMMA ReconcileStep ==
  ASSUME Fit, Waits, Reconcile
  PROVE  /\ Step(app, app') /\ app'.deferred = NotDeferred
         /\ app'.cursor = None \/ Projects(Tree', app'.cursor)
<1> DEFINE next == [Tree EXCEPT !.trees = IF app.deferred.tree THEN {Trunk} ELSE @]
           repair == Repair(seen.tree, next, app.cursor)
           taken == [app EXCEPT !.deferred = NotDeferred, !.cursor = repair.cursor]
           t == app'
<1>1. app \in Wide /\ app.list \in Lists /\ Good(app) /\ app.opened <= MaxSessions
  BY DEF Fit, Good, Wide
<1>2. /\ t = IF ~ui.follow THEN taken
             ELSE IF repair.follow # None THEN Follow(taken, repair.follow)
             ELSE Apply(taken, app.deferred.to)
      /\ t.opened <= MaxSessions /\ feature' = feature /\ expanded' = expanded
  BY DEF Reconcile, Steered
<1>3. next.list = app.list /\ next.trees \subseteq Trees /\ next.expanded = expanded
  BY DEF Tree, Trees
<1> HIDE DEF next
<1>4. /\ repair.cursor = None \/ Projects(next, repair.cursor)
      /\ repair.follow = None \/ Inhabited(next.list, repair.follow)
  BY <1>1, <1>3, RepairIs
<1> HIDE DEF repair, t
<1>5. repair.cursor \in Opt(Rows)
  <2>1. ToSet(Shown(next)) \subseteq Rows
    <3>1. Shown(next) \in Seq(Rows) BY <1>1, <1>3, ShownIs
    <3>2. QED BY <3>1 DEF ToSet
  <2>2. QED BY <1>4, <2>1 DEF Projects, Opt
<1>6. /\ Good(taken) /\ taken.list = app.list /\ taken.opened = app.opened
      /\ taken.current = app.current /\ taken.bare = app.bare /\ taken.cursor = repair.cursor
      /\ taken.deferred = NotDeferred /\ taken.active = app.active
  <2> DEFINE m == [app EXCEPT !.deferred = NotDeferred]
  <2>1. NotDeferred \in [to : Workspaces \cup Opt(Ids), tree : BOOLEAN]
    BY DEF NotDeferred, Opt
  <2>2. /\ Good(m) /\ m.list = app.list /\ m.opened = app.opened /\ m.current = app.current
        /\ m.active = app.active /\ m.bare = app.bare /\ m.cursor = app.cursor
        /\ m.deferred = NotDeferred
    BY <1>1, <2>1, GoodDeferred
  <2>3. taken = [m EXCEPT !.cursor = repair.cursor] OBVIOUS
  <2> HIDE DEF m, taken
  <2> DEFINE u == [m EXCEPT !.cursor = repair.cursor]
  <2>4. /\ Good(u) /\ u.list = m.list /\ u.opened = m.opened /\ u.current = m.current
        /\ u.active = m.active /\ u.bare = m.bare /\ u.cursor = repair.cursor
        /\ u.deferred = m.deferred /\ u.returns = m.returns
    BY <1>5, <2>2, GoodCursor
  <2> HIDE DEF u
  <2>5. taken = u BY <2>3 DEF u
  <2>6. QED BY <2>2, <2>4, <2>5
<1> HIDE DEF taken
<1>7. /\ Grown(taken, t)
      /\ Quiet /\ Roomed(app) => Settled(t)
  <2>1. CASE ~ui.follow
    <3>1. t = taken BY <1>2, <2>1
    <3>2. app.deferred = NotDeferred BY <2>1 DEF Waits
    <3>3. QED BY <1>6, <3>1, <3>2 DEF Roomed, Settled, Grown
  <2>2. CASE ui.follow /\ repair.follow # None
    <3>1. t = Follow(taken, repair.follow) BY <1>2, <2>2
    <3>2. Inhabited(taken.list, repair.follow)
      BY <1>3, <1>4, <1>6, <2>2
    <3>3. QED BY <1>6, <3>1, <3>2, FollowIs
  <2>3. CASE ui.follow /\ repair.follow = None
    <3> DEFINE v == app.deferred.to
    <3>1. t = Apply(taken, v) BY <1>2, <2>3
    <3>2. v \in Workspaces \cup Opt(Ids) BY <1>1 DEF Wide
    <3> HIDE DEF v
    <3>3. /\ Grown(taken, t)
          /\ v = None => t = taken
          /\ t.opened <= MaxSessions =>
               /\ v \in {Home, Trunk} => t.current = v /\ Settled(t)
               /\ \A w : Lodges(taken.list, v, w) => t.current = w /\ Settled(t)
      BY <1>1, <1>6, <3>1, <3>2, ApplyIs
    <3>4. CASE app.deferred = NotDeferred
      <4>1. v = None BY <3>4 DEF NotDeferred, v
      <4>2. QED BY <1>6, <3>3, <3>4, <4>1 DEF Roomed, Settled
    <3>5. CASE app.deferred # NotDeferred
      <4>1. Worthy(v) BY <3>5 DEF Waits, v
      <4>2. Quiet => v \in {Home, Trunk} BY <2>3, <4>1 DEF Quiet, Worthy
      <4>3. QED BY <1>2, <3>3, <4>2
    <3>6. QED BY <3>4, <3>5
  <2>4. QED BY <2>1, <2>2, <2>3
<1>8. Good(t) /\ t.cursor = repair.cursor /\ t.deferred = NotDeferred
  BY <1>6, <1>7 DEF Grown
<1>9. Longer(taken, t) BY <1>2, <1>7, GrownLonger
<1>10. Longer(app, t) BY <1>6, <1>9 DEF Longer
<1>11. Step(app, t)
  <2>1. t.list # app.list => ~SameIds(app, t) BY <1>1, <1>10, LongerDiffers
  <2>2. QED BY <1>7, <1>8, <2>1 DEF Step, Roomed
<1>12. repair.cursor = None \/ Projects(Tree', repair.cursor)
  <2>1. SUFFICES ASSUME Projects(next, repair.cursor) PROVE Projects(Tree', repair.cursor)
    BY <1>4
  <2> DEFINE U == [list |-> t.list, trees |-> Trees, expanded |-> expanded]
  <2>2. Tree' = U BY <1>2 DEF Tree, Trees, t
  <2>3. U.list \in Lists /\ next.trees \subseteq U.trees /\ U.expanded = next.expanded
    BY <1>3, <1>8 DEF Good, Wide
  <2>4. U.list = next.list \/ \E e \in Sessions : U.list = Append(next.list, e)
    BY <1>3, <1>10 DEF Longer
  <2> HIDE DEF U
  <2>5. Projects(U, repair.cursor) BY <1>1, <1>3, <2>1, <2>3, <2>4, ShownGrows
  <2>6. QED BY <2>2, <2>5
<1>13. QED BY <1>8, <1>11, <1>12 DEF t

-----------------------------------------------------------------------------
(* The inductive invariant.  Ids that are given once and an active session *)
(* that is one of the workspace's own are what every rule for a landing    *)
(* rests on; that a verdict waits only under "follow", and is one worth    *)
(* following, is what makes the pass that takes it settle the view.        *)

IInv ==
    /\ TypeOK
    /\ Good(app)
    /\ Waits
    /\ Quiet => Roomed(app)

LEMMA TreeTyped ==
  ASSUME TypeOK
  PROVE  /\ Tree \in TreeOf
         /\ Observed \in [list : Seq(Sessions), trees : SUBSET Workspaces, expanded : BOOLEAN,
                          current : Workspaces]
<1>1. Trees \in SUBSET Workspaces BY DEF Trees, Workspaces
<1>2. app.list \in Seq(Sessions) /\ app.current \in Workspaces /\ expanded \in BOOLEAN
  BY DEF TypeOK, App
<1>3. QED BY <1>1, <1>2 DEF Tree, TreeOf, Observed

LEMMA AppIs ==
  ASSUME NEW s, Good(s), s.opened <= MaxSessions
  PROVE  s \in App
<1>1. s \in Wide BY DEF Good
<1>2. s.opened \in 0..MaxSessions BY <1>1, Names DEF Wide
<1>3. QED BY <1>1, <1>2 DEF App, Wide, Lists

LEMMA InitIInv ==
  ASSUME Init
  PROVE  IInv
<1>1. PICK place \in Layouts, active \in [Workspaces -> Opt(Ids)],
           current \in Workspaces, cursor \in Rows :
        LET list == [id \in DOMAIN place |-> [id |-> id, ws |-> place[id], tab |-> FALSE]] IN
        /\ \A w \in Workspaces : IF In(list, w) = <<>> THEN active[w] = None
                                 ELSE active[w] \in ToSet(In(list, w))
        /\ active[current] # None
        /\ app = [list |-> list, active |-> active, returns |-> [id \in Ids |-> None],
                  current |-> current, opened |-> Len(list), deferred |-> NotDeferred,
                  cursor |-> cursor, bare |-> {}]
  BY DEF Init
<1> DEFINE list == [id \in DOMAIN place |-> [id |-> id, ws |-> place[id], tab |-> FALSE]]
           n == Len(place)
<1>2. place \in Seq(Workspaces) /\ n \in Ids /\ DOMAIN place = 1..n
  BY ViewsAssumption DEF ViewsAssumption
<1>3. n \in Nat /\ n <= MaxSessions BY <1>2, Names DEF Ids
<1>4. 1..n \subseteq Ids BY <1>3, Names DEF Ids
<1>5. list \in Lists /\ Len(list) = n
  <2>1. \A i \in 1..n : [id |-> i, ws |-> place[i], tab |-> FALSE] \in Sessions
    BY <1>2, <1>4 DEF Sessions
  <2>2. list = [i \in 1..n |-> [id |-> i, ws |-> place[i], tab |-> FALSE]] BY <1>2
  <2>3. QED BY <1>3, <2>1, <2>2 DEF Lists
<1>6. \A i \in 1..n : list[i].id = i BY <1>2
<1>7. /\ \A w \in Workspaces : IF In(list, w) = <<>> THEN active[w] = None
                               ELSE active[w] \in ToSet(In(list, w))
      /\ active[current] # None
      /\ app = [list |-> list, active |-> active, returns |-> [id \in Ids |-> None],
                current |-> current, opened |-> n, deferred |-> NotDeferred,
                cursor |-> cursor, bare |-> {}]
  BY <1>1, <1>5
<1> HIDE DEF list, n
<1>8. \A w \in Workspaces : IF Lives(list, w) THEN Lodges(list, active[w], w)
                            ELSE active[w] = None
  <2>1. SUFFICES ASSUME NEW w \in Workspaces
                 PROVE  IF Lives(list, w) THEN Lodges(list, active[w], w) ELSE active[w] = None
    OBVIOUS
  <2>2. In(list, w) = <<>> <=> ~Lives(list, w) BY <1>5, InEmpty DEF Lives
  <2>3. In(list, w) \in Seq(Ids) BY <1>5, InType
  <2>4. \A k \in 1..Len(In(list, w)) : Lodges(list, In(list, w)[k], w)
    BY <1>5, InMember DEF Lodges
  <2>5. \A x \in ToSet(In(list, w)) : Lodges(list, x, w)
    <3>1. DOMAIN In(list, w) = 1..Len(In(list, w)) BY <2>3
    <3>2. QED BY <2>4, <3>1 DEF ToSet
  <2>6. QED BY <1>7, <2>2, <2>5
<1>9. app \in Wide /\ app.opened <= MaxSessions
  <2>1. [id \in Ids |-> None] \in [Ids -> Opt(Ids)] BY DEF Opt
  <2>2. NotDeferred \in [to : Workspaces \cup Opt(Ids), tree : BOOLEAN]
    BY DEF NotDeferred, Opt
  <2>3. n \in 0..(MaxSessions + 1) BY <1>3, Names
  <2>4. cursor \in Opt(Rows) BY DEF Opt
  <2> HIDE DEF NotDeferred
  <2>5. QED BY <1>3, <1>5, <1>7, <2>1, <2>2, <2>3, <2>4 DEF Wide
<1>10. Good(app)
  <2>1. \A i, j \in 1..Len(list) : list[i].id = list[j].id => i = j BY <1>5, <1>6
  <2>2. \A i \in 1..Len(list) : list[i].id <= n BY <1>3, <1>5, <1>6
  <2>3. \A id \in Ids : [x \in Ids |-> None][id] # id BY Names
  <2>4. QED BY <1>7, <1>8, <1>9, <2>1, <2>2, <2>3 DEF Good
<1>11. app.deferred = NotDeferred /\ app.list = list /\ app.current = current
       /\ app.active = active
  BY <1>7
<1>12. Settled(app)
  <2>1. current \in Workspaces /\ active[current] # None BY <1>7
  <2>2. QED BY <1>8, <1>11, <2>1 DEF Settled
<1>13. TypeOK
  <2>1. /\ ui \in Settings /\ feature \in Fortunes /\ expanded \in BOOLEAN
        /\ seen = [tree |-> Tree, built |-> Observed] /\ ops = 0 /\ agreed = FALSE
    BY DEF Init
  <2>2. app \in App BY <1>9, <1>10, AppIs
  <2>3. /\ Tree \in TreeOf
        /\ Observed \in [list : Seq(Sessions), trees : SUBSET Workspaces, expanded : BOOLEAN,
                         current : Workspaces]
    <3>1. Trees \in SUBSET Workspaces BY DEF Trees, Workspaces
    <3>2. app.list \in Seq(Sessions) /\ app.current \in Workspaces BY <2>2 DEF App
    <3>3. QED BY <2>1, <3>1, <3>2 DEF Tree, TreeOf, Observed
  <2>4. ops \in 0..MaxOps BY <2>1, Names
  <2> HIDE DEF Tree, Observed
  <2>5. QED BY <2>1, <2>2, <2>3, <2>4 DEF TypeOK
<1>14. QED BY <1>10, <1>11, <1>12, <1>13 DEF IInv, Waits, Roomed

(* What an operation does to the rest.                                     *)
LEMMA OpTyped ==
  ASSUME TypeOK, NEW s, NEW closes \in BOOLEAN, Op(s, closes)
  PROVE  ops' \in 0..MaxOps /\ agreed' \in BOOLEAN /\ app'.opened <= MaxSessions
<1>1. ops' \in 0..MaxOps BY Names DEF Op, TypeOK
<1>2. agreed' \in BOOLEAN BY DEF Op
<1>3. QED BY <1>1, <1>2 DEF Op

SeenType == [tree : TreeOf, built : [list : Seq(Sessions), trees : SUBSET Workspaces,
                                     expanded : BOOLEAN, current : Workspaces]]

(* Every step, but for the record.                                         *)
Framed ==
    /\ ui' = ui /\ feature' \in Fortunes /\ expanded' \in BOOLEAN
    /\ seen' \in SeenType /\ ops' \in 0..MaxOps /\ agreed' \in BOOLEAN
    /\ app'.opened <= MaxSessions

LEMMA OnlyFramed ==
  ASSUME TypeOK, NEW s, Only(s)
  PROVE  Framed /\ seen' = seen
<1>1. FALSE \in BOOLEAN OBVIOUS
<1>2. Op(s, FALSE) /\ UNCHANGED <<ui, feature, expanded, seen>> BY DEF Only
<1>3. ops' \in 0..MaxOps /\ agreed' \in BOOLEAN /\ app'.opened <= MaxSessions
  BY <1>1, <1>2, OpTyped
<1>4. QED BY <1>2, <1>3 DEF Framed, TypeOK, SeenType

LEMMA StepSame ==
  ASSUME NEW s, Good(s)
  PROVE  Step(s, s)
BY DEF Step

LEMMA NextIs ==
  ASSUME IInv, Next
  PROVE  /\ Step(app, app') /\ Framed
         /\ seen' # seen => app'.cursor = None \/ Projects(Tree', app'.cursor)
<1>1. TypeOK /\ Fit /\ Good(app) /\ Waits
  <2>1. app.opened <= MaxSessions BY Names DEF IInv, TypeOK, App
  <2>2. QED BY <2>1 DEF IInv, Fit
<1>2. ASSUME NEW w \in Workspaces, NEW show \in BOOLEAN, OpenShell(w, show)
      PROVE  Step(app, app') /\ Framed /\ seen' = seen
  BY <1>1, <1>2, OpenShellStep, OnlyFramed DEF OpenShell
<1>3. ASSUME NEW w \in Workspaces, ActivateWorkspace(w)
      PROVE  Step(app, app') /\ Framed /\ seen' = seen
  BY <1>1, <1>3, ActivateWorkspaceStep, OnlyFramed DEF ActivateWorkspace
<1>4. ASSUME NEW id \in Ids, ActivateSession(id)
      PROVE  Step(app, app') /\ Framed /\ seen' = seen
  BY <1>1, <1>4, ActivateSessionStep, OnlyFramed DEF ActivateSession
<1>5. ASSUME NEW id \in Ids, CloseSession(id)
      PROVE  Step(app, app') /\ Framed /\ seen' = seen
  <2>1. TRUE \in BOOLEAN OBVIOUS
  <2>2. Op(CloseOne(app, id, "user"), TRUE) /\ UNCHANGED <<ui, feature, expanded, seen>>
    BY <1>5 DEF CloseSession
  <2>3. ops' \in 0..MaxOps /\ agreed' \in BOOLEAN /\ app'.opened <= MaxSessions
    BY <1>1, <2>1, <2>2, OpTyped
  <2>4. Framed BY <1>1, <2>2, <2>3 DEF Framed, TypeOK, SeenType
  <2>5. QED BY <1>1, <1>5, <2>2, <2>4, CloseSessionStep
<1>6. ASSUME NEW id \in Ids, SpawnFails(id)
      PROVE  Step(app, app') /\ Framed /\ seen' = seen
  BY <1>1, <1>6, SpawnFailsStep, OnlyFramed DEF SpawnFails
<1>7. ASSUME NEW id \in Ids, NEW w \in Workspaces, DropSession(id, w)
      PROVE  Step(app, app') /\ Framed /\ seen' = seen
  BY <1>1, <1>7, DropSessionStep, OnlyFramed DEF DropSession
<1>8. ASSUME NEW s, Op(s, FALSE), UNCHANGED <<ui, seen>>, feature' \in Fortunes, expanded' \in BOOLEAN
      PROVE  Framed /\ seen' = seen
  <2>1. FALSE \in BOOLEAN OBVIOUS
  <2>2. ops' \in 0..MaxOps /\ agreed' \in BOOLEAN /\ app'.opened <= MaxSessions
    BY <1>1, <1>8, <2>1, OpTyped
  <2>3. QED BY <1>1, <1>8, <2>2 DEF Framed, TypeOK, SeenType
<1>9. ASSUME NEW delta \in {-1, 1}, StepSession(delta)
      PROVE  Step(app, app') /\ Framed /\ seen' = seen
  <2>1. \E s : Op(s, FALSE) BY <1>9 DEF StepSession
  <2>2. UNCHANGED <<ui, seen>> /\ feature' = feature BY <1>9 DEF StepSession
  <2>3. expanded' \in BOOLEAN BY <1>1, <1>9 DEF StepSession, TypeOK
  <2>4. feature' \in Fortunes BY <1>1, <2>2 DEF TypeOK
  <2>5. QED BY <1>1, <1>8, <1>9, <2>1, <2>2, <2>3, <2>4, StepSessionStep
<1>10. ASSUME NEW row \in ToSet(Shown(Tree)), MoveCursor(row)
       PROVE  Step(app, app') /\ Framed /\ seen' = seen
  <2>1. app' = [app EXCEPT !.cursor = row] BY <1>10 DEF MoveCursor, Only, Op
  <2>2. Tree.list \in Lists BY <1>1 DEF Tree, Good, Wide
  <2>3. Shown(Tree) \in Seq(Rows) BY <2>2, ShownIs
  <2>4. row \in Opt(Rows) BY <1>10, <2>3 DEF ToSet, Opt
  <2>5. Step(app, app') BY <1>1, <2>1, <2>4, StepSame, StepCursor
  <2>6. QED BY <1>1, <1>10, <2>5, OnlyFramed DEF MoveCursor
<1>11. CASE ToggleTab
  <2>1. Step(app, app') BY <1>1, <1>11, ToggleTabStep
  <2>2. Framed /\ seen' = seen BY <1>1, <1>11, OnlyFramed DEF ToggleTab
  <2>3. QED BY <2>1, <2>2
<1>12. CASE DeleteWorktree
  <2>1. \E s : Op(s, FALSE) BY <1>12 DEF DeleteWorktree
  <2>2. UNCHANGED <<ui, seen>> /\ feature' \in Fortunes /\ expanded' = expanded
    BY <1>12 DEF DeleteWorktree, Fortunes
  <2>3. expanded' \in BOOLEAN BY <1>1, <2>2 DEF TypeOK
  <2>4. QED BY <1>1, <1>8, <1>12, <2>1, <2>2, <2>3, DeleteWorktreeStep
<1>13. CASE FeatureChanges
  <2>1. Op(app, FALSE) BY <1>13 DEF FeatureChanges
  <2>2. UNCHANGED <<ui, seen>> /\ feature' \in Fortunes /\ expanded' = expanded
    BY <1>13 DEF FeatureChanges, Fortunes, Fates
  <2>3. expanded' \in BOOLEAN /\ app' = app BY <1>1, <2>1, <2>2 DEF TypeOK, Op
  <2>4. QED BY <1>1, <1>8, <2>1, <2>2, <2>3, StepSame
<1>14. CASE ToggleExpanded
  <2>1. Op(app, FALSE) BY <1>14 DEF ToggleExpanded
  <2>2. UNCHANGED <<ui, seen>> /\ feature' = feature /\ expanded' \in BOOLEAN
    BY <1>1, <1>14 DEF ToggleExpanded, TypeOK
  <2>3. feature' \in Fortunes /\ app' = app BY <1>1, <2>1, <2>2 DEF TypeOK, Op
  <2>4. QED BY <1>1, <1>8, <2>1, <2>2, <2>3, StepSame
<1>15. CASE Reconcile
  <2>1. /\ Step(app, app') /\ app'.deferred = NotDeferred
        /\ app'.cursor = None \/ Projects(Tree', app'.cursor)
    BY <1>1, <1>15, ReconcileStep
  <2>2. /\ app'.opened <= MaxSessions /\ agreed' = FALSE
        /\ UNCHANGED <<ui, feature, expanded, ops>>
    BY <1>15 DEF Reconcile
  <2>3. seen' \in SeenType
    <3> DEFINE T == Tree
               O == Observed
               next == [T EXCEPT !.trees = IF app.deferred.tree THEN {Trunk} ELSE @]
    <3>1. seen' = [tree |-> next, built |-> O] BY <1>15 DEF Reconcile
    <3>2. /\ T \in TreeOf
          /\ O \in [list : Seq(Sessions), trees : SUBSET Workspaces, expanded : BOOLEAN,
                    current : Workspaces]
      BY <1>1, TreeTyped
    <3> HIDE DEF T, O
    <3>3. {Trunk} \in SUBSET Workspaces BY DEF Workspaces
    <3>4. next \in TreeOf BY <3>2, <3>3 DEF TreeOf
    <3> HIDE DEF next
    <3>5. QED BY <3>1, <3>2, <3>4 DEF SeenType
  <2>4. Framed BY <1>1, <2>2, <2>3 DEF Framed, TypeOK
  <2>5. QED BY <2>1, <2>4
<1>16. ASSUME NEW id \in Ids, NEW w \in Workspaces, MoveSession(id, w)
       PROVE  Step(app, app') /\ Framed /\ seen' = seen
  BY <1>1, <1>16, MoveSessionStep, OnlyFramed DEF MoveSession
<1>17. QED
  BY <1>2, <1>3, <1>4, <1>5, <1>6, <1>7, <1>9, <1>10, <1>11, <1>12, <1>13, <1>14, <1>15, <1>16
     DEF Next

LEMMA NextIInv == IInv /\ [Next]_vars => IInv'
<1>1. ASSUME IInv, Next PROVE IInv'
  <2>1. Step(app, app') /\ Framed BY <1>1, NextIs
  <2>2. Good(app') /\ app' \in App BY <2>1, AppIs DEF Step, Framed
  <2>3. TypeOK'
    <3>1. ui \in Settings BY <1>1 DEF IInv, TypeOK
    <3>2. QED BY <2>1, <2>2, <3>1 DEF TypeOK, Framed, SeenType
  <2>4. ui' = ui BY <2>1 DEF Framed
  <2>5. Waits' BY <1>1, <2>1, <2>4 DEF IInv, Waits, Step, Worthy, Rings
  <2>6. (Quiet => Roomed(app))'
    <3>1. Quiet' <=> Quiet BY <2>4 DEF Quiet, Rings
    <3>2. Quiet => Roomed(app') BY <1>1, <2>1 DEF IInv, Step
    <3>3. Roomed(app)' <=> Roomed(app') BY DEF Roomed, Settled, Lives, NotDeferred
    <3>4. QED BY <3>1, <3>2, <3>3
  <2>7. Good(app)' BY <2>2
  <2>8. QED BY <2>3, <2>5, <2>6, <2>7 DEF IInv
<1>2. ASSUME IInv, UNCHANGED vars PROVE IInv'
  <2>1. ui' = ui /\ app' = app /\ feature' = feature /\ expanded' = expanded /\ seen' = seen
        /\ ops' = ops /\ agreed' = agreed
    BY <1>2 DEF vars
  <2>2. QED BY <1>2, <2>1 DEF IInv, TypeOK, Waits, Worthy, Rings, Quiet
<1>3. QED BY <1>1, <1>2

LEMMA Inductive == Spec => []IInv
<1>1. Init => IInv BY InitIInv
<1>2. QED BY <1>1, NextIInv, PTL DEF Spec

(* Whatever opens, fails to open, closes, moves or is deleted, in any      *)
(* order, under any settings: a workspace with sessions has an active one, *)
(* and it is one of its own (SessionList::remove, move_to, set_active).    *)
THEOREM ActiveIsOwnAlways == Spec => [](TypeOK /\ ActiveIsOwn)
<1>1. ASSUME IInv PROVE TypeOK /\ ActiveIsOwn
  <2>1. app \in Wide /\ Good(app) /\ TypeOK BY <1>1 DEF IInv, Good
  <2>2. ASSUME NEW w \in Workspaces
        PROVE  IF In(app.list, w) = <<>> THEN app.active[w] = None
               ELSE Here(app, app.active[w], w)
    <3>1. In(app.list, w) = <<>> <=> ~Lives(app.list, w) BY <2>1, HereIs
    <3>2. Here(app, app.active[w], w) <=> Lodges(app.list, app.active[w], w) BY <2>1, HereIs
    <3>3. IF Lives(app.list, w) THEN Lodges(app.list, app.active[w], w) ELSE app.active[w] = None
      BY <2>1 DEF Good
    <3>4. QED BY <3>1, <3>2, <3>3
  <2>3. QED BY <2>1, <2>2 DEF ActiveIsOwn
<1>2. QED BY <1>1, Inductive, PTL

LEMMA QuietIsSettled == IInv /\ Quiet => NotStranded
<1> SUFFICES ASSUME IInv, Quiet PROVE NotStranded OBVIOUS
<1>1. app \in Wide /\ Roomed(app) BY DEF IInv, Good
<1>2. In(app.list, app.current) = <<>> <=> ~Lives(app.list, app.current) BY <1>1, HereIs
<1>3. QED BY <1>1, <1>2 DEF NotStranded, Roomed, Settled

(* A close strands nobody, under any settings but a ring under "follow":   *)
(* the empty workspace in view is one no shell could be opened in, or the  *)
(* verdict of a close still waits (close_sessions, apply_close_fallback).  *)
THEOREM NobodyStranded ==
  Spec => [](~(ui.follow /\ ui.policy \in {"ring_global", "ring_project"}) => NotStranded)
<1>1. IInv => (~(ui.follow /\ ui.policy \in {"ring_global", "ring_project"}) => NotStranded)
  BY QuietIsSettled DEF Quiet, Rings
<1>2. QED BY <1>1, Inductive, PTL

(* So where no setting rings under "follow", as in what is checked, the    *)
(* whole invariant holds.                                                  *)
THEOREM ViewsAreSound ==
  ASSUME \A u \in Settings : ~(u.follow /\ u.policy \in {"ring_global", "ring_project"})
  PROVE  Spec => []Inv
<1>1. IInv => NotStranded
  <2> SUFFICES ASSUME IInv PROVE NotStranded OBVIOUS
  <2>1. ui \in Settings BY DEF IInv, TypeOK
  <2>2. Quiet BY <2>1 DEF Quiet, Rings
  <2>3. QED BY <2>2, QuietIsSettled
<1>2. TypeOK /\ ActiveIsOwn /\ NotStranded => Inv BY DEF Inv
<1>3. QED BY <1>1, <1>2, Inductive, ActiveIsOwnAlways, PTL

(* Every pass leaves the cursor on a row the sidebar draws, after          *)
(* whatever was closed, moved, deleted or collapsed before it, and with    *)
(* whatever shell the pass then opens (sidebar_focus::repair).             *)
THEOREM CursorIsOnRow == Spec => CursorOnRow
<1>1. IInv /\ [Next]_vars
        => [seen' # seen => app'.cursor = None \/ Projects(Tree', app'.cursor)]_vars
  BY NextIs
<1>2. QED BY <1>1, Inductive, PTL DEF Spec, CursorOnRow

LEMMA IdsAre ==
  ASSUME NEW list \in Lists
  PROVE  ToSet(IdsOf(list)) = {x \in Ids : \E w : Lodges(list, x, w)}
<1>1. DOMAIN IdsOf(list) = 1..Len(list) /\ IdsOf(list) \in Seq(Ids)
      /\ \A i \in 1..Len(list) : IdsOf(list)[i] = list[i].id
  BY IdsOfIs
<1>2. \A x : x \in ToSet(IdsOf(list)) <=> \E i \in 1..Len(list) : x = list[i].id
  BY <1>1 DEF ToSet
<1>3. \A x : (\E w : Lodges(list, x, w)) <=> \E i \in 1..Len(list) : x = list[i].id
  BY DEF Lodges
<1>4. \A i \in 1..Len(list) : list[i].id \in Ids
  <2>1. \A i \in 1..Len(list) : list[i] \in Sessions BY DEF Lists
  <2>2. QED BY <2>1 DEF Sessions
<1>5. QED BY <1>2, <1>3, <1>4

(* A list with the same sessions in other places shows what was on screen  *)
(* (plan_move, MoveOutcome::follow, walk_swaps).                           *)
THEOREM MovesKeepScreen == Spec => MoveKeepsScreen
<1>1. IInv /\ [Next]_vars
        => [app'.list # app.list /\ ToSet(IdsOf(app'.list)) = ToSet(IdsOf(app.list))
            => OnScreen(app) \in {None, OnScreen(app')}]_vars
  <2>1. SUFFICES ASSUME IInv, Next, app'.list # app.list,
                        ToSet(IdsOf(app'.list)) = ToSet(IdsOf(app.list))
                 PROVE  OnScreen(app) \in {None, OnScreen(app')}
    OBVIOUS
  <2>2. Step(app, app') BY <2>1, NextIs
  <2>3. app.list \in Lists /\ app'.list \in Lists BY <2>1, <2>2 DEF IInv, Step, Good, Wide
  <2>4. \A x, w : (Lodges(app.list, x, w) => x \in Ids) /\ (Lodges(app'.list, x, w) => x \in Ids)
    BY <2>3, LodgerIs
  <2>5. SameIds(app, app') BY <2>1, <2>3, <2>4, IdsAre DEF SameIds
  <2>6. QED BY <2>1, <2>2, <2>5 DEF Step
<1>2. QED BY <1>1, Inductive, PTL DEF Spec, MoveKeepsScreen

-----------------------------------------------------------------------------
(* Cursor and terminal land together.                                      *)

LEMMA SelectNone ==
  ASSUME NEW T, NEW S, NEW q \in Seq(T), \A x \in ToSet(q) : x \notin S
  PROVE  Select(q, S) = <<>>
<1>1. Select(q, S) \in Seq(S \cap T) BY SelectType
<1>2. ASSUME Select(q, S) # <<>> PROVE FALSE
  <2> DEFINE p == Select(q, S)
  <2>1. p \in Seq(S \cap T) /\ p # <<>> BY <1>1, <1>2
  <2> HIDE DEF p
  <2>2. 1 \in 1..Len(p) /\ p[1] \in S BY <2>1
  <2>3. PICK i \in 1..Len(q) : p[1] = q[i] BY <2>2, SelectMember DEF p
  <2>4. q[i] \in ToSet(q) BY <2>3 DEF ToSet
  <2>5. QED BY <2>2, <2>3, <2>4
<1>3. QED BY <1>2

LEMMA SelectWhole ==
  ASSUME NEW T, NEW S, NEW q \in Seq(T), \A x \in ToSet(q) : x \in S
  PROVE  Select(q, S) = q
<1>1. \A i \in 1..Len(q) : q[i] \in S BY DEF ToSet
<1>2. q \in Seq(S) BY <1>1
<1>3. QED BY <1>2, SelectAll

Apart(list) == \A k, j \in 1..Len(list) : list[k].id = list[j].id => k = j

LEMMA RowsShown ==
  ASSUME NEW T, T.list \in Lists
  PROVE  /\ \A v \in Workspaces : Projects(T, v) <=> v = Home \/ (T.expanded /\ v \in T.trees)
         /\ \A x \in Ids : Projects(T, x) =>
              \E v \in Workspaces : Projects(T, v) /\ x \in ToSet(Listed(T, v))
<1>1. ToSet(Shown(T)) = {Home, Project} \cup ToSet(Listed(T, Home))
        \cup IF T.expanded THEN ToSet(Branch(T, Trunk)) \cup ToSet(Branch(T, Feature)) ELSE {}
  BY ShownIs
<1>2. /\ ToSet(Branch(T, Trunk)) = IF Trunk \in T.trees THEN {Trunk} \cup ToSet(Listed(T, Trunk)) ELSE {}
      /\ ToSet(Branch(T, Feature)) = IF Feature \in T.trees THEN {Feature} \cup ToSet(Listed(T, Feature)) ELSE {}
  BY BranchIs DEF Workspaces
<1>3. \A v : ToSet(Listed(T, v)) \subseteq Ids
  <2>1. \A v : Listed(T, v) \in Seq(Ids) BY ListedIs
  <2>2. QED BY <2>1 DEF ToSet
<1>4. \A v \in Workspaces : v \notin Ids /\ v # Project BY Names
<1>5. \A x \in Ids : x \notin {Home, Project, Trunk, Feature} BY Names DEF Workspaces
<1>6. \A v \in Workspaces : Projects(T, v) <=> v = Home \/ (T.expanded /\ v \in T.trees)
  <2>1. \A v : v \in Workspaces => v \in {Home, Trunk, Feature} BY DEF Workspaces
  <2>2. Home # Trunk /\ Home # Feature /\ Trunk # Feature BY Names
  <2>3. QED BY <1>1, <1>2, <1>3, <1>4, <2>1, <2>2 DEF Projects
<1>7. ASSUME NEW x \in Ids, Projects(T, x)
      PROVE  \E v \in Workspaces : Projects(T, v) /\ x \in ToSet(Listed(T, v))
  <2>1. Home \in Workspaces /\ Trunk \in Workspaces /\ Feature \in Workspaces BY DEF Workspaces
  <2>2. x \in ToSet(Shown(T)) BY <1>7 DEF Projects
  <2>3. \/ x \in ToSet(Listed(T, Home))
        \/ T.expanded /\ Trunk \in T.trees /\ x \in ToSet(Listed(T, Trunk))
        \/ T.expanded /\ Feature \in T.trees /\ x \in ToSet(Listed(T, Feature))
    BY <1>1, <1>2, <1>5, <2>2
  <2>4. QED BY <1>6, <2>1, <2>3
<1>8. QED BY <1>6, <1>7

(* The row above a session's is its workspace's.                           *)
LEMMA ParentIs ==
  ASSUME NEW T, T.list \in Lists, Apart(T.list), NEW x, NEW v, Lodges(T.list, x, v)
  PROVE  Parent(T, x) = IF v \in {Home} \cup T.trees THEN v ELSE Detached
<1>1. x \in Ids BY LodgerIs
<1>2. x \notin {Home, Project} /\ x \notin Workspaces BY <1>1, Names DEF Workspaces
<1>3. PICK i \in 1..Len(T.list) : T.list[i].ws = v /\ T.list[i].id = x BY DEF Lodges
<1>4. At(T.list, x) \in 1..Len(T.list) /\ T.list[At(T.list, x)].id = x BY <1>3, AtIs
<1>5. At(T.list, x) = i BY <1>3, <1>4 DEF Apart
<1>6. QED BY <1>2, <1>3, <1>5 DEF Parent

(* What stands beside a session, in a workspace whose row is shown.        *)
LEMMA SiblingsIs ==
  ASSUME NEW T, T.list \in Lists, Apart(T.list), NEW v \in Workspaces, Projects(T, v)
  PROVE  Siblings(T, v) = Listed(T, v)
<1> DEFINE S == {row \in Model(T) : Parent(T, row) = v}
           h == Listed(T, Home)
           a == Branch(T, Trunk)
           b == Branch(T, Feature)
           c == IF T.expanded THEN a \o b ELSE <<>>
           H == <<Home>>
           P == <<Project>>
<1>1. v = Home \/ (T.expanded /\ v \in T.trees) BY RowsShown
<1>2. \A w \in Workspaces : w \notin S
  <2>1. Root # v /\ Project # v BY Names
  <2>2. QED BY <2>1 DEF Parent
<1>3. Project \notin S BY Names DEF Parent
<1>4. ASSUME NEW w, NEW x \in ToSet(Listed(T, w)) PROVE x \in S <=> w = v
  <2>1. Lodges(T.list, x, w) BY ListedIs
  <2>2. Parent(T, x) = IF w \in {Home} \cup T.trees THEN w ELSE Detached BY <2>1, ParentIs
  <2>3. v \in {Home} \cup T.trees /\ v # Detached BY <1>1, Names
  <2>4. x \in Model(T)
    <3>1. ToSet(IdsOf(T.list)) = {y \in Ids : \E u : Lodges(T.list, y, u)} BY IdsAre
    <3>2. x \in Ids BY <2>1, LodgerIs
    <3>3. QED BY <2>1, <3>1, <3>2 DEF Model
  <2>5. QED BY <2>2, <2>3, <2>4
<1> HIDE DEF S
<1>5. ASSUME NEW w PROVE Select(Listed(T, w), S) = IF w = v THEN Listed(T, w) ELSE <<>>
  <2>1. Listed(T, w) \in Seq(Rows) BY ListedIs
  <2>2. w = v => Select(Listed(T, w), S) = Listed(T, w) BY <1>4, <2>1, SelectWhole
  <2>3. w # v => Select(Listed(T, w), S) = <<>> BY <1>4, <2>1, SelectNone
  <2>4. QED BY <2>2, <2>3
<1>6. ASSUME NEW w \in Workspaces
      PROVE  Select(Branch(T, w), S) = IF w = v /\ w \in T.trees THEN Listed(T, w) ELSE <<>>
  <2> DEFINE W == <<w>>
  <2>1. W \in Seq(Rows) BY DEF Rows
  <2>2. Select(W, S) = <<>> BY <1>2, SelectOne
  <2>3. Listed(T, w) \in Seq(Rows) BY ListedIs
  <2>4. Branch(T, w) = IF w \in T.trees THEN W \o Listed(T, w) ELSE <<>> BY DEF Branch
  <2> HIDE DEF W
  <2>5. Select(W \o Listed(T, w), S) = Select(W, S) \o Select(Listed(T, w), S)
    BY <2>1, <2>3, SelectConcat
  <2>6. Select(Listed(T, w), S) = IF w = v THEN Listed(T, w) ELSE <<>> BY <1>5
  <2>7. <<>> \o Listed(T, w) = Listed(T, w) /\ <<>> \o <<>> = <<>> BY <2>3
  <2>8. Select(<<>>, S) = <<>> BY SelectEmpty
  <2>9. QED BY <2>2, <2>4, <2>5, <2>6, <2>7, <2>8
<1>7. h \in Seq(Rows) BY ListedIs
<1>8. a \in Seq(Rows) /\ b \in Seq(Rows) BY BranchIs DEF Workspaces
<1>9. H \in Seq(Rows) /\ P \in Seq(Rows) BY DEF Rows, Workspaces
<1>10. Select(H, S) = <<>> /\ Select(P, S) = <<>>
  BY <1>2, <1>3, SelectOne DEF Workspaces
<1>11. Siblings(T, v) = Select(((H \o h) \o P) \o c, S)
  BY DEF Siblings, Shown, Branch, S
<1>12. /\ Select(h, S) = IF v = Home THEN Listed(T, v) ELSE <<>>
       /\ Select(a, S) = IF v = Trunk /\ v \in T.trees THEN Listed(T, v) ELSE <<>>
       /\ Select(b, S) = IF v = Feature /\ v \in T.trees THEN Listed(T, v) ELSE <<>>
  <2>1. Home \in Workspaces /\ Trunk \in Workspaces /\ Feature \in Workspaces BY DEF Workspaces
  <2>2. Select(h, S) = IF Home = v THEN Listed(T, Home) ELSE <<>> BY <1>5
  <2>3. Select(a, S) = IF Trunk = v /\ Trunk \in T.trees THEN Listed(T, Trunk) ELSE <<>>
    BY <1>6, <2>1
  <2>4. Select(b, S) = IF Feature = v /\ Feature \in T.trees THEN Listed(T, Feature) ELSE <<>>
    BY <1>6, <2>1
  <2>5. QED BY <2>2, <2>3, <2>4
<1> HIDE DEF h, a, b, H, P
<1>13. c \in Seq(Rows) /\ Select(c, S) = IF T.expanded THEN Select(a, S) \o Select(b, S) ELSE <<>>
  <2>1. a \o b \in Seq(Rows) BY <1>8
  <2>2. Select(a \o b, S) = Select(a, S) \o Select(b, S) BY <1>8, SelectConcat
  <2>3. <<>> \in Seq(Rows) OBVIOUS
  <2>4. Select(<<>>, S) = <<>> BY SelectEmpty
  <2>5. QED BY <2>1, <2>2, <2>3, <2>4
<1> HIDE DEF c
<1> DEFINE g == H \o h
<1>14. g \in Seq(Rows) /\ Select(g, S) = Select(H, S) \o Select(h, S)
  <2>1. Select(H \o h, S) = Select(H, S) \o Select(h, S) BY <1>7, <1>9, SelectConcat
  <2>2. H \o h \in Seq(Rows) BY <1>7, <1>9
  <2>3. QED BY <2>1, <2>2
<1> DEFINE j == g \o P
<1> HIDE DEF g
<1>15. j \in Seq(Rows) /\ Select(j, S) = Select(g, S) \o Select(P, S)
  <2>1. Select(g \o P, S) = Select(g, S) \o Select(P, S) BY <1>9, <1>14, SelectConcat
  <2>2. g \o P \in Seq(Rows) BY <1>9, <1>14
  <2>3. QED BY <2>1, <2>2
<1> HIDE DEF j
<1>16. Select(j \o c, S) = Select(j, S) \o Select(c, S) BY <1>13, <1>15, SelectConcat
<1>17. Siblings(T, v) = Select(j, S) \o Select(c, S) BY <1>11, <1>16 DEF g, j
<1> DEFINE l == Listed(T, v)
<1>18. l \in Seq(Rows) BY ListedIs
<1>19. v \in {Home, Trunk, Feature} /\ Home # Trunk /\ Home # Feature /\ Trunk # Feature
  BY Names DEF Workspaces
<1> HIDE DEF l
<1>20. <<>> \o l = l /\ l \o <<>> = l /\ <<>> \o <<>> = <<>> BY <1>18
<1>21. CASE v = Home
  <2>1. Select(h, S) = l /\ Select(a, S) = <<>> /\ Select(b, S) = <<>>
    BY <1>12, <1>19, <1>21 DEF l
  <2>2. Select(j, S) = l BY <1>10, <1>14, <1>15, <1>20, <2>1
  <2>3. Select(c, S) = <<>> BY <1>13, <1>20, <2>1
  <2>4. QED BY <1>17, <1>20, <2>2, <2>3 DEF l
<1>22. CASE v # Home
  <2>1. Select(h, S) = <<>> BY <1>12, <1>22
  <2>2. Select(j, S) = <<>> BY <1>10, <1>14, <1>15, <1>20, <2>1
  <2>3. T.expanded /\ v \in T.trees BY <1>1, <1>22
  <2>4. Select(c, S) = l
    <3>1. CASE v = Trunk
      <4>1. Select(a, S) = l /\ Select(b, S) = <<>> BY <1>12, <1>19, <2>3, <3>1 DEF l
      <4>2. QED BY <1>13, <1>20, <2>3, <4>1
    <3>2. CASE v = Feature
      <4>1. Select(a, S) = <<>> /\ Select(b, S) = l BY <1>12, <1>19, <2>3, <3>2 DEF l
      <4>2. QED BY <1>13, <1>20, <2>3, <4>1
    <3>3. QED BY <1>19, <1>22, <3>1, <3>2
  <2>5. QED BY <1>17, <1>20, <2>2, <2>4 DEF l
<1>23. QED BY <1>21, <1>22

LEMMA ListedShown ==
  ASSUME NEW T, T.list \in Lists, NEW v \in Workspaces, Projects(T, v),
         NEW x \in ToSet(Listed(T, v))
  PROVE  Projects(T, x)
<1>1. ToSet(Shown(T)) = {Home, Project} \cup ToSet(Listed(T, Home))
        \cup IF T.expanded THEN ToSet(Branch(T, Trunk)) \cup ToSet(Branch(T, Feature)) ELSE {}
  BY ShownIs
<1>2. /\ ToSet(Branch(T, Trunk)) = IF Trunk \in T.trees THEN {Trunk} \cup ToSet(Listed(T, Trunk)) ELSE {}
      /\ ToSet(Branch(T, Feature)) = IF Feature \in T.trees THEN {Feature} \cup ToSet(Listed(T, Feature)) ELSE {}
  BY BranchIs DEF Workspaces
<1>3. v = Home \/ (T.expanded /\ v \in T.trees) BY RowsShown
<1>4. v \in {Home, Trunk, Feature} BY DEF Workspaces
<1>5. QED BY <1>1, <1>2, <1>3, <1>4 DEF Projects

LEMMA Joined ==
  ASSUME NEW p \in Lists, NEW q \in Lists
  PROVE  /\ p \o q \in Lists /\ Len(p) \in Nat /\ Len(q) \in Nat
         /\ Len(p \o q) = Len(p) + Len(q)
         /\ \A k \in 1..Len(p) : (p \o q)[k] = p[k]
         /\ \A k \in 1..Len(q) : (p \o q)[Len(p) + k] = q[k]
<1>1. p \in Seq(Sessions) /\ q \in Seq(Sessions) BY DEF Lists
<1>2. p \o q \in Seq(Sessions) /\ Len(p \o q) = Len(p) + Len(q) BY <1>1
<1>3. \A k \in 1..Len(p \o q) : (p \o q)[k] = IF k <= Len(p) THEN p[k] ELSE q[k - Len(p)]
  BY <1>1
<1>4. Len(p) \in Nat /\ Len(q) \in Nat BY <1>1
<1>5. \A k \in 1..Len(p) : (p \o q)[k] = p[k] BY <1>2, <1>3, <1>4
<1>6. \A k \in 1..Len(q) : (p \o q)[Len(p) + k] = q[k]
  <2>1. SUFFICES ASSUME NEW k \in 1..Len(q) PROVE (p \o q)[Len(p) + k] = q[k] OBVIOUS
  <2>2. Len(p) + k \in 1..Len(p \o q) /\ ~(Len(p) + k <= Len(p)) /\ (Len(p) + k) - Len(p) = k
    BY <1>2, <1>4
  <2>3. QED BY <1>3, <2>2
<1>7. QED BY <1>2, <1>4, <1>5, <1>6 DEF Lists

One(x) == <<x>>

LEMMA InOne ==
  ASSUME NEW e \in Sessions
  PROVE  In(One(e), e.ws) = <<e.id>>
<1> DEFINE one == <<e>>
<1>1. one \in Lists /\ Len(one) = 1 /\ one[1] = e BY DEF Lists
<1>2. e \in Of(e.ws) BY OfIs
<1>3. Select(one, Of(e.ws)) = one BY <1>2, SelectOne
<1> HIDE DEF one
<1>4. In(one, e.ws) = IdsOf(one) BY <1>1, <1>3, Chosen
<1>5. Len(IdsOf(one)) = 1 /\ IdsOf(one) \in Seq(Ids) /\ IdsOf(one)[1] = e.id
  BY <1>1, IdsOfIs
<1>6. e.id \in Ids BY DEF Sessions
<1>7. <<e.id>> \in Seq(Ids) /\ Len(<<e.id>>) = 1 /\ <<e.id>>[1] = e.id BY <1>6
<1>8. \A k \in 1..1 : IdsOf(one)[k] = <<e.id>>[k] BY <1>5, <1>7
<1>9. IdsOf(one) = <<e.id>> BY <1>5, <1>7, <1>8, SeqEqual
<1>10. QED BY <1>4, <1>9 DEF one, One

(* A list around one of its sessions, and what is left without it.         *)
Before(list, i) == SubSeq(list, 1, i - 1)
After(list, i) == SubSeq(list, i + 1, Len(list))

LEMMA PartsAre ==
  ASSUME NEW list \in Lists, NEW i \in 1..Len(list)
  PROVE  /\ Len(list) \in Nat /\ list[i] \in Sessions /\ One(list[i]) \in Lists
         /\ Before(list, i) \in Lists /\ Len(Before(list, i)) = i - 1
         /\ \A k \in 1..(i - 1) : Before(list, i)[k] = list[k]
         /\ After(list, i) \in Lists /\ Len(After(list, i)) = Len(list) - i
         /\ \A k \in 1..(Len(list) - i) : After(list, i)[k] = list[i + k]
         /\ RemoveAt(list, i) = Before(list, i) \o After(list, i)
<1> DEFINE n == Len(list)
           pre == SubSeq(list, 1, i - 1)
           post == SubSeq(list, i + 1, n)
           one == <<list[i]>>
<1>1. n \in Nat /\ i \in Nat /\ 1 <= i /\ i <= n /\ list \in Seq(Sessions) BY DEF Lists
<1>2. list[i] \in Sessions /\ one \in Lists BY <1>1 DEF Lists
<1>3. /\ pre \in Lists /\ Len(pre) = i - 1
      /\ \A k \in 1..(i - 1) : pre[k] = list[k]
  BY <1>1 DEF Lists
<1>4. /\ post \in Lists /\ Len(post) = n - i
      /\ \A k \in 1..(n - i) : post[k] = list[i + k]
  BY <1>1 DEF Lists
<1>5. RemoveAt(list, i) = pre \o post BY DEF RemoveAt
<1>6. pre = Before(list, i) /\ post = After(list, i) /\ one = One(list[i])
  BY DEF Before, After, One
<1> HIDE DEF pre, post, one
<1>7. QED BY <1>1, <1>2, <1>3, <1>4, <1>5, <1>6

LEMMA AfterIs ==
  ASSUME NEW list \in Lists, NEW i \in 1..Len(list)
  PROVE  SubSeq(RemoveAt(list, i), i, Len(RemoveAt(list, i))) = After(list, i)
<1> DEFINE n == Len(list)
           post == After(list, i)
           rest == RemoveAt(list, i)
           m == Len(rest)
           q == SubSeq(rest, i, m)
<1>1. n \in Nat /\ i \in Nat /\ 1 <= i /\ i <= n BY PartsAre
<1>2. post \in Seq(Sessions) /\ Len(post) = n - i BY PartsAre DEF Lists
<1>3. /\ rest \in Seq(Sessions) /\ m = (i - 1) + (n - i)
      /\ \A k \in 1..(n - i) : rest[(i - 1) + k] = post[k]
  <2> DEFINE pre == Before(list, i)
  <2>1. pre \in Lists /\ Len(pre) = i - 1 /\ post \in Lists /\ rest = pre \o post BY PartsAre
  <2> HIDE DEF pre, post, rest
  <2>2. /\ pre \o post \in Lists /\ Len(pre \o post) = Len(pre) + Len(post)
        /\ \A k \in 1..Len(post) : (pre \o post)[Len(pre) + k] = post[k]
    BY <2>1, Joined
  <2>3. QED BY <1>2, <2>1, <2>2 DEF Lists
<1> HIDE DEF n, post, rest
<1>4. m = n - 1 BY <1>1, <1>3
<1>5. CASE i = n
  <2>1. post = <<>> BY <1>1, <1>2, <1>5
  <2>2. q = <<>> BY <1>1, <1>3, <1>4, <1>5
  <2>3. QED BY <2>1, <2>2 DEF post, rest
<1>6. CASE i < n
  <2>1. m \in Nat /\ i \in 1..m /\ (m - i) + 1 = n - i BY <1>1, <1>4, <1>6
  <2>2. q \in Seq(Sessions) /\ Len(q) = n - i
        /\ \A k \in 1..(n - i) : q[k] = rest[i + k - 1]
    BY <1>1, <1>3, <1>4, <1>6, <2>1
  <2>3. \A k \in 1..(n - i) : i + k - 1 = (i - 1) + k BY <1>1
  <2> HIDE DEF q
  <2>4. \A k \in 1..(n - i) : q[k] = post[k] BY <1>3, <2>2, <2>3
  <2>5. q = post BY <1>2, <2>2, <2>4, SeqEqual
  <2>6. QED BY <2>5 DEF q, post, rest
<1>7. QED BY <1>1, <1>5, <1>6

LEMMA SplitIs ==
  ASSUME NEW list \in Lists, NEW w, NEW i \in 1..Len(list)
  PROVE  /\ In(list, w) = (In(Before(list, i), w) \o In(One(list[i]), w)) \o In(After(list, i), w)
         /\ In(RemoveAt(list, i), w) = In(Before(list, i), w) \o In(After(list, i), w)
<1> DEFINE n == Len(list)
           pre == Before(list, i)
           post == After(list, i)
           one == One(list[i])
           a == pre \o one
           b == a \o post
<1>1. n \in Nat /\ i \in Nat /\ 1 <= i /\ i <= n BY PartsAre
<1>2. /\ pre \in Lists /\ Len(pre) = i - 1
      /\ \A k \in 1..(i - 1) : pre[k] = list[k]
  BY PartsAre
<1>3. /\ post \in Lists /\ Len(post) = n - i
      /\ \A k \in 1..(n - i) : post[k] = list[i + k]
  BY PartsAre
<1>4. one \in Lists BY PartsAre
<1>5. Len(one) = 1 /\ one[1] = list[i] BY DEF One
<1>6. RemoveAt(list, i) = pre \o post BY PartsAre
<1> HIDE DEF n, pre, post, one
<1>7. /\ a \in Lists /\ Len(a) = i /\ a[i] = list[i]
      /\ \A k \in 1..(i - 1) : a[k] = list[k]
  <2>1. /\ a \in Lists /\ Len(a) = Len(pre) + Len(one)
        /\ \A k \in 1..Len(pre) : a[k] = pre[k]
        /\ \A k \in 1..Len(one) : a[Len(pre) + k] = one[k]
    BY <1>2, <1>4, Joined
  <2> HIDE DEF a
  <2>2. (i - 1) + 1 = i /\ 1 \in 1..1 BY <1>1
  <2>3. a[(i - 1) + 1] = one[1] BY <1>2, <1>5, <2>1, <2>2
  <2>4. QED BY <1>2, <1>5, <2>1, <2>2, <2>3
<1> HIDE DEF a
<1>8. b \in Lists /\ Len(b) = n /\ (\A k \in 1..i : b[k] = a[k])
      /\ \A k \in (i + 1)..n : b[k] = post[k - i]
  <2>1. /\ b \in Lists /\ Len(b) = Len(a) + Len(post)
        /\ \A k \in 1..Len(a) : b[k] = a[k]
        /\ \A k \in 1..Len(post) : b[Len(a) + k] = post[k]
    BY <1>3, <1>7, Joined
  <2> HIDE DEF b
  <2>2. i + (n - i) = n BY <1>1
  <2>3. \A k \in (i + 1)..n : k - i \in 1..(n - i) /\ i + (k - i) = k BY <1>1
  <2>4. QED BY <1>3, <1>7, <2>1, <2>2, <2>3
<1> HIDE DEF b
<1>9. \A k \in 1..n : b[k] = list[k]
  <2>1. SUFFICES ASSUME NEW k \in 1..n PROVE b[k] = list[k] OBVIOUS
  <2>2. CASE k < i BY <1>1, <1>7, <1>8, <2>2
  <2>3. CASE k = i BY <1>1, <1>7, <1>8, <2>3
  <2>4. CASE k > i
    <3>1. k - i \in 1..(n - i) /\ k \in (i + 1)..n /\ i + (k - i) = k BY <1>1, <2>4
    <3>2. QED BY <1>3, <1>8, <3>1
  <2>5. QED BY <1>1, <2>2, <2>3, <2>4
<1>10. list = b
  <2>1. Len(list) = n BY DEF n
  <2>2. QED BY <1>1, <1>8, <1>9, <2>1, SeqEqual DEF Lists
<1>11. In(a \o post, w) = In(a, w) \o In(post, w) BY <1>3, <1>7, InConcat
<1>12. In(pre \o one, w) = In(pre, w) \o In(one, w) BY <1>2, <1>4, InConcat
<1>13. In(pre \o post, w) = In(pre, w) \o In(post, w) BY <1>2, <1>3, InConcat
<1>14. In(list, w) = (In(pre, w) \o In(one, w)) \o In(post, w)
  BY <1>10, <1>11, <1>12 DEF a, b
<1>15. QED BY <1>6, <1>13, <1>14 DEF pre, post, one

(* What a close hands the cursor and the terminal.                         *)
LEMMA WithoutFields ==
  ASSUME NEW s, Good(s), NEW i \in 1..Len(s.list), NEW id, s.list[i].id = id
  PROVE  LET t == Without(s, id)
             w == s.list[i].ws
             rest == RemoveAt(s.list, i)
             back == ReturnTarget(s, id) IN
         /\ At(s.list, id) = i /\ t.list = rest /\ w \in Workspaces /\ id \in Ids
         /\ t.active = [s.active EXCEPT ![w] = IF @ # id THEN @ ELSE IF back # None THEN back
                                               ELSE CloseLanding(rest, w, i)]
<1>1. s \in Wide /\ s.list \in Lists BY DEF Good, Wide
<1>2. At(s.list, id) \in 1..Len(s.list) /\ s.list[At(s.list, id)].id = id BY <1>1, AtIs
<1>3. At(s.list, id) = i BY <1>2 DEF Good
<1>4. i # 0 /\ s.list[i] \in Sessions BY <1>1 DEF Lists
<1>5. s.list[i].ws \in Workspaces /\ id \in Ids BY <1>4 DEF Sessions
<1>6. s.active \in [Workspaces -> Opt(Ids)] BY <1>1 DEF Wide
<1> DEFINE w == s.list[i].ws
           rest == RemoveAt(s.list, i)
           back == ReturnTarget(s, id)
           next == IF s.active[w] # id THEN s.active[w] ELSE IF back # None THEN back
                   ELSE CloseLanding(rest, w, i)
<1>7. Without(s, id) = [s EXCEPT !.list = rest, !.returns[id] = None, !.active[w] = next]
  BY <1>3, <1>4 DEF Without
<1>8. [s.active EXCEPT ![w] = next]
        = [s.active EXCEPT ![w] = IF @ # id THEN @ ELSE IF back # None THEN back
                                  ELSE CloseLanding(rest, w, i)]
  BY <1>5, <1>6
<1> HIDE DEF rest, back, next
<1>9. Without(s, id).list = rest /\ Without(s, id).active = [s.active EXCEPT ![w] = next]
  BY <1>1, <1>7 DEF Wide
<1>10. QED BY <1>3, <1>5, <1>8, <1>9 DEF rest, back, next

(* The session at the cursor and on screen was closed: the terminal is at  *)
(* its close landing, and the cursor still where it was.                   *)
Slid(prev, s) ==
    \E i \in 1..Len(prev) :
        /\ prev[i].id = s.cursor /\ prev[i].ws = s.current
        /\ Len(In(prev, s.current)) >= 2 /\ s.list = RemoveAt(prev, i)
        /\ OnScreen(s) = CloseLanding(s.list, s.current, i)

Landed(T, s) ==
    /\ s.deferred = NotDeferred
    /\ Projects(T, s.current)
    /\ s.cursor \in {s.current, OnScreen(s)} \/ (Apart(T.list) /\ Slid(T.list, s))

LEMMA AgreedShown ==
  ASSUME NEW s, Good(s), Agrees(s), NEW T, T.list = s.list, Projects(T, s.cursor)
  PROVE  /\ Projects(T, s.current)
         /\ s.cursor # s.current => /\ s.cursor = OnScreen(s) /\ s.cursor \in Ids
                                    /\ Lodges(s.list, s.cursor, s.current)
                                    /\ Len(In(s.list, s.current)) >= 2
<1>1. s \in Wide /\ s.list \in Lists /\ s.current \in Workspaces BY DEF Good, Wide
<1>2. CASE s.cursor = s.current BY <1>2
<1>3. CASE s.cursor # s.current
  <2>1. s.cursor = OnScreen(s) /\ s.cursor # None BY <1>3 DEF Agrees
  <2>2. Lodges(s.list, s.active[s.current], s.current) BY <1>1, <2>1 DEF Good, OnScreen
  <2>3. Lodges(s.list, s.cursor, s.current) BY <2>1, <2>2 DEF OnScreen
  <2>4. s.cursor \in Ids BY <1>1, <2>3, LodgerIs
  <2>5. PICK v \in Workspaces : Projects(T, v) /\ s.cursor \in ToSet(Listed(T, v))
    BY <1>1, <2>4, RowsShown
  <2>6. Lodges(s.list, s.cursor, v) BY <1>1, <2>5, ListedIs
  <2>7. v = s.current BY <2>3, <2>6 DEF Lodges, Good
  <2>8. Len(In(s.list, v)) >= 2
    <3>1. In(s.list, v) \in Seq(Ids) BY <1>1, InType
    <3>2. Listed(T, v) # <<>> BY <2>5 DEF ToSet
    <3>3. ~(Len(In(s.list, v)) < 2) BY <3>2 DEF Listed
    <3>4. QED BY <3>1, <3>3
  <2>9. QED BY <2>1, <2>3, <2>4, <2>5, <2>7, <2>8
<1>4. QED BY <1>2, <1>3

LEMMA CloseLands ==
  ASSUME NEW s, Good(s), s.opened <= MaxSessions, NEW id, Open(s, id),
         ui.follow, s.deferred = NotDeferred, Agrees(s),
         NEW T, T.list = s.list, Projects(T, s.cursor),
         CloseOne(s, id, "user").opened <= MaxSessions,
         In(CloseOne(s, id, "user").list, CloseOne(s, id, "user").current) # <<>>
  PROVE  Landed(T, CloseOne(s, id, "user"))
<1> DEFINE w == s.list[At(s.list, id)].ws
           t == Without(s, id)
           back == ReturnTarget(s, id)
           returned == IF s.cursor = id THEN back ELSE None
           c == IF returned # None THEN returned ELSE s.cursor
           left == [t EXCEPT !.cursor = c]
           ids == <<id>>
           v == Verdict(s, left, ids, w, "user")
           u == CloseOne(s, id, "user")
<1>1. s \in Wide /\ s.list \in Lists /\ s.current \in Workspaces /\ s.cursor \in Opt(Rows)
  BY DEF Good, Wide
<1>2. PICK i \in 1..Len(s.list) : s.list[i].id = id BY <1>1, HereIs
<1>3. /\ At(s.list, id) = i /\ t.list = RemoveAt(s.list, i) /\ w \in Workspaces /\ id \in Ids
      /\ t.active = [s.active EXCEPT ![w] = IF @ # id THEN @ ELSE IF back # None THEN back
                                            ELSE CloseLanding(RemoveAt(s.list, i), w, i)]
  <2>1. At(s.list, id) = i
    <3>1. At(s.list, id) \in 1..Len(s.list) /\ s.list[At(s.list, id)].id = id
      BY <1>1, <1>2, AtIs
    <3>2. QED BY <1>2, <3>1 DEF Good
  <2>2. w = s.list[i].ws BY <2>1
  <2>3. /\ t.list = RemoveAt(s.list, i) /\ s.list[i].ws \in Workspaces /\ id \in Ids
        /\ t.active = [s.active EXCEPT ![s.list[i].ws] =
                         IF @ # id THEN @ ELSE IF back # None THEN back
                         ELSE CloseLanding(RemoveAt(s.list, i), s.list[i].ws, i)]
    BY <1>2, WithoutFields
  <2> HIDE DEF w, t, back
  <2>4. QED BY <2>1, <2>2, <2>3
<1>4. Less(s, t, {id}) BY WithoutIs
<1>5. Good(t) /\ t.current = s.current /\ t.opened = s.opened /\ t.deferred = s.deferred
      /\ t.cursor = s.cursor
  BY <1>4 DEF Less
<1>6. c \in Opt(Rows)
  <2>1. back \in Opt(Ids)
    <3>1. s.returns[id] \in Opt(Ids) BY <1>1, <1>3 DEF Wide
    <3>2. back \in {None, s.returns[id]} BY DEF ReturnTarget
    <3>3. QED BY <3>1, <3>2 DEF Opt
  <2>2. QED BY <1>1, <2>1 DEF Opt, Rows
<1> HIDE DEF c
<1>7. /\ Good(left) /\ left.list = t.list /\ left.opened = t.opened
      /\ left.current = t.current /\ left.active = t.active /\ left.cursor = c
      /\ left.deferred = t.deferred
  BY <1>5, <1>6, GoodCursor
<1>8. left.active = [s.active EXCEPT ![w] = IF @ # id THEN @ ELSE IF back # None THEN back
                                            ELSE CloseLanding(RemoveAt(s.list, i), w, i)]
  BY <1>3, <1>7
<1>9. u = IF v = None THEN left
          ELSE IF ui.policy = "respawn" THEN Spawn(left, w)
          ELSE [left EXCEPT !.deferred = [to |-> v, tree |-> FALSE]]
  <2>1. ToSet(ids) = {id} BY ToSetOne
  <2>2. Removed(s, ids) = t BY RemovedOne
  <2> HIDE DEF t, v, left
  <2>3. ASSUME s.cursor = id PROVE c = IF back # None THEN back ELSE s.cursor
    BY <2>3 DEF c
  <2>4. (IF s.cursor \in ToSet(ids) THEN ReturnTarget(s, s.cursor) ELSE None) = returned
    BY <2>1
  <2>5. [Removed(s, ids) EXCEPT !.cursor = IF returned # None THEN returned ELSE @] = left
    BY <1>5, <2>2 DEF left, c
  <2>6. "user" # "deleted" OBVIOUS
  <2> HIDE DEF returned
  <2>7. u = Close(s, ids, w, "user") BY DEF CloseOne
  <2>8. QED BY <2>4, <2>5, <2>6, <2>7 DEF Close, Leave, v
<1>10. Projects(T, s.current)
       /\ (s.cursor # s.current => /\ s.cursor = OnScreen(s) /\ s.cursor \in Ids
                                   /\ Lodges(s.list, s.cursor, s.current)
                                   /\ Len(In(s.list, s.current)) >= 2)
  BY AgreedShown
<1>11. s.list[i] \in Sessions /\ s.list[i].ws = w BY <1>1, <1>3 DEF Lists
<1>12. s.current # id BY <1>1, <1>3, Names
<1>13. s.active \in [Workspaces -> Opt(Ids)] BY <1>1 DEF Wide
<1>14. Apart(T.list) BY DEF Good, Apart
<1> SUFFICES Landed(T, u) OBVIOUS
<1> HIDE DEF t, left, u, v
<1>15. CASE v = None
  <2>1. u = left BY <1>9, <1>15
  <2>2. u.current = s.current /\ u.deferred = NotDeferred /\ u.cursor = c
        /\ u.list = RemoveAt(s.list, i)
    BY <1>3, <1>5, <1>7, <2>1
  <2>3. CASE s.cursor # id
    <3>1. c = s.cursor BY <2>3 DEF c
    <3>2. CASE s.cursor = s.current BY <1>10, <2>2, <3>1, <3>2 DEF Landed
    <3>3. CASE s.cursor # s.current
      <4>1. s.active[s.current] = s.cursor BY <1>10, <3>3 DEF OnScreen
      <4>2. left.active[s.current] = s.cursor BY <1>1, <1>3, <1>8, <1>13, <2>3, <4>1
      <4>3. OnScreen(u) = s.cursor BY <2>1, <2>2, <4>2 DEF OnScreen
      <4>4. QED BY <1>10, <2>2, <3>1, <4>3 DEF Landed
    <3>4. QED BY <3>2, <3>3
  <2>4. CASE s.cursor = id
    <3>1. s.cursor # s.current BY <1>12, <2>4
    <3>2. Lodges(s.list, id, s.current) /\ s.active[s.current] = id
      BY <1>10, <2>4, <3>1 DEF OnScreen
    <3>3. w = s.current BY <1>2, <1>11, <3>2 DEF Lodges, Good
    <3>4. left.active[s.current] = IF back # None THEN back
                                   ELSE CloseLanding(RemoveAt(s.list, i), w, i)
      BY <1>1, <1>8, <1>13, <3>2, <3>3
    <3>5. CASE back # None
      <4>1. c = back BY <2>4, <3>5 DEF c
      <4>2. OnScreen(u) = back BY <2>1, <2>2, <3>4, <3>5 DEF OnScreen
      <4>3. QED BY <1>10, <2>2, <4>1, <4>2 DEF Landed
    <3>6. CASE back = None
      <4>1. c = id BY <2>4, <3>6 DEF c
      <4>2. OnScreen(u) = CloseLanding(u.list, u.current, i)
        BY <2>1, <2>2, <3>3, <3>4, <3>6 DEF OnScreen
      <4>3. s.list[i].id = u.cursor /\ s.list[i].ws = u.current
            /\ Len(In(s.list, u.current)) >= 2
        BY <1>2, <1>10, <1>11, <2>2, <3>1, <3>3, <4>1
      <4>4. Slid(s.list, u) BY <2>2, <4>2, <4>3 DEF Slid
      <4>5. QED BY <1>10, <1>14, <2>2, <4>4 DEF Landed
    <3>7. QED BY <3>5, <3>6
  <2>5. QED BY <2>3, <2>4
<1>16. CASE v # None
  <2>1. ids \in Seq(Ids) /\ ToSet(ids) = {id} BY <1>3, ToSetOne
  <2>2. left \in Wide /\ \A x, y : Lodges(left.list, x, y) <=> Lodges(s.list, x, y) /\ x # id
    BY <1>4, <1>7 DEF Less, Good
  <2>3. w = left.current /\ ~Lives(left.list, w)
    <3> HIDE DEF ids
    <3>1. QED BY <1>16, <2>1, <2>2, VerdictIs DEF v
  <2>4. w = s.current BY <1>5, <1>7, <2>3
  <2>5. In(left.list, w) = <<>> BY <2>2, <2>3, HereIs
  <2>6. s.cursor = s.current
    <3>1. SUFFICES ASSUME s.cursor # s.current PROVE FALSE OBVIOUS
    <3>2. Len(In(s.list, w)) >= 2 BY <1>10, <2>4, <3>1
    <3>3. /\ In(s.list, w) = (In(Before(s.list, i), w) \o <<id>>) \o In(After(s.list, i), w)
          /\ In(left.list, w) = In(Before(s.list, i), w) \o In(After(s.list, i), w)
          /\ Before(s.list, i) \in Lists /\ After(s.list, i) \in Lists
      <4>1. left.list = RemoveAt(s.list, i) /\ s.list[i].id = id BY <1>2, <1>3, <1>7
      <4> HIDE DEF w
      <4>2. In(One(s.list[i]), w) = <<id>> BY <1>2, <1>11, InOne
      <4>3. Before(s.list, i) \in Lists /\ After(s.list, i) \in Lists BY <1>1, PartsAre
      <4>4. In(s.list, w) = (In(Before(s.list, i), w) \o In(One(s.list[i]), w))
                              \o In(After(s.list, i), w)
        BY <1>1, SplitIs
      <4>5. In(RemoveAt(s.list, i), w) = In(Before(s.list, i), w) \o In(After(s.list, i), w)
        BY <1>1, SplitIs
      <4>6. QED BY <4>1, <4>2, <4>3, <4>4, <4>5
    <3> DEFINE a == In(Before(s.list, i), w)
               b == In(After(s.list, i), w)
    <3>4. a \in Seq(Ids) /\ b \in Seq(Ids) BY <3>3, InType
    <3> HIDE DEF a, b
    <3>5. In(s.list, w) = (a \o <<id>>) \o b /\ a \o b = <<>> BY <2>5, <3>3 DEF a, b
    <3>6. Len(a) + Len(b) = 0 /\ Len((a \o <<id>>) \o b) = (Len(a) + 1) + Len(b)
      <4>1. Len(a \o b) = Len(a) + Len(b) BY <3>4
      <4>2. Len(<<>>) = 0 OBVIOUS
      <4>3. <<id>> \in Seq(Ids) /\ Len(<<id>>) = 1 BY <1>3
      <4>4. a \o <<id>> \in Seq(Ids) /\ Len(a \o <<id>>) = Len(a) + 1 BY <3>4, <4>3
      <4>5. Len((a \o <<id>>) \o b) = (Len(a) + 1) + Len(b) BY <3>4, <4>4
      <4>6. QED BY <3>5, <4>1, <4>2, <4>5
    <3>7. Len(a) \in Nat /\ Len(b) \in Nat BY <3>4
    <3>8. QED BY <3>2, <3>5, <3>6, <3>7
  <2>7. c = s.current BY <1>12, <2>6 DEF c
  <2>8. CASE ui.policy = "respawn"
    <3>1. u = Spawn(left, w) BY <1>9, <1>16, <2>8
    <3>2. Grown(left, u) /\ u.current = left.current BY <1>3, <1>5, <1>7, <3>1, SpawnIs
    <3>3. u.deferred = NotDeferred /\ u.cursor = s.current /\ u.current = s.current
      BY <1>5, <1>7, <2>7, <3>2 DEF Grown
    <3>4. QED BY <1>10, <3>3 DEF Landed
  <2>9. CASE ui.policy # "respawn"
    <3>1. u = [left EXCEPT !.deferred = [to |-> v, tree |-> FALSE]] BY <1>9, <1>16, <2>9
    <3>2. u.list = left.list /\ u.current = left.current BY <2>2, <3>1 DEF Wide
    <3>3. QED BY <2>3, <2>5, <3>2 DEF u
  <2>10. QED BY <2>8, <2>9
<1>17. QED BY <1>15, <1>16

(* In a list parted around a value it has once, the value's place.         *)
LEMMA PlaceBetween ==
  ASSUME NEW T, NEW a \in Seq(T), NEW b \in Seq(T), NEW x \in T,
         \A k \in 1..Len(a) : a[k] # x, \A k \in 1..Len(b) : b[k] # x
  PROVE  Place((a \o <<x>>) \o b, x) = Len(a) + 1
<1> DEFINE one == <<x>>
           c == a \o one
           q == c \o b
<1>1. one \in Seq(T) /\ Len(one) = 1 /\ one[1] = x /\ Len(a) \in Nat /\ Len(b) \in Nat OBVIOUS
<1> HIDE DEF one
<1>2. /\ c \in Seq(T) /\ Len(c) = Len(a) + 1
      /\ \A k \in 1..(Len(a) + 1) : c[k] = IF k <= Len(a) THEN a[k] ELSE one[k - Len(a)]
  <2>1. /\ c \in Seq(T) /\ Len(c) = Len(a) + Len(one)
        /\ \A k \in 1..(Len(a) + Len(one)) : c[k] = IF k <= Len(a) THEN a[k] ELSE one[k - Len(a)]
    BY <1>1, ConcatProperties
  <2> HIDE DEF c
  <2>2. QED BY <1>1, <2>1
<1> HIDE DEF c
<1>3. /\ q \in Seq(T) /\ Len(q) = (Len(a) + 1) + Len(b)
      /\ \A k \in 1..((Len(a) + 1) + Len(b)) :
           q[k] = IF k <= Len(a) + 1 THEN c[k] ELSE b[k - (Len(a) + 1)]
  <2>1. /\ q \in Seq(T) /\ Len(q) = Len(c) + Len(b)
        /\ \A k \in 1..(Len(c) + Len(b)) : q[k] = IF k <= Len(c) THEN c[k] ELSE b[k - Len(c)]
    BY <1>2, ConcatProperties
  <2> HIDE DEF q
  <2>2. QED BY <1>2, <2>1
<1> HIDE DEF q
<1> DEFINE p == Len(a) + 1
<1>4. DOMAIN q = 1..Len(q) /\ p \in 1..Len(q) BY <1>1, <1>3
<1>5. q[p] = x
  <2>1. p \in 1..(Len(a) + 1) /\ p \in 1..((Len(a) + 1) + Len(b)) /\ p - Len(a) = 1
        /\ ~(p <= Len(a))
    BY <1>1
  <2>2. c[p] = one[1] BY <1>2, <2>1
  <2>3. q[p] = c[p] BY <1>3, <2>1
  <2>4. QED BY <1>1, <2>2, <2>3
<1>6. ASSUME NEW k \in 1..Len(q), q[k] = x PROVE k = p
  <2>1. k \in Nat /\ 1 <= k /\ k <= (Len(a) + 1) + Len(b) BY <1>1, <1>3
  <2>2. CASE k <= Len(a)
    <3>1. k \in 1..Len(a) /\ k \in 1..(Len(a) + 1) /\ k <= Len(a) + 1 BY <1>1, <2>1, <2>2
    <3>2. q[k] = a[k] BY <1>2, <1>3, <2>2, <3>1
    <3>3. QED BY <1>6, <3>1, <3>2
  <2>3. CASE k > Len(a) + 1
    <3>1. k - (Len(a) + 1) \in 1..Len(b) /\ ~(k <= Len(a) + 1) BY <1>1, <2>1, <2>3
    <3>2. q[k] = b[k - (Len(a) + 1)] BY <1>3, <3>1
    <3>3. QED BY <1>6, <3>1, <3>2
  <2>4. QED BY <1>1, <2>1, <2>2, <2>3
<1> HIDE DEF p
<1>7. Place(q, x) \in 1..Len(q) /\ q[Place(q, x)] = x BY <1>4, <1>5, PlaceIs
<1>8. Place(q, x) = p BY <1>6, <1>7
<1>9. QED BY <1>8 DEF p, q, c, one

(* The cursor slides where the terminal landed: slide and close_landing    *)
(* are one rule, as long as the workspace still lists its sessions.        *)
LEMMA SlideIs ==
  ASSUME NEW prev, NEW next, prev.list \in Lists, next.list \in Lists, Apart(prev.list),
         NEW i \in 1..Len(prev.list), NEW v, NEW id,
         prev.list[i].ws = v, prev.list[i].id = id,
         next.list = RemoveAt(prev.list, i), next.trees = prev.trees,
         Projects(prev, v), Projects(next, v), Len(In(prev.list, v)) >= 2, ui.follow
  PROVE  Slide(prev, next, id) = IF Len(In(next.list, v)) >= 2
                                 THEN CloseLanding(next.list, v, i) ELSE v
<1> DEFINE a == In(Before(prev.list, i), v)
           b == In(After(prev.list, i), v)
<1>1. prev.list[i] \in Sessions BY PartsAre
<1>2. v \in Workspaces /\ id \in Ids BY <1>1 DEF Sessions
<1>3. Before(prev.list, i) \in Lists /\ After(prev.list, i) \in Lists BY PartsAre
<1>4. a \in Seq(Ids) /\ b \in Seq(Ids) BY <1>3, InType
<1>5. In(One(prev.list[i]), v) = <<id>> BY <1>1, InOne
<1>6. In(prev.list, v) = (a \o <<id>>) \o b
  <2>1. In(prev.list, v) = (In(Before(prev.list, i), v) \o In(One(prev.list[i]), v))
                             \o In(After(prev.list, i), v)
    BY SplitIs
  <2>2. QED BY <1>5, <2>1
<1>7. In(next.list, v) = a \o b
  <2>1. In(RemoveAt(prev.list, i), v) = In(Before(prev.list, i), v) \o In(After(prev.list, i), v)
    BY SplitIs
  <2>2. QED BY <2>1
<1>8. \A k \in 1..Len(a) : a[k] # id
  <2>1. SUFFICES ASSUME NEW k \in 1..Len(a), a[k] = id PROVE FALSE OBVIOUS
  <2>2. PICK j \in 1..Len(Before(prev.list, i)) : Before(prev.list, i)[j].id = id
    BY <1>3, <2>1, InMember
  <2>3. Len(prev.list) \in Nat /\ Len(Before(prev.list, i)) = i - 1
        /\ \A x \in 1..(i - 1) : Before(prev.list, i)[x] = prev.list[x]
    BY PartsAre
  <2>4. prev.list[j].id = id /\ j \in 1..Len(prev.list) /\ j # i BY <2>2, <2>3
  <2>5. QED BY <2>4 DEF Apart
<1>9. \A k \in 1..Len(b) : b[k] # id
  <2>1. SUFFICES ASSUME NEW k \in 1..Len(b), b[k] = id PROVE FALSE OBVIOUS
  <2>2. PICK j \in 1..Len(After(prev.list, i)) : After(prev.list, i)[j].id = id
    BY <1>3, <2>1, InMember
  <2>3. Len(prev.list) \in Nat /\ Len(After(prev.list, i)) = Len(prev.list) - i
        /\ \A x \in 1..(Len(prev.list) - i) : After(prev.list, i)[x] = prev.list[i + x]
    BY PartsAre
  <2>4. j \in 1..(Len(prev.list) - i) /\ After(prev.list, i)[j].id = id BY <2>2, <2>3
  <2>5. After(prev.list, i)[j] = prev.list[i + j] BY <2>3, <2>4
  <2>6. i + j \in 1..Len(prev.list) /\ i + j # i BY <2>3, <2>4
  <2>7. prev.list[i + j].id = id BY <2>4, <2>5
  <2>8. QED BY <2>6, <2>7 DEF Apart
<1> HIDE DEF a, b
<1>10. Place(In(prev.list, v), id) = Len(a) + 1
  <2>1. Place((a \o <<id>>) \o b, id) = Len(a) + 1 BY <1>2, <1>4, <1>8, <1>9, PlaceBetween
  <2>2. QED BY <1>6, <2>1
<1>11. Parent(prev, id) = v /\ v # Detached /\ v # Root
  <2>1. v = Home \/ (prev.expanded /\ v \in prev.trees) BY <1>2, RowsShown
  <2>2. Lodges(prev.list, id, v) BY DEF Lodges
  <2>3. Parent(prev, id) = IF v \in {Home} \cup prev.trees THEN v ELSE Detached
    BY <2>2, ParentIs
  <2>4. QED BY <1>2, <2>1, <2>3, Names
<1>12. v \in Model(next)
  <2>1. v = Home \/ (next.expanded /\ v \in next.trees) BY <1>2, RowsShown
  <2>2. QED BY <2>1 DEF Model
<1>13. Apart(next.list)
  <2>1. \A k, j \in 1..Len(prev.list) : prev.list[k].id = prev.list[j].id => k = j BY DEF Apart
  <2> DEFINE rest == RemoveAt(prev.list, i)
  <2>2. \A k, j \in 1..Len(rest) : rest[k].id = rest[j].id => k = j
    BY <2>1, RestLodges
  <2> HIDE DEF rest
  <2>3. next.list = rest BY DEF rest
  <2>4. QED BY <2>2, <2>3 DEF Apart
<1> DEFINE s == Siblings(next, v)
           n == Len(a) + 1
           l == a \o b
<1>14. Siblings(prev, v) = In(prev.list, v)
  <2>1. Siblings(prev, v) = Listed(prev, v) BY <1>2, SiblingsIs
  <2>2. In(prev.list, v) \in Seq(Ids) BY InType
  <2>3. ~(Len(In(prev.list, v)) < 2) BY <2>2
  <2>4. QED BY <2>1, <2>3 DEF Listed
<1>15. s = IF Len(l) < 2 THEN <<>> ELSE l
  <2>1. s = Listed(next, v) BY <1>2, <1>13, SiblingsIs
  <2>2. QED BY <1>7, <2>1 DEF Listed
<1>16. Len(a) \in Nat /\ Len(b) \in Nat /\ l \in Seq(Ids) /\ Len(l) = Len(a) + Len(b)
       /\ (b # <<>> => n <= Len(l) /\ l[n] = b[1])
       /\ (b = <<>> => ~(n <= Len(l)))
  <2>1. Len(a) \in Nat /\ Len(b) \in Nat /\ l \in Seq(Ids) /\ Len(l) = Len(a) + Len(b)
        /\ \A k \in 1..(Len(a) + Len(b)) : l[k] = IF k <= Len(a) THEN a[k] ELSE b[k - Len(a)]
    BY <1>4
  <2> HIDE DEF l
  <2>2. b # <<>> => Len(b) >= 1 BY <1>4
  <2>3. b = <<>> => Len(b) = 0 OBVIOUS
  <2>4. n \in Nat /\ n - Len(a) = 1 /\ ~(n <= Len(a)) BY <2>1
  <2>5. b # <<>> => n \in 1..(Len(a) + Len(b)) BY <2>1, <2>2
  <2>6. QED BY <2>1, <2>3, <2>4, <2>5
<1>17. Slide(prev, next, id) = IF n <= Len(s) THEN s[n] ELSE IF s # <<>> THEN Last(s) ELSE v
  <2>1. Slide(prev, next, id) =
          IF v = Detached \/ n = 0 \/ v \notin {Root} \cup Model(next) THEN None
          ELSE IF n <= Len(s) THEN s[n]
          ELSE IF s # <<>> THEN Last(s)
          ELSE IF v = Root THEN None ELSE v
    <3> HIDE DEF n, s
    <3>1. Place(Siblings(prev, v), id) = n BY <1>10, <1>14 DEF n
    <3>2. QED BY <1>11, <3>1 DEF Slide, s
  <2>2. n # 0 BY <1>16
  <2> HIDE DEF n, s
  <2>3. QED BY <1>11, <1>12, <2>1, <2>2
<1> HIDE DEF s, n
<1>18. CASE Len(l) >= 2
  <2>1. s = l /\ l # <<>> /\ In(next.list, v) # <<>>
    <3>1. ~(Len(l) < 2) BY <1>16, <1>18
    <3>2. Len(<<>>) = 0 OBVIOUS
    <3> HIDE DEF l
    <3>3. l # <<>> BY <1>18, <3>2
    <3>4. QED BY <1>7, <1>15, <3>1, <3>3 DEF l
  <2>2. In(SubSeq(next.list, i, Len(next.list)), v) = b BY AfterIs DEF b
  <2>3. CloseLanding(next.list, v, i) = IF b # <<>> THEN Head(b) ELSE Last(l)
    BY <1>7, <2>1, <2>2 DEF CloseLanding
  <2>4. Slide(prev, next, id) = IF b # <<>> THEN b[1] ELSE Last(l)
    <3> HIDE DEF l
    <3>1. QED BY <1>16, <1>17, <2>1
  <2>5. b # <<>> => Head(b) = b[1] BY <1>4
  <2>6. QED BY <1>7, <1>18, <2>3, <2>4, <2>5
<1>19. CASE ~(Len(l) >= 2)
  <2>1. s = <<>> BY <1>15, <1>16, <1>19
  <2>2. Len(s) = 0 BY <2>1
  <2>3. ~(n <= Len(s)) BY <1>16, <2>2 DEF n
  <2>4. Slide(prev, next, id) = v BY <1>17, <2>1, <2>3
  <2>5. QED BY <1>7, <1>19, <2>4
<1>20. QED BY <1>18, <1>19

(* The pass after one close: the cursor stays, climbs to its workspace, or *)
(* slides to what is on screen.                                            *)
LEMMA RepairLands ==
  ASSUME NEW s, Good(s), NEW prev, NEW next, prev.list \in Lists, next.list = s.list,
         next.trees = prev.trees, next.expanded = prev.expanded, ui.follow,
         next.trees \subseteq Workspaces,
         Landed(prev, s), In(s.list, s.current) # <<>>
  PROVE  LET r == Repair(prev, next, s.cursor) IN
         /\ r.cursor \in {s.current, OnScreen(s)}
         /\ r.follow \in {None, s.current, OnScreen(s)}
<1> DEFINE v == s.current
           on == OnScreen(s)
           c == s.cursor
           r == Repair(prev, next, c)
<1>1. s \in Wide /\ s.list \in Lists /\ v \in Workspaces BY DEF Good, Wide
<1>2. Lodges(s.list, on, v)
  <2>1. Lives(s.list, v) BY <1>1, HereIs
  <2>2. QED BY <1>1, <2>1 DEF Good, OnScreen
<1>3. on \in Ids /\ v \notin Ids /\ v # None /\ on # None
  <2>1. on \in Ids BY <1>1, <1>2, LodgerIs
  <2>2. QED BY <1>1, <2>1, Names
<1>4. Projects(prev, v) BY DEF Landed
<1>5. v = Home \/ (prev.expanded /\ v \in prev.trees) BY <1>1, <1>4, RowsShown
<1>6. Projects(next, v) BY <1>1, <1>5, RowsShown
<1>7. Apart(next.list) BY DEF Good, Apart
<1> DEFINE landing == Slide(prev, next, c)
<1>8. /\ c = None \/ Projects(next, c) => r = [cursor |-> c, follow |-> None]
      /\ ~(c = None \/ Projects(next, c)) /\ c \in Model(next)
           => r = [cursor |-> Climb(next, next, c), follow |-> None]
      /\ ~(c = None \/ Projects(next, c)) /\ c \notin Model(next) /\ c \in Model(prev)
         /\ Projects(next, landing)
           => r = [cursor |-> landing, follow |-> FollowTarget(next, landing)]
  BY DEF Repair
<1> HIDE DEF r, landing
<1>9. CASE c = v
  <2>1. r = [cursor |-> c, follow |-> None] BY <1>6, <1>8, <1>9
  <2>2. r.cursor = v /\ r.follow = None BY <1>9, <2>1
  <2>3. QED BY <2>2 DEF r
<1>10. CASE c = on
  <2>1. CASE Projects(next, c)
    <3>1. r = [cursor |-> c, follow |-> None] BY <1>8, <2>1
    <3>2. r.cursor = on /\ r.follow = None BY <1>10, <3>1
    <3>3. QED BY <3>2 DEF r
  <2>2. CASE ~Projects(next, c)
    <3>1. c \in Model(next)
      <4>1. ToSet(IdsOf(next.list)) = {x \in Ids : \E w : Lodges(next.list, x, w)}
        BY <1>1, IdsAre
      <4>2. QED BY <1>2, <1>3, <1>10, <4>1 DEF Model
    <3>2. r = [cursor |-> Climb(next, next, c), follow |-> None]
      BY <1>3, <1>8, <1>10, <2>2, <3>1
    <3>3. Parent(next, c) = IF v \in {Home} \cup next.trees THEN v ELSE Detached
      BY <1>1, <1>2, <1>7, <1>10, ParentIs
    <3>4. Parent(next, c) = v BY <1>5, <3>3
    <3>5. Climb(next, next, c) = v BY <1>6, <3>4 DEF Climb
    <3>6. r.cursor = v /\ r.follow = None BY <3>2, <3>5
    <3>7. QED BY <3>6 DEF r
  <2>3. QED BY <2>1, <2>2
<1>11. CASE Apart(prev.list) /\ Slid(prev.list, s)
  <2>1. PICK i \in 1..Len(prev.list) :
          /\ prev.list[i].id = c /\ prev.list[i].ws = v
          /\ Len(In(prev.list, v)) >= 2 /\ s.list = RemoveAt(prev.list, i)
          /\ on = CloseLanding(s.list, v, i)
    BY <1>11 DEF Slid
  <2>2. landing = IF Len(In(next.list, v)) >= 2 THEN CloseLanding(next.list, v, i) ELSE v
    <3> HIDE DEF v, c
    <3>1. QED BY <1>1, <1>4, <1>6, <1>11, <2>1, SlideIs DEF landing
  <2>3. landing = IF Len(In(next.list, v)) >= 2 THEN on ELSE v BY <2>1, <2>2
  <2>4. Lodges(prev.list, c, v) BY <2>1 DEF Lodges
  <2>5. c \in Ids BY <2>4, LodgerIs
  <2>6. ~Projects(next, c) /\ c \notin Model(next)
    <3>1. \A w : ~Lodges(next.list, c, w)
      <4> DEFINE rest == RemoveAt(prev.list, i)
      <4>1. \A k, j \in 1..Len(prev.list) : prev.list[k].id = prev.list[j].id => k = j
        BY <1>11 DEF Apart
      <4>2. \A x, w : Lodges(rest, x, w) <=> Lodges(prev.list, x, w) /\ x # prev.list[i].id
        BY <4>1, RestLodges
      <4> HIDE DEF rest
      <4>3. next.list = rest BY <2>1 DEF rest
      <4>4. QED BY <2>1, <4>2, <4>3
    <3>2. ~Projects(next, c)
      <4>1. SUFFICES ASSUME Projects(next, c) PROVE FALSE OBVIOUS
      <4>2. PICK w \in Workspaces : c \in ToSet(Listed(next, w))
        BY <1>1, <2>5, <4>1, RowsShown
      <4>3. Lodges(next.list, c, w) BY <1>1, <4>2, ListedIs
      <4>4. QED BY <3>1, <4>3
    <3>3. c \notin Model(next)
      <4>1. ToSet(IdsOf(next.list)) = {x \in Ids : \E w : Lodges(next.list, x, w)}
        BY <1>1, IdsAre
      <4>2. c \notin {Home, Project} BY <2>5, Names DEF Workspaces
      <4>3. c \notin next.trees BY <2>5, Names
      <4>4. QED BY <3>1, <4>1, <4>2, <4>3 DEF Model
    <3>4. QED BY <3>2, <3>3
  <2>7. c \in Model(prev)
    <3>1. ToSet(IdsOf(prev.list)) = {x \in Ids : \E w : Lodges(prev.list, x, w)} BY IdsAre
    <3>2. QED BY <2>4, <2>5, <3>1 DEF Model
  <2>8. c # None BY <2>5, Names
  <2>9. CASE Len(In(next.list, v)) >= 2
    <3>1. landing = on BY <2>3, <2>9
    <3>2. Projects(next, on)
      <4>1. Listed(next, v) = In(next.list, v)
        <5>1. In(next.list, v) \in Seq(Ids) BY <1>1, InType
        <5>2. ~(Len(In(next.list, v)) < 2) BY <2>9, <5>1
        <5>3. QED BY <5>2 DEF Listed
      <4>2. PICK k \in 1..Len(s.list) : s.list[k].ws = v /\ s.list[k].id = on
        BY <1>2 DEF Lodges
      <4>3. PICK m \in 1..Len(In(s.list, v)) : In(s.list, v)[m] = on
        BY <1>1, <4>2, InHas
      <4>4. on \in ToSet(Listed(next, v)) BY <4>1, <4>3 DEF ToSet
      <4>5. QED BY <1>1, <1>6, <4>4, ListedShown
    <3>3. FollowTarget(next, on) = on BY <1>3 DEF FollowTarget
    <3>4. r = [cursor |-> landing, follow |-> FollowTarget(next, landing)]
      BY <1>8, <2>6, <2>7, <2>8, <3>1, <3>2
    <3>5. r.cursor = on /\ r.follow = on BY <3>1, <3>3, <3>4
    <3>6. QED BY <3>5 DEF r
  <2>10. CASE ~(Len(In(next.list, v)) >= 2)
    <3>1. landing = v BY <2>3, <2>10
    <3>2. FollowTarget(next, v) = v BY <1>1 DEF FollowTarget
    <3>3. r = [cursor |-> landing, follow |-> FollowTarget(next, landing)]
      BY <1>6, <1>8, <2>6, <2>7, <2>8, <3>1
    <3>4. r.cursor = v /\ r.follow = v BY <3>1, <3>2, <3>3
    <3>5. QED BY <3>4 DEF r
  <2>11. QED BY <2>9, <2>10
<1>12. QED BY <1>9, <1>10, <1>11 DEF Landed

LEMMA FollowStays ==
  ASSUME NEW s, Good(s), Lodges(s.list, OnScreen(s), s.current),
         NEW row \in {s.current, OnScreen(s)}
  PROVE  LET t == Follow(s, row) IN
         t.current = s.current /\ OnScreen(t) = OnScreen(s) /\ t.cursor = s.cursor
<1> DEFINE v == s.current
           on == OnScreen(s)
           t == ActivateId(s, on)
<1>1. s \in Wide /\ s.list \in Lists /\ v \in Workspaces
      /\ s.active \in [Workspaces -> Opt(Ids)]
  BY DEF Good, Wide
<1>2. on \in Ids /\ v \notin Ids
  <2>1. on \in Ids BY <1>1, LodgerIs
  <2>2. QED BY <1>1, <2>1, Names
<1>3. Open(s, on) BY <1>1, HereIs DEF Lodges
<1>4. Follow(s, row) = t
  <2>1. CASE row = on BY <1>2, <2>1 DEF Follow
  <2>2. CASE row = v
    <3>1. s.active[row] = on BY <2>2 DEF OnScreen
    <3>2. QED BY <1>2, <1>3, <2>2, <3>1 DEF Follow
  <2>3. QED BY <2>1, <2>2
<1>5. Grown(s, t) /\ t.current = v /\ t.active = [s.active EXCEPT ![v] = on]
  <2>1. /\ Grown(s, t) /\ t.list = s.list /\ t.opened = s.opened
        /\ ~Open(s, on) => t = s
        /\ \A w : Lodges(s.list, on, w) =>
             /\ t.current = w /\ Lives(t.list, w) /\ t.active = [s.active EXCEPT ![w] = on]
    BY ActivateIdIs
  <2> HIDE DEF t
  <2>2. QED BY <2>1
<1> HIDE DEF t
<1>6. t.active[v] = on BY <1>1, <1>5
<1>7. t.cursor = s.cursor BY <1>5 DEF Grown
<1>8. QED BY <1>4, <1>5, <1>6, <1>7 DEF OnScreen

(* After a close that counts, and until the pass: the rows are those the   *)
(* last pass drew, and the close left cursor and terminal as Landed says.  *)
Landing ==
    agreed /\ ui.follow /\ In(app.list, app.current) # <<>> =>
        /\ seen.tree.trees = Trees /\ seen.tree.expanded = expanded
        /\ Landed(seen.tree, app)

LEMMA ReconcileLands ==
  ASSUME Fit, TypeOK, Reconcile, agreed, ui.follow, In(app.list, app.current) # <<>>, Landing
  PROVE  app'.current = app.current /\ OnScreen(app') = OnScreen(app) /\ Agrees(app')
<1> DEFINE next == [Tree EXCEPT !.trees = IF app.deferred.tree THEN {Trunk} ELSE @]
           repair == Repair(seen.tree, next, app.cursor)
           taken == [app EXCEPT !.deferred = NotDeferred, !.cursor = repair.cursor]
           v == app.current
           on == OnScreen(app)
<1>1. app \in Wide /\ app.list \in Lists /\ v \in Workspaces BY DEF Fit, Good, Wide
<1>2. seen.tree.list \in Lists BY DEF TypeOK, TreeOf, Lists
<1>3. /\ seen.tree.trees = Trees /\ seen.tree.expanded = expanded
      /\ Landed(seen.tree, app) /\ app.deferred = NotDeferred
  BY DEF Landing, Landed
<1>4. next.list = app.list /\ next.trees = Trees /\ next.expanded = expanded
  BY <1>3 DEF Tree, NotDeferred
<1>5. Trees \subseteq Workspaces BY DEF Trees, Workspaces
<1> HIDE DEF next
<1>6. repair.cursor \in {v, on} /\ repair.follow \in {None, v, on}
  BY <1>2, <1>3, <1>4, <1>5, RepairLands DEF Fit
<1> HIDE DEF repair
<1>7. Lodges(app.list, on, v)
  <2>1. Lives(app.list, v) BY <1>1, HereIs
  <2>2. QED BY <1>1, <2>1 DEF Fit, Good, OnScreen
<1>8. repair.cursor \in Opt(Rows) /\ repair.cursor # None
  <2>1. on \in Ids BY <1>1, <1>7, LodgerIs
  <2>2. QED BY <1>1, <1>6, <2>1, Names DEF Opt, Rows
<1>9. /\ Good(taken) /\ taken.list = app.list /\ taken.current = v
      /\ taken.active = app.active /\ taken.cursor = repair.cursor
  <2> DEFINE a == [app EXCEPT !.deferred = NotDeferred]
             b == [a EXCEPT !.cursor = repair.cursor]
  <2>1. NotDeferred \in [to : Workspaces \cup Opt(Ids), tree : BOOLEAN]
    BY DEF NotDeferred, Opt
  <2>2. Good(a) /\ a.list = app.list /\ a.current = v /\ a.active = app.active
    BY <2>1, GoodDeferred DEF Fit
  <2>3. a \in Wide BY <2>2 DEF Good
  <2> HIDE DEF a
  <2>4. Good(b) /\ b.list = app.list /\ b.current = v /\ b.active = app.active
        /\ b.cursor = repair.cursor
    BY <1>8, <2>2, GoodCursor
  <2>5. b = taken BY DEF a, b
  <2> HIDE DEF b, taken
  <2>6. QED BY <2>4, <2>5
<1>10. app' = IF repair.follow # None THEN Follow(taken, repair.follow)
              ELSE Apply(taken, NotDeferred.to)
  BY <1>3 DEF Reconcile, Steered, next, repair
<1> HIDE DEF taken
<1>11. OnScreen(taken) = on BY <1>9 DEF OnScreen
<1>12. CASE repair.follow = None
  <2>1. app' = taken BY <1>10, <1>12 DEF Apply, NotDeferred
  <2>2. QED BY <1>6, <1>8, <1>9, <1>11, <2>1 DEF Agrees, OnScreen
<1>13. CASE repair.follow # None
  <2>1. repair.follow \in {taken.current, OnScreen(taken)} BY <1>6, <1>9, <1>11, <1>13
  <2>2. Lodges(taken.list, OnScreen(taken), taken.current) BY <1>7, <1>9, <1>11
  <2> DEFINE t == Follow(taken, repair.follow)
  <2>3. t.current = taken.current /\ OnScreen(t) = OnScreen(taken) /\ t.cursor = taken.cursor
    BY <1>9, <2>1, <2>2, FollowStays
  <2>4. app' = t BY <1>10, <1>13
  <2> HIDE DEF t
  <2>5. t.current = v /\ OnScreen(t) = on /\ t.cursor # None /\ t.cursor \in {on, v}
    BY <1>6, <1>8, <1>9, <1>11, <2>3
  <2>6. QED BY <2>4, <2>5 DEF Agrees, OnScreen
<1>14. QED BY <1>12, <1>13

LEMMA NextLanding == IInv /\ Landing /\ [Next]_vars => Landing'
<1> SUFFICES ASSUME IInv, Landing, [Next]_vars, agreed' PROVE Landing'
  BY DEF Landing
<1>1. Fit BY DEF IInv, Fit, TypeOK, App
<1>2. CASE UNCHANGED vars
  BY <1>2 DEF vars, Landing, Landed, Trees, Slid, OnScreen, CloseLanding
<1>3. ASSUME NEW id \in Ids, CloseSession(id) PROVE Landing'
  <2> DEFINE u == CloseOne(app, id, "user")
  <2>1. /\ app' = u /\ u.opened <= MaxSessions /\ Open(app, id)
        /\ ~NeedsPass /\ seen.tree = Tree /\ Agrees(app) /\ Projects(Tree, app.cursor)
        /\ ui' = ui /\ feature' = feature /\ expanded' = expanded /\ seen' = seen
    BY <1>3 DEF CloseSession, Op
  <2>2. app.deferred = NotDeferred BY <2>1 DEF NeedsPass
  <2>3. Tree.list = app.list /\ Tree.trees = Trees /\ Tree.expanded = expanded BY DEF Tree
  <2>4. Trees' = Trees BY <2>1 DEF Trees
  <2>5. ui.follow /\ In(u.list, u.current) # <<>> => Landed(Tree, u)
    <3>1. SUFFICES ASSUME ui.follow, In(u.list, u.current) # <<>> PROVE Landed(Tree, u)
      OBVIOUS
    <3>2. QED BY <1>1, <2>1, <2>2, <2>3, <3>1, CloseLands DEF Fit
  <2> HIDE DEF u
  <2>6. In(app'.list, app'.current) = In(u.list, u.current)
        /\ (Landed(Tree, u) => Landed(seen.tree, u))
    BY <2>1
  <2>7. Landed(seen.tree, u) => Landed(seen.tree, app)'
    BY <2>1 DEF Landed, Slid, OnScreen, CloseLanding
  <2>8. QED BY <2>1, <2>3, <2>4, <2>5, <2>6, <2>7 DEF Landing
<1>4. ASSUME Next, \A id \in Ids : ~CloseSession(id) PROVE FALSE
  <2>1. \A s : ~(Op(s, FALSE)) BY DEF Op
  <2>2. \A s : ~Only(s) BY <2>1 DEF Only
  <2>3. ~Reconcile BY DEF Reconcile
  <2>4. \A w \in Workspaces, show \in BOOLEAN : ~OpenShell(w, show) BY <2>2 DEF OpenShell
  <2>5. \A w \in Workspaces : ~ActivateWorkspace(w) BY <2>2 DEF ActivateWorkspace
  <2>6. \A id \in Ids : ~ActivateSession(id) /\ ~SpawnFails(id)
    BY <2>2 DEF ActivateSession, SpawnFails
  <2>7. \A id \in Ids, w \in Workspaces : ~DropSession(id, w) /\ ~MoveSession(id, w)
    BY <2>2 DEF DropSession, MoveSession
  <2>8. \A delta \in {-1, 1} : ~StepSession(delta) BY <2>1 DEF StepSession
  <2>9. \A row \in ToSet(Shown(Tree)) : ~MoveCursor(row) BY <2>2 DEF MoveCursor
  <2>10. ~ToggleTab /\ ~DeleteWorktree /\ ~FeatureChanges /\ ~ToggleExpanded
    BY <2>1, <2>2 DEF ToggleTab, DeleteWorktree, FeatureChanges, ToggleExpanded
  <2>11. QED BY <1>4, <2>3, <2>4, <2>5, <2>6, <2>7, <2>8, <2>9, <2>10 DEF Next
<1>5. QED BY <1>2, <1>3, <1>4

(* What cursor and terminal were both at was closed, under "follow", and   *)
(* others are left: the pass keeps the terminal where the close put it,    *)
(* and has the cursor there (close_landing, slide).                        *)
THEOREM CursorLandsWithTerminal == Spec => LandsTogether
<1>1. Init => Landing BY DEF Init, Landing
<1>2. Spec => []Landing BY <1>1, Inductive, NextLanding, PTL DEF Spec
<1>3. IInv /\ Landing /\ [Next]_vars
        => [seen' # seen /\ ui.follow /\ agreed /\ In(app.list, app.current) # <<>> =>
              /\ app'.current = app.current /\ OnScreen(app') = OnScreen(app)
              /\ Agrees(app')]_vars
  <2>1. SUFFICES ASSUME IInv, Landing, Next, seen' # seen, ui.follow, agreed,
                        In(app.list, app.current) # <<>>
                 PROVE  /\ app'.current = app.current /\ OnScreen(app') = OnScreen(app)
                        /\ Agrees(app')
    OBVIOUS
  <2>2. Fit /\ TypeOK BY <2>1 DEF IInv, Fit, TypeOK, App
  <2>3. CASE Reconcile BY <2>1, <2>2, <2>3, ReconcileLands
  <2>4. CASE ~Reconcile
    <3>1. \A s : Only(s) => seen' = seen BY DEF Only
    <3>2. seen' = seen
      BY <2>1, <2>4, <3>1 DEF Next, OpenShell, ActivateWorkspace, ActivateSession, SpawnFails,
           DropSession, MoveSession, MoveCursor, ToggleTab, CloseSession, StepSession, DeleteWorktree,
           FeatureChanges, ToggleExpanded
    <3>3. QED BY <2>1, <3>2
  <2>5. QED BY <2>3, <2>4
<1>4. QED BY <1>2, <1>3, Inductive, PTL DEF Spec, LandsTogether
=============================================================================
