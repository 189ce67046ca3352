-------------------------- MODULE WriterQueue_proofs --------------------------
(***************************************************************************)
(* How the queue of the writer slot moves: in order, never past a merge    *)
(* for a gate, and never losing a stored recipe.                           *)
(***************************************************************************)
EXTENDS WriterSlot_proofs

-------------------------------------------------------------------------------
(* The order of a queue.                                                    *)

\* a waits ahead of b.
Before(q, a, b) == \E i, j \in DOMAIN q : i < j /\ q[i].sub = a /\ q[j].sub = b

\* The entries of p stand in q, in the same order.
InOrder(p, q) == \A a, b : Before(p, a, b) => Before(q, a, b)

\* The queue q hands the table on as t, when those in `gone` leave it: who is neither
\* kept nor started is passed because it is not live, and a new holder was ahead of all
\* that still wait and is no gate that has to.
HandsOn(t, h, q, gone, live, merge) ==
  /\ Launches(q) \ gone \subseteq Launches(t.queue) \cup Launches(t.start) \cup Launches(t.passed)
  /\ Queued(t.start) \subseteq live /\ Launches(t.passed) \cap live = {}
  /\ t.holder \notin {h, None} =>
       /\ ~(t.holder \in Gates /\ merge)
       /\ \A u \in Queued(t.queue) : Before(q, t.holder, u)

\* A queue that is cut in two parts, or around one entry, loses no launch.
LEMMA CutInTwo ==
  ASSUME NEW q \in Seq(Entries), NEW at \in 1..Len(q)
  PROVE  /\ Launches(q) \subseteq Launches(SubSeq(q, 1, at - 1)) \cup Launches(SubSeq(q, at, Len(q)))
         /\ Launches(q) \subseteq Launches(SubSeq(q, 1, at - 1)) \cup Launches(<<q[at]>>)
                                  \cup Launches(SubSeq(q, at + 1, Len(q)))
<1> DEFINE left == SubSeq(q, 1, at - 1)
           right == SubSeq(q, at, Len(q))
           rest == SubSeq(q, at + 1, Len(q))
<1>0. Len(q) \in Nat /\ at \in Nat /\ \A i \in 1..Len(q) : q[i] \in Entries
  OBVIOUS
<1>1. left \in Seq(Entries) /\ Len(left) = at - 1 /\ \A i \in 1..(at - 1) : left[i] = q[i]
  BY <1>0
<1>2. Len(right) = Len(q) - at + 1 /\ \A i \in 1..(Len(q) - at + 1) : right[i] = q[at + i - 1]
  BY <1>0
<1>3. rest \in Seq(Entries) /\ Len(rest) = Len(q) - at
  <2>1. at + 1 \in Int /\ Len(q) \in Int /\ \A i \in (at + 1)..Len(q) : q[i] \in Entries
    BY <1>0
  <2>2. /\ rest \in Seq(Entries)
        /\ Len(rest) = IF at + 1 <= Len(q) THEN Len(q) - (at + 1) + 1 ELSE 0
    BY <2>1, SubSeqProperties
  <2> QED BY <1>0, <2>2
<1>4. \A i \in 1..(Len(q) - at) : rest[i] = q[at + i]
  BY <1>0, <1>3
<1>5. DOMAIN left = 1..(at - 1) /\ DOMAIN right = 1..(Len(q) - at + 1) /\ DOMAIN rest = 1..(Len(q) - at)
  BY <1>0, <1>1, <1>2, <1>3
<1> HIDE DEF left, right, rest
<1>6. ASSUME NEW i \in DOMAIN q, q[i].kind = "Launch"
      PROVE  q[i].sub \in Launches(left) \cup Launches(right)
  <2>1. CASE i < at
    <3>1. i \in DOMAIN left /\ left[i] = q[i]
      BY <2>1, <1>0, <1>1, <1>5
    <3> QED BY <3>1, <1>6 DEF Launches
  <2>2. CASE ~(i < at)
    <3>1. i - at + 1 \in DOMAIN right /\ right[i - at + 1] = q[i]
      BY <2>2, <1>0, <1>2, <1>5
    <3> QED BY <3>1, <1>6 DEF Launches
  <2> QED BY <2>1, <2>2
<1>7. ASSUME NEW i \in DOMAIN q, q[i].kind = "Launch"
      PROVE  q[i].sub \in Launches(left) \cup Launches(<<q[at]>>) \cup Launches(rest)
  <2>1. CASE i < at
    <3>1. i \in DOMAIN left /\ left[i] = q[i]
      BY <2>1, <1>0, <1>1, <1>5
    <3> QED BY <3>1, <1>7 DEF Launches
  <2>2. CASE i > at
    <3>1. i - at \in DOMAIN rest /\ rest[i - at] = q[i]
      BY <2>2, <1>0, <1>4, <1>5
    <3> QED BY <3>1, <1>7 DEF Launches
  <2>3. CASE i = at
    <3>1. 1 \in DOMAIN <<q[at]>> /\ <<q[at]>>[1] = q[i]
      BY <2>3
    <3> QED BY <3>1, <1>7 DEF Launches
  <2> QED BY <2>1, <2>2, <2>3, <1>0
<1>8. \A u \in Launches(q) : \E i \in DOMAIN q : q[i].kind = "Launch" /\ q[i].sub = u
  BY DEF Launches
<1> QED BY <1>6, <1>7, <1>8 DEF left, right, rest

\* What is ahead of the entry a queue stops at is passed, and none of it is live.
LEMMA PassedAreDead ==
  ASSUME NEW q \in Seq(Entries), NEW live, NEW merge
  PROVE  /\ Stops(q, live, merge) = {} => Launches(q) \cap live = {}
         /\ Stops(q, live, merge) # {} =>
              Launches(SubSeq(q, 1, HeadOf(q, live, merge) - 1)) \cap live = {}
<1>1. ASSUME Stops(q, live, merge) = {} PROVE Launches(q) \cap live = {}
  BY <1>1 DEF Stops, Launches
<1>2. ASSUME Stops(q, live, merge) # {}
      PROVE  Launches(SubSeq(q, 1, HeadOf(q, live, merge) - 1)) \cap live = {}
  <2> DEFINE at == HeadOf(q, live, merge)
             left == SubSeq(q, 1, at - 1)
  <2>1. at \in 1..Len(q) /\ \A j \in Stops(q, live, merge) : at <= j
    BY <1>2, HeadIsThere
  <2> HIDE DEF at
  <2>2. Len(q) \in Nat
    OBVIOUS
  <2>3. DOMAIN left = 1..(at - 1) /\ \A i \in 1..(at - 1) : left[i] = q[i]
    BY <2>1, <2>2
  <2>4. ASSUME NEW i \in 1..(at - 1) PROVE q[i].sub \notin live
    <3>1. i \in DOMAIN q /\ ~(at <= i)
      BY <2>1, <2>2
    <3> QED BY <3>1, <2>1 DEF Stops
  <2>5. \A i \in DOMAIN left : left[i].sub \notin live
    BY <2>3, <2>4
  <2> QED BY <2>5 DEF Launches, at
<1> QED BY <1>1, <1>2

\* The entry a queue stops at is ahead of everything behind it.
LEMMA HeadIsAhead ==
  ASSUME NEW q \in Seq(Entries), NEW at \in 1..Len(q),
         NEW u \in Queued(SubSeq(q, at + 1, Len(q)))
  PROVE  Before(q, q[at].sub, u)
<1> DEFINE rest == SubSeq(q, at + 1, Len(q))
<1>0. Len(q) \in Nat /\ at \in Nat /\ \A i \in 1..Len(q) : q[i] \in Entries
  OBVIOUS
<1>1. rest \in Seq(Entries) /\ Len(rest) = Len(q) - at
  <2>1. at + 1 \in Int /\ Len(q) \in Int /\ \A i \in (at + 1)..Len(q) : q[i] \in Entries
    BY <1>0
  <2>2. /\ rest \in Seq(Entries)
        /\ Len(rest) = IF at + 1 <= Len(q) THEN Len(q) - (at + 1) + 1 ELSE 0
    BY <2>1, SubSeqProperties
  <2> QED BY <1>0, <2>2
<1>2. \A i \in 1..(Len(q) - at) : rest[i] = q[at + i]
  BY <1>0, <1>1
<1> HIDE DEF rest
<1>3. PICK i \in DOMAIN rest : rest[i].sub = u
  BY DEF Queued, rest
<1>4. at + i \in DOMAIN q /\ at \in DOMAIN q /\ at < at + i /\ q[at + i].sub = u
  BY <1>0, <1>1, <1>2, <1>3
<1> QED BY <1>4 DEF Before

\* advance_locked hands the table on.
LEMMA AdvanceHandsOn ==
  ASSUME NEW h, NEW q, Sane(h, q), NEW live, NEW merge
  PROVE  HandsOn(Advance(h, q, live, merge), h, q, {}, live, merge)
<1> DEFINE at == HeadOf(q, live, merge)
           t  == Advance(h, q, live, merge)
<1>0. q \in Seq(Entries) /\ Heal(h, live) \in {h, None}
      /\ Queued(<<>>) = {} /\ Launches(<<>>) = {}
  BY DEF Sane, Heal, Queued, Launches
<1>1. CASE Heal(h, live) # None
  <2>1. t = Table(Heal(h, live), q, <<>>, <<>>)
    BY <1>1 DEF Advance
  <2> QED BY <2>1, <1>0 DEF HandsOn, Table
<1>2. CASE Heal(h, live) = None /\ Stops(q, live, merge) = {}
  <2>1. t = Table(None, <<>>, q, <<>>)
    BY <1>2 DEF Advance
  <2> QED BY <2>1, <1>0, <1>2, PassedAreDead DEF HandsOn, Table
<1>3. CASE Heal(h, live) = None /\ Stops(q, live, merge) # {} /\ Waits(q[at], merge)
  <2>1. t = Table(None, SubSeq(q, at, Len(q)), SubSeq(q, 1, at - 1), <<>>)
    BY <1>3 DEF Advance
  <2>2. at \in 1..Len(q)
    BY <1>0, <1>3, HeadIsThere
  <2>3. Launches(q) \subseteq Launches(SubSeq(q, 1, at - 1)) \cup Launches(SubSeq(q, at, Len(q)))
    <3> HIDE DEF at
    <3> QED BY <1>0, <2>2, CutInTwo
  <2>4. Launches(SubSeq(q, 1, at - 1)) \cap live = {}
    BY <1>0, <1>3, PassedAreDead
  <2> HIDE DEF at
  <2> QED BY <2>1, <2>3, <2>4, <1>0 DEF HandsOn, Table
<1>4. CASE Heal(h, live) = None /\ Stops(q, live, merge) # {} /\ ~Waits(q[at], merge)
  <2>1. t = Table(q[at].sub, SubSeq(q, at + 1, Len(q)), SubSeq(q, 1, at - 1), <<q[at]>>)
    BY <1>4 DEF Advance
  <2>2. at \in 1..Len(q) /\ at \in Stops(q, live, merge)
    BY <1>0, <1>4, HeadIsThere
  <2>3. q[at].sub \in live /\ ~(q[at].sub \in Gates /\ merge)
    BY <1>4, <2>2 DEF Stops, Waits
  <2>4. Launches(SubSeq(q, 1, at - 1)) \cap live = {}
    BY <1>0, <1>4, PassedAreDead
  <2> HIDE DEF at
  <2>5. Launches(q) \subseteq Launches(SubSeq(q, 1, at - 1)) \cup Launches(<<q[at]>>)
                              \cup Launches(SubSeq(q, at + 1, Len(q)))
    BY <1>0, <2>2, CutInTwo
  <2>6. \A u \in Queued(SubSeq(q, at + 1, Len(q))) : Before(q, q[at].sub, u)
    BY <1>0, <2>2, HeadIsAhead
  <2>7. Queued(<<q[at]>>) = {q[at].sub}
    BY DEF Queued
  <2>8. /\ t.holder = q[at].sub /\ t.queue = SubSeq(q, at + 1, Len(q))
        /\ t.passed = SubSeq(q, 1, at - 1) /\ t.start = <<q[at]>>
    <3> DEFINE a == q[at].sub
               rest == SubSeq(q, at + 1, Len(q))
               left == SubSeq(q, 1, at - 1)
               one == <<q[at]>>
    <3>1. t = Table(a, rest, left, one)
      BY <2>1
    <3> HIDE DEF t, a, rest, left, one
    <3>2. t.holder = a /\ t.queue = rest /\ t.passed = left /\ t.start = one
      BY <3>1 DEF Table
    <3> QED BY <3>2 DEF a, rest, left, one
  <2> HIDE DEF t
  <2>9. HandsOn(t, h, q, {}, live, merge)
    BY <2>3, <2>4, <2>5, <2>6, <2>7, <2>8, Zenon DEF HandsOn
  <2> QED BY <2>9 DEF t
<1> QED BY <1>1, <1>2, <1>3, <1>4

\* Order within a queue is order within what it was made of.
LEMMA HandsOnFrom ==
  ASSUME NEW t, NEW h, NEW p, NEW q, NEW gone, NEW live, NEW merge,
         HandsOn(t, h, p, {}, live, merge), InOrder(p, q),
         Launches(q) \ gone \subseteq Launches(p)
  PROVE  HandsOn(t, h, q, gone, live, merge)
BY Zenon DEF HandsOn, InOrder

\* Taking a sub out keeps the order, and every other launch.
LEMMA WithoutKeepsOrder ==
  ASSUME NEW q \in Seq(Entries), NEW s
  PROVE  InOrder(Without(q, s), q) /\ Launches(q) \ {s} \subseteq Launches(Without(q, s))
<1>1. CASE s \notin Queued(q)
  BY <1>1 DEF Without, InOrder
<1>2. CASE s \in Queued(q)
  <2> DEFINE p == Without(q, s)
  <2>1. PICK at \in DOMAIN q :
          /\ q[at].sub = s /\ p \in Seq(Entries) /\ Len(p) = Len(q) - 1
          /\ \A i \in 1..(Len(q) - 1) : p[i] = q[IF i < at THEN i ELSE i + 1]
    BY <1>2, WithoutPlaces
  <2> HIDE DEF p
  <2>2. DOMAIN p = 1..(Len(q) - 1) /\ DOMAIN q = 1..Len(q) /\ Len(q) \in Nat
    BY <2>1
  <2>3. ASSUME NEW a, NEW b, Before(p, a, b) PROVE Before(q, a, b)
    <3>1. PICK i, j \in DOMAIN p : i < j /\ p[i].sub = a /\ p[j].sub = b
      BY <2>3 DEF Before
    <3> DEFINE m == IF i < at THEN i ELSE i + 1
               n == IF j < at THEN j ELSE j + 1
    <3>2. m \in DOMAIN q /\ n \in DOMAIN q /\ m < n
      BY <3>1, <2>2
    <3>3. p[i] = q[m] /\ p[j] = q[n]
      BY <2>1, <2>2
    <3> HIDE DEF m, n
    <3> QED BY <3>1, <3>2, <3>3 DEF Before
  <2>4. ASSUME NEW k \in DOMAIN q, q[k].kind = "Launch", q[k].sub # s
        PROVE  q[k].sub \in Launches(p)
    <3> DEFINE i == IF k < at THEN k ELSE k - 1
    <3>1. i \in DOMAIN p /\ k = (IF i < at THEN i ELSE i + 1)
      BY <2>1, <2>2, <2>4
    <3>2. p[i] = q[k]
      BY <2>1, <2>2, <3>1
    <3> HIDE DEF i
    <3> QED BY <3>1, <3>2, <2>4 DEF Launches
  <2>5. \A u \in Launches(q) : \E k \in DOMAIN q : q[k].kind = "Launch" /\ q[k].sub = u
    BY DEF Launches
  <2> QED BY <2>3, <2>4, <2>5 DEF InOrder, p
<1> QED BY <1>1, <1>2

\* leave hands the table on, without the one who leaves.
LEMMA LeaveHandsOn ==
  ASSUME Sane(holder, queue), NEW s, NEW live, NEW merge
  PROVE  /\ HandsOn(Leave(s, live, merge), holder, queue, {s}, live, merge)
         /\ HandsOn(Unmoved, holder, queue, {s}, live, merge)
<1> DEFINE h == IF holder = s THEN None ELSE holder
           q == Without(queue, s)
<1>1. HandsOn(Unmoved, holder, queue, {s}, live, merge)
  BY DEF HandsOn, Unmoved, Table, Queued, Launches
<1>2. Sane(h, q) /\ InOrder(q, queue) /\ Launches(queue) \ {s} \subseteq Launches(q)
  <2>1. Sane(holder, q)
    BY WithoutIsSane
  <2>2. None \notin Queued(q)
    BY <2>1, QueuedAreSubs, SlotConstants DEF Sane
  <2>3. InOrder(q, queue) /\ Launches(queue) \ {s} \subseteq Launches(q)
    BY WithoutKeepsOrder DEF Sane
  <2> QED BY <2>1, <2>2, <2>3 DEF Sane
<1> HIDE DEF q
<1>3. HandsOn(Advance(h, q, live, merge), h, q, {}, live, merge)
  BY <1>2, AdvanceHandsOn
<1> HIDE DEF h
<1>4. HandsOn(Advance(h, q, live, merge), h, queue, {s}, live, merge)
  BY <1>2, <1>3, HandsOnFrom
<1>5. HandsOn(Advance(h, q, live, merge), holder, queue, {s}, live, merge)
  BY <1>4 DEF HandsOn, h
<1> QED BY <1>1, <1>5 DEF Leave, h, q

\* An injection into a finite set of its own size misses nothing.
LEMMA Covers ==
  ASSUME NEW S, IsFiniteSet(S), NEW f \in [1..Cardinality(S) -> S],
         \A i, j \in 1..Cardinality(S) : f[i] = f[j] => i = j
  PROVE  \A x \in S : \E i \in 1..Cardinality(S) : f[i] = x
<1> DEFINE c == Cardinality(S)
<1>1. c \in Nat
  BY FS_CardinalityType
<1>2. IsFiniteSet(1..c) /\ Cardinality(1..c) = c
  BY <1>1, FS_Interval
<1>3. f \in Injection(1..c, S)
  BY DEF Injection, IsInjective
<1>4. f \in Surjection(1..c, S)
  BY <1>2, <1>3, FS_Injection
<1> QED BY <1>4 DEF Surjection

\* The live entries of a queue, picked out in their order.
LEMMA PickedKeepsOrder ==
  ASSUME NEW h, NEW q, Sane(h, q), NEW live, NEW places \in SUBSET DOMAIN q,
         \A i \in DOMAIN q : q[i].sub \in live => i \in places,
         NEW f \in Enumerations(places)
  PROVE  LET p == [n \in DOMAIN f |-> q[f[n]]]
         IN InOrder(p, q) /\ Launches(q) \cap live \subseteq Launches(p)
<1> DEFINE p == [n \in DOMAIN f |-> q[f[n]]]
           c == Cardinality(places)
<1>1. IsFiniteSet(places) /\ c \in Nat /\ places \subseteq Nat
  <2>1. IsFiniteSet(1..Len(q)) /\ DOMAIN q = 1..Len(q) /\ Len(q) \in Nat
    BY FS_Interval DEF Sane
  <2>2. IsFiniteSet(places)
    BY <2>1, FS_Subset
  <2> QED BY <2>1, <2>2, FS_CardinalityType
<1>2. /\ f \in [1..c -> places] /\ DOMAIN f = 1..c
      /\ \A m, n \in 1..c : m < n => f[m] < f[n]
  BY DEF Enumerations
<1>3. \A x \in places : \E i \in 1..c : f[i] = x
  <2>1. ASSUME NEW i \in 1..c, NEW j \in 1..c, f[i] = f[j] PROVE i = j
    <3>1. i \in Nat /\ j \in Nat /\ f[i] \in Nat /\ f[j] \in Nat
      BY <1>1, <1>2
    <3>2. ~(f[i] < f[j]) /\ ~(f[j] < f[i])
      BY <2>1, <3>1
    <3> QED BY <1>2, <3>1, <3>2
  <2> QED BY <2>1, <1>1, <1>2, Covers
<1> HIDE DEF c
<1>4. DOMAIN p = 1..c /\ \A n \in 1..c : p[n] = q[f[n]]
  BY <1>2
<1> HIDE DEF p
<1>5. ASSUME NEW a, NEW b, Before(p, a, b) PROVE Before(q, a, b)
  <2>1. PICK i, j \in DOMAIN p : i < j /\ p[i].sub = a /\ p[j].sub = b
    BY <1>5 DEF Before
  <2>2. f[i] \in DOMAIN q /\ f[j] \in DOMAIN q /\ f[i] < f[j]
    BY <2>1, <1>2, <1>4
  <2> QED BY <2>1, <2>2, <1>4 DEF Before
<1>6. ASSUME NEW k \in DOMAIN q, q[k].kind = "Launch", q[k].sub \in live
      PROVE  q[k].sub \in Launches(p)
  <2>1. PICK i \in 1..c : f[i] = k
    BY <1>3, <1>6
  <2>2. i \in DOMAIN p /\ p[i] = q[k]
    BY <2>1, <1>4
  <2> QED BY <2>2, <1>6 DEF Launches
<1>7. \A u \in Launches(q) : \E k \in DOMAIN q : q[k].kind = "Launch" /\ q[k].sub = u
  BY DEF Launches
<1> QED BY <1>5, <1>6, <1>7 DEF InOrder, p

-------------------------------------------------------------------------------
(* What a step that lets go does to the table, to held.json and to the rest.*)

\* Those in S leave the table, which is handed on; recipes go only with a launch that
\* is passed, and a spawn_chat call that has not written its recipe yet is named.
LetsGo(S, live, merge) ==
  \E t, R, G :
    /\ HandsOn(t, holder, queue, S, live, merge) /\ Settle(t, R, G)
    /\ R \subseteq held \cup S /\ G \subseteq S
    /\ \A u \in Subs \ S :
         /\ excused[u] \subseteq excused'[u]
         /\ u \in Dropped(t) \cap Launches(queue) => "dropped" \in excused'[u]

\* Naming a race names it, and keeps those that were named.
LEMMA ExcuseNames ==
  ASSUME excused \in [Subs -> SUBSET Races], NEW S
  PROVE  \A u \in Subs : /\ excused[u] \subseteq Excuse(S, "dropped")[u]
                         /\ u \in S => "dropped" \in Excuse(S, "dropped")[u]
BY DEF Excuse

LEMMA ReleaseLetsGo ==
  ASSUME Sane(holder, queue), excused \in [Subs -> SUBSET Races], NEW s, NEW live,
         Release(s, live)
  PROVE  LetsGo({s}, live, merging) /\ held' \subseteq held
<1> DEFINE t == Leave(s, live, merging)
           R == held \ ({s} \cap Launches(queue))
<1>1. HandsOn(t, holder, queue, {s}, live, merging)
  BY LeaveHandsOn
<1>2. Settle(t, R, {}) /\ excused' = Excuse(Dropped(t), "dropped")
  BY DEF Release
<1> HIDE DEF t
<1>3. R \subseteq held \cup {s} /\ held' \subseteq held
  BY <1>2 DEF Settle
<1>4. \A u \in Subs \ {s} :
        /\ excused[u] \subseteq excused'[u]
        /\ u \in Dropped(t) \cap Launches(queue) => "dropped" \in excused'[u]
  BY <1>2, ExcuseNames
<1> HIDE DEF R
<1> QED BY <1>1, <1>2, <1>3, <1>4 DEF LetsGo

LEMMA SweepLetsGo ==
  ASSUME Sane(holder, queue), excused \in [Subs -> SUBSET Races], NEW merge, Sweep(merge)
  PROVE  \/ UNCHANGED <<holder, queue, due, held, nudge, excused>>
         \/ /\ LetsGo(Launches(queue) \ Live, Live, merge) /\ held' \subseteq held
            /\ \A u \in Launches(queue) \ Live :
                 call[u] = "queued" => "dropped" \in excused'[u]
<1> DEFINE stale == Launches(queue) \ Live
           places == {i \in DOMAIN queue : queue[i].sub \in Live}
           recipes == held \ stale
<1>1. CASE ~UNCHANGED <<holder, queue, due, held, nudge, excused>>
  <2>1. PICK f \in Enumerations(places) :
          /\ Settle(Advance(holder, [n \in DOMAIN f |-> queue[f[n]]], Live, merge), recipes, {})
          /\ excused' = Excuse({s \in stale : call[s] = "queued"}, "dropped")
    BY <1>1, Zenon DEF Sweep
  <2> DEFINE p == [n \in DOMAIN f |-> queue[f[n]]]
             t == Advance(holder, p, Live, merge)
  <2>2. Sane(holder, p)
    BY PickedIsSane, places \in SUBSET DOMAIN queue
  <2>3. InOrder(p, queue) /\ Launches(queue) \cap Live \subseteq Launches(p)
    <3>1. places \in SUBSET DOMAIN queue /\ \A i \in DOMAIN queue : queue[i].sub \in Live => i \in places
      OBVIOUS
    <3> HIDE DEF places
    <3> QED BY <3>1, PickedKeepsOrder
  <2>4. Settle(t, recipes, {})
    BY <2>1
  <2> HIDE DEF p
  <2>5. HandsOn(t, holder, p, {}, Live, merge)
    BY <2>2, AdvanceHandsOn
  <2> HIDE DEF t
  <2>6. HandsOn(t, holder, queue, stale, Live, merge)
    <3>1. Launches(queue) \ stale \subseteq Launches(p)
      BY <2>3
    <3> HIDE DEF stale
    <3> QED BY <2>3, <2>5, <3>1, HandsOnFrom
  <2>7. stale \subseteq Subs
    BY QueuedAreSubs DEF Sane
  <2>8. /\ \A u \in Subs : excused[u] \subseteq excused'[u]
        /\ \A u \in stale : call[u] = "queued" => "dropped" \in excused'[u]
    BY <2>1, <2>7, ExcuseNames
  <2>9. recipes \subseteq held \cup stale /\ held' \subseteq held
    BY <2>4 DEF Settle
  <2>10. \A u \in Subs \ stale : u \in Dropped(t) \cap Launches(queue) => "dropped" \in excused'[u]
    BY <2>5 DEF HandsOn, Dropped
  <2> HIDE DEF stale, recipes
  <2>11. LetsGo(stale, Live, merge)
    BY <2>4, <2>6, <2>8, <2>9, <2>10 DEF LetsGo
  <2> QED BY <2>8, <2>9, <2>11 DEF stale
<1> QED BY <1>1

-------------------------------------------------------------------------------
(* No stored recipe is lost.                                                *)

Reach(s) == OnItsWay(s) \/ "dropped" \in excused[s]

\* A recipe that is, or is about to be, stored for a sub that still runs.
Unstored(s) ==
  call[s] = "queued" \/ (call[s] = "hold" /\ s \in Live) \/ s \in held \cap Live

\* It is on its way from the moment spawn_chat queues the sub; until register_queued
\* the sub has no row, so the slot does not reach it.
RecipeOf(s) ==
  /\ Unstored(s) => Reach(s)
  /\ call[s] \in {"new", "claimed", "queued"} => row[s] = "none"
  /\ s \in due => call[s] # "queued"

RecipeInv == \A s \in Subs : RecipeOf(s)

\* A step that lets those in S go leaves every other recipe on its way.
LEMMA OthersStay ==
  ASSUME RecipeInv, LifeFlags, NEW S, NEW live, NEW merge, LetsGo(S, live, merge), live \ S \subseteq Live,
         \A u \in Subs \ S : /\ call'[u] = call[u] /\ row'[u] = row[u]
                             /\ launch'[u] = launch[u] /\ card'[u] = card[u]
                             /\ u \in finished => u \in finished'
  PROVE  \A u \in Subs \ S : RecipeOf(u)'
<1>1. PICK t, R, G :
        /\ HandsOn(t, holder, queue, S, live, merge) /\ Settle(t, R, G)
        /\ R \subseteq held \cup S /\ G \subseteq S
        /\ \A u \in Subs \ S :
             /\ excused[u] \subseteq excused'[u]
             /\ u \in Dropped(t) \cap Launches(queue) => "dropped" \in excused'[u]
  BY DEF LetsGo
<1>2. /\ Launches(queue) \ S \subseteq Launches(queue') \cup Launches(t.start) \cup Launches(t.passed)
      /\ Launches(t.start) \subseteq due' /\ due \ S \subseteq due'
      /\ held' \subseteq (held \cup S) \ Launches(t.passed)
      /\ due' \subseteq due \cup Launches(t.start)
  BY <1>1 DEF HandsOn, Settle
<1>3. Launches(t.start) \subseteq live
  <2>1. Launches(t.start) \subseteq Queued(t.start)
    BY DEF Launches, Queued
  <2> QED BY <1>1, <2>1 DEF HandsOn
<1>4. ASSUME NEW u \in Subs \ S PROVE RecipeOf(u)'
  <2>1. RecipeOf(u) /\ u \in Subs
    BY DEF RecipeInv
  <2>2. u \in Live' => u \in Live
    BY DEF Live, Alive
  <2>3. Unstored(u)' => Reach(u)'
    <3> SUFFICES ASSUME Unstored(u)' PROVE Reach(u)'
      OBVIOUS
    <3>1. Unstored(u)
      BY <1>2, <2>2 DEF Unstored
    <3>2. Reach(u)
      BY <2>1, <3>1 DEF RecipeOf
    <3>3. CASE u \in Launches(queue) /\ u \in Launches(t.passed)
      <4>1. call[u] \in {"queued", "hold"}
        BY <1>2, <3>3 DEF Unstored
      <4> QED BY <1>1, <3>3, <4>1 DEF Reach, Dropped
    <3>4. CASE u \in Launches(queue) /\ u \notin Launches(t.passed)
      BY <1>2, <3>4 DEF Reach, OnItsWay
    <3>5. CASE u \notin Launches(queue)
      BY <1>1, <1>2, <3>2, <3>5 DEF Reach, OnItsWay
    <3> QED BY <3>3, <3>4, <3>5
  <2>4. call'[u] \in {"new", "claimed", "queued"} => row'[u] = "none"
    BY <2>1 DEF RecipeOf
  <2>5. u \in due' => call'[u] # "queued"
    BY <1>2, <1>3, <2>1 DEF RecipeOf, Live, Alive
  <2> QED BY <2>3, <2>4, <2>5 DEF RecipeOf
<1> QED BY <1>4

\* What a queue that grows by one entry has in it.
LEMMA AppendKeeps ==
  ASSUME NEW q \in Seq(Entries), NEW e \in Entries
  PROVE  /\ Launches(q) \subseteq Launches(Append(q, e))
         /\ e.kind = "Launch" => e.sub \in Launches(Append(q, e))
<1> DEFINE p == Append(q, e)
<1>1. /\ Len(q) \in Nat /\ Len(p) = Len(q) + 1 /\ p[Len(q) + 1] = e
      /\ \A i \in 1..Len(q) : p[i] = q[i]
  OBVIOUS
<1>2. DOMAIN p = 1..(Len(q) + 1) /\ DOMAIN q = 1..Len(q)
  OBVIOUS
<1> HIDE DEF p
<1>3. \A i \in DOMAIN q : i \in DOMAIN p /\ p[i] = q[i]
  BY <1>1, <1>2
<1>4. Len(q) + 1 \in DOMAIN p /\ p[Len(q) + 1] = e
  BY <1>1, <1>2
<1>5. Launches(q) \subseteq Launches(p)
  BY <1>3 DEF Launches
<1>6. e.kind = "Launch" => e.sub \in Launches(p)
  BY <1>4 DEF Launches
<1> QED BY <1>5, <1>6 DEF p

LEMMA RequestsKeepLaunches ==
  ASSUME Sane(holder, queue), NEW s \in Subs, Requests(s)
  PROVE  Launches(queue) \subseteq Launches(queue')
<1>1. CASE queue' = queue
  BY <1>1
<1>2. CASE queue' = Append(queue, Entry(s, "Wake"))
  <2>1. Entry(s, "Wake") \in Entries
    BY DEF Entry, Entries
  <2> QED BY <1>2, <2>1, AppendKeeps DEF Sane
<1> QED BY <1>1, <1>2 DEF Requests

\* A restart queues or starts every recipe of a live sub.
LEMMA RestartReaches ==
  ASSUME held \subseteq Subs, Restart
  PROVE  held \cap Live' \subseteq Launches(queue') \cup due'
<1> DEFINE S == held \cap Live'
           q(order) == [i \in DOMAIN order |-> Entry(order[i], "Launch")]
           t(order) == Advance(None, q(order), Live', FALSE)
<1>1. PICK order \in SetToSeqs(S) :
        /\ holder' = t(order).holder /\ queue' = t(order).queue
        /\ due' = Launches(t(order).start)
  BY Zenon DEF Restart, Live
<1>2. Sane(None, q(order))
  BY RestoredIsSane, S \in SUBSET Subs
<1>3. S \subseteq Launches(q(order))
  <2> DEFINE c == Cardinality(S)
  <2>1. IsFiniteSet(S) /\ c \in Nat
    BY FS_Subset, FS_CardinalityType, SlotConstants, S \in SUBSET Subs
  <2>2. order \in [1..c -> S] /\ \A i, j \in 1..c : order[i] = order[j] => i = j
    BY DEF SetToSeqs
  <2>3. \A u \in S : \E i \in 1..c : order[i] = u
    BY <2>1, <2>2, Covers
  <2> HIDE DEF S, c
  <2>4. DOMAIN order = 1..c
    BY <2>2
  <2>5. \A i \in DOMAIN order : q(order)[i].kind = "Launch" /\ q(order)[i].sub = order[i]
    BY DEF Entry
  <2>6. DOMAIN q(order) = DOMAIN order
    OBVIOUS
  <2> HIDE DEF q
  <2> QED BY <2>3, <2>4, <2>5, <2>6 DEF Launches
<1> HIDE DEF q
<1>4. HandsOn(t(order), None, q(order), {}, Live', FALSE)
  BY <1>2, AdvanceHandsOn
<1> HIDE DEF t
<1> QED BY <1>1, <1>3, <1>4 DEF HandsOn

\* What a failed launch leaves of s: a card while there is a recipe, or a name for
\* the spawn_chat call whose recipe is still to come.
RecipeNamed(s, recipes) ==
  /\ \A u \in Subs \ {s} : card'[u] = card[u]
  /\ s \in recipes => card'[s] # "no"
  /\ call[s] = "hold" => "dropped" \in excused'[s]

LEMMA LaunchErrorLetsGo ==
  ASSUME Sane(holder, queue), excused \in [Subs -> SUBSET Races],
         card \in [Subs -> {"no", "open", "left"}], NEW s \in Subs, NEW R,
         R \subseteq held \cup {s}, LaunchError(s, R)
  PROVE  LetsGo({s}, Live, merging) /\ held' \subseteq R /\ RecipeNamed(s, R)
<1>1. PICK t \in {Unmoved, Leave(s, Live, merging)} :
        /\ Settle(t, R, {s}) /\ card' = [card EXCEPT ![s] = IF s \in R THEN "open" ELSE @]
        /\ excused' = Excuse(Dropped(t) \cup (IF call[s] = "hold" THEN {s} ELSE {}), "dropped")
  BY DEF LaunchError
<1>2. HandsOn(t, holder, queue, {s}, Live, merging)
  BY LeaveHandsOn
<1>3. LetsGo({s}, Live, merging)
  BY <1>1, <1>2, ExcuseNames DEF LetsGo
<1>4. RecipeNamed(s, R)
  BY <1>1, ExcuseNames DEF RecipeNamed
<1> QED BY <1>1, <1>3, <1>4 DEF Settle

LEMMA RecipeStep ==
  Life /\ Placed /\ RestOK /\ Waiting /\ Editing /\ RecipeInv /\ [Next]_vars => RecipeInv'
<1> SUFFICES ASSUME Life, Placed, RestOK, Waiting, Editing, RecipeInv, [Next]_vars
             PROVE  RecipeInv'
  OBVIOUS
<1>0. /\ LifeFlags /\ StartsAreOver /\ SentIsOver /\ UpIsTaken /\ Sane(holder, queue)
      /\ due \subseteq Subs /\ LaunchesWait /\ TurnsAreReal /\ CleanIsClean
      /\ row \in [Subs -> {"none", "bare", "sub", "ended", "moved"}]
      /\ call \in [Subs -> {"new", "claimed", "bare", "send", "queued", "hold", "over"}]
      /\ launch \in [Subs -> {"no", "checked", "spawned", "up"}]
      /\ card \in [Subs -> {"no", "open", "left"}]
      /\ excused \in [Subs -> SUBSET Races] /\ held \subseteq Subs
  BY DEF Life, LifeFlags, Placed, Waiting, Editing, RestOK
<1> USE <1>0
<1>1. ASSUME NEW s \in Subs, SpawnUp(s) PROVE RecipeInv'
  BY <1>1 DEF SpawnUp, RecipeInv, RecipeOf, Unstored, Reach, OnItsWay, Live, Alive,
     StartsAreOver, UpIsTaken, rows, process, tasks, slot, history
<1>2. ASSUME NEW s \in Subs, MarkSub(s) PROVE RecipeInv'
  BY <1>2 DEF MarkSub, RecipeInv, RecipeOf, Unstored, Reach, OnItsWay, Live, Alive,
     StartsAreOver, UpIsTaken, rows, process, tasks, slot, history
<1>3. ASSUME NEW s \in Subs, SpawnSend(s) PROVE RecipeInv'
  BY <1>3 DEF SpawnSend, Begin, RecipeInv, RecipeOf, Unstored, Reach, OnItsWay, Live, Alive,
     StartsAreOver, UpIsTaken, rows, process, tasks, slot, history
<1>4. ASSUME NEW s \in Subs, Register(s) PROVE RecipeInv'
  BY <1>4 DEF Register, RecipeInv, RecipeOf, Unstored, Reach, OnItsWay, Live, Alive,
     StartsAreOver, UpIsTaken, rows, process, tasks, slot, history
<1>5. ASSUME NEW s \in Subs, StoreRecipe(s) PROVE RecipeInv'
  BY <1>5 DEF StoreRecipe, RecipeInv, RecipeOf, Unstored, Reach, OnItsWay, Live, Alive,
     StartsAreOver, UpIsTaken, rows, process, tasks, slot, history
<1>6. ASSUME NEW s \in Subs, TryAgain(s) PROVE RecipeInv'
  BY <1>6 DEF TryAgain, MayStart, RecipeInv, RecipeOf, Unstored, Reach, OnItsWay, Live, Alive,
     StartsAreOver, UpIsTaken, rows, process, tasks, slot, history
<1>7. ASSUME NEW s \in Subs, SkipCard(s) PROVE RecipeInv'
  BY <1>7 DEF SkipCard, RecipeInv, RecipeOf, Unstored, Reach, OnItsWay, Live, Alive,
     StartsAreOver, UpIsTaken, rows, process, tasks, slot, history
<1>8. ASSUME NEW s \in Subs, LaunchUp(s) \/ TakesRecipe(s) PROVE RecipeInv'
  BY <1>8 DEF LaunchUp, TakesRecipe, RecipeInv, RecipeOf, Unstored, Reach, OnItsWay, Live, Alive,
     StartsAreOver, UpIsTaken, rows, process, tasks, slot, history
<1>9. ASSUME NEW s \in Subs, LaunchSend(s) PROVE RecipeInv'
  BY <1>9 DEF LaunchSend, Begin, RecipeInv, RecipeOf, Unstored, Reach, OnItsWay, Live, Alive,
     StartsAreOver, UpIsTaken, rows, process, tasks, slot, history
<1>10. ASSUME NEW s \in Subs, EditLands(s) PROVE RecipeInv'
  BY <1>10 DEF EditLands, RecipeInv, RecipeOf, Unstored, Reach, OnItsWay, Live, Alive,
     StartsAreOver, UpIsTaken, rows, process, tasks, slot, history
<1>11. ASSUME NEW s \in Subs, Commit(s) PROVE RecipeInv'
  BY <1>11 DEF Commit, RecipeInv, RecipeOf, Unstored, Reach, OnItsWay, Live, Alive,
     StartsAreOver, UpIsTaken, rows, process, tasks, slot, history
<1>12. ASSUME NEW s \in Subs, AskJoe(s) PROVE RecipeInv'
  BY <1>12 DEF AskJoe, RecipeInv, RecipeOf, Unstored, Reach, OnItsWay, Live, Alive,
     StartsAreOver, UpIsTaken, rows, process, tasks, slot, history
<1>13. ASSUME NEW s \in Subs, AskReadsGit(s) PROVE RecipeInv'
  <2>1. \A u \in Subs : excused[u] \subseteq excused'[u]
    BY <1>13, ExcuseGrows DEF AskReadsGit, Races
  <2> QED BY <1>13, <2>1 DEF AskReadsGit, RecipeInv, RecipeOf, Unstored, Reach, OnItsWay, Live,
             Alive, rows, process, tasks, slot
<1>14. ASSUME NEW s \in Subs, RequestFinish(s) PROVE RecipeInv'
  BY <1>14 DEF RequestFinish, RecipeInv, RecipeOf, Unstored, Reach, OnItsWay, Live, Alive,
     StartsAreOver, UpIsTaken, rows, process, tasks, slot, history
<1>15. ASSUME NEW s \in Subs, ContinueUp(s) PROVE RecipeInv'
  BY <1>15 DEF ContinueUp, RecipeInv, RecipeOf, Unstored, Reach, OnItsWay, Live, Alive,
     StartsAreOver, UpIsTaken, rows, process, tasks, slot, history
<1>16. ASSUME NEW s \in Subs, ContinueFails(s) PROVE RecipeInv'
  BY <1>16 DEF ContinueFails, RecipeInv, RecipeOf, Unstored, Reach, OnItsWay, Live, Alive,
     StartsAreOver, UpIsTaken, rows, process, tasks, slot, history
<1>17. ASSUME NEW s \in Subs, Continue(s) PROVE RecipeInv'
  BY <1>17 DEF Continue, RecipeInv, RecipeOf, Unstored, Reach, OnItsWay, Live, Alive,
     StartsAreOver, UpIsTaken, rows, process, tasks, slot, history
<1>18. ASSUME NEW s \in Subs, SeesChild(s) PROVE RecipeInv'
  BY <1>18 DEF SeesChild, RecipeInv, RecipeOf, Unstored, Reach, OnItsWay, Live, Alive,
     StartsAreOver, UpIsTaken, rows, process, tasks, slot, history
<1>19. ASSUME NEW s \in Subs, Nudge(s) PROVE RecipeInv'
  BY <1>19 DEF Nudge, RecipeInv, RecipeOf, Unstored, Reach, OnItsWay, Live, Alive,
     StartsAreOver, UpIsTaken, rows, process, tasks, slot, history
<1>20. ASSUME NEW s \in Subs, NudgeAgain(s) PROVE RecipeInv'
  BY <1>20 DEF NudgeAgain, RecipeInv, RecipeOf, Unstored, Reach, OnItsWay, Live, Alive,
     StartsAreOver, UpIsTaken, rows, process, tasks, slot, history
<1>21. ASSUME NEW s \in Subs, EndRow(s) PROVE RecipeInv'
  BY <1>21 DEF EndRow, Stop, RecipeInv, RecipeOf, Unstored, Reach, OnItsWay, Live, Alive,
     StartsAreOver, UpIsTaken, rows, process, tasks, slot, history
<1>22. ASSUME MergeStarts \/ HeldSweep \/ ClaimExpires \/ UNCHANGED vars PROVE RecipeInv'
  BY <1>22 DEF MergeStarts, HeldSweep, ClaimExpires, vars, RecipeInv, RecipeOf, Unstored, Reach,
     OnItsWay, Live, Alive, rows, process, tasks, slot, history
<1>23. ASSUME NEW s \in Subs, DecideSpawn(s) PROVE RecipeInv'
  <2>1. /\ call[s] = "new" /\ row[s] = "none" /\ s \notin due
        /\ UNCHANGED <<row, finished, held, due, launch, card, excused>>
    BY <1>23 DEF DecideSpawn, RecipeInv, RecipeOf, LaunchesWait, rows, history
  <2>2. CASE queue' = queue /\ call' = [call EXCEPT ![s] = "claimed"]
    BY <2>1, <2>2 DEF RecipeInv, RecipeOf, Unstored, Reach, OnItsWay, Live, Alive
  <2>3. CASE queue' = Append(queue, Entry(s, "Launch")) /\ call' = [call EXCEPT ![s] = "queued"]
    <3>1. Entry(s, "Launch") \in Entries /\ Entry(s, "Launch").sub = s /\ Entry(s, "Launch").kind = "Launch"
      BY DEF Entry, Entries
    <3>2. Launches(queue) \subseteq Launches(queue') /\ s \in Launches(queue')
      BY <2>3, <3>1, AppendKeeps DEF Sane
    <3> QED BY <2>1, <2>3, <3>2 DEF RecipeInv, RecipeOf, Unstored, Reach, OnItsWay, Live, Alive
  <2> QED BY <1>23, <2>2, <2>3 DEF DecideSpawn
<1>24. ASSUME NEW s \in Subs, CheckWrite(s) PROVE RecipeInv'
  <2>1. Launches(queue) \subseteq Launches(queue')
    BY <1>24, RequestsKeepLaunches DEF CheckWrite
  <2>2. \A u \in Subs : "dropped" \in excused[u] => "dropped" \in excused'[u]
    BY <1>24 DEF CheckWrite, Excuse
  <2>3. UNCHANGED <<row, finished, held, due, call, launch, card>>
    BY <1>24 DEF CheckWrite, rows, tasks
  <2> QED BY <2>1, <2>2, <2>3 DEF RecipeInv, RecipeOf, Unstored, Reach, OnItsWay, Live, Alive
<1>25. ASSUME NEW s \in Subs, AskToWrite(s) PROVE RecipeInv'
  <2>1. Launches(queue) \subseteq Launches(queue')
    BY <1>25, RequestsKeepLaunches DEF AskToWrite
  <2>2. \A u \in Subs : "dropped" \in excused[u] => "dropped" \in excused'[u]
    BY <1>25 DEF AskToWrite, Excuse
  <2>3. UNCHANGED <<row, finished, held, due, call, launch, card>>
    BY <1>25 DEF AskToWrite, rows, tasks
  <2> QED BY <2>1, <2>2, <2>3 DEF RecipeInv, RecipeOf, Unstored, Reach, OnItsWay, Live, Alive
<1>26. ASSUME NEW s \in Subs, SpawnFails(s) PROVE RecipeInv'
  <2>1. LetsGo({s}, Live, merging) /\ held' \subseteq held
    BY <1>26, ReleaseLetsGo DEF SpawnFails
  <2>2. call'[s] = "over" /\ s \notin held
    BY <1>26 DEF SpawnFails, StartsAreOver
  <2>3. \A u \in Subs \ {s} : /\ call'[u] = call[u] /\ row'[u] = row[u]
                              /\ launch'[u] = launch[u] /\ card'[u] = card[u]
                              /\ u \in finished => u \in finished'
    BY <1>26 DEF SpawnFails, rows
  <2>4. Live \ {s} \subseteq Live
    BY <1>26 DEF SpawnFails, Live, Alive, rows
  <2>5. RecipeOf(s)'
    BY <2>1, <2>2 DEF RecipeOf, Unstored, Live, Alive
  <2>6. \A u \in Subs \ {s} : RecipeOf(u)'
    BY <2>1, <2>3, <2>4, OthersStay
  <2> QED BY <2>5, <2>6 DEF RecipeInv
<1>27. ASSUME NEW s \in Subs, SpawnSendFails(s) PROVE RecipeInv'
  <2>1. LetsGo({s}, Alive(row', finished), merging) /\ held' \subseteq held
    BY <1>27, ReleaseLetsGo DEF SpawnSendFails
  <2>2. call'[s] = "over" /\ s \notin held
    BY <1>27 DEF SpawnSendFails, StartsAreOver
  <2>3. \A u \in Subs \ {s} : /\ call'[u] = call[u] /\ row'[u] = row[u]
                              /\ launch'[u] = launch[u] /\ card'[u] = card[u]
                              /\ u \in finished => u \in finished'
    BY <1>27 DEF SpawnSendFails, rows
  <2>4. Alive(row', finished) \ {s} \subseteq Live
    BY <1>27 DEF SpawnSendFails, Live, Alive, rows
  <2>5. RecipeOf(s)'
    BY <2>1, <2>2 DEF RecipeOf, Unstored, Live, Alive
  <2>6. \A u \in Subs \ {s} : RecipeOf(u)'
    BY <2>1, <2>3, <2>4, OthersStay
  <2> QED BY <2>5, <2>6 DEF RecipeInv
<1>28. ASSUME NEW s \in Subs, AskReleases(s) PROVE RecipeInv'
  <2>1. LetsGo({s}, Live, merging) /\ held' \subseteq held
    BY <1>28, ReleaseLetsGo DEF AskReleases
  <2>2. call'[s] = "over" /\ s \notin held
    BY <1>28 DEF AskReleases, CleanIsClean, SentIsOver
  <2>3. \A u \in Subs \ {s} : /\ call'[u] = call[u] /\ row'[u] = row[u]
                              /\ launch'[u] = launch[u] /\ card'[u] = card[u]
                              /\ u \in finished => u \in finished'
    BY <1>28 DEF AskReleases, rows
  <2>4. Live \ {s} \subseteq Live
    BY <1>28 DEF AskReleases, Live, Alive, rows
  <2>5. RecipeOf(s)'
    BY <2>1, <2>2 DEF RecipeOf, Unstored, Live, Alive
  <2>6. \A u \in Subs \ {s} : RecipeOf(u)'
    BY <2>1, <2>3, <2>4, OthersStay
  <2> QED BY <2>5, <2>6 DEF RecipeInv
<1>29. ASSUME NEW s \in Subs, Move(s) PROVE RecipeInv'
  <2>1. LetsGo({s}, Alive(row', finished'), merging) /\ held' \subseteq held
    BY <1>29, ReleaseLetsGo DEF Move
  <2>2. call'[s] = "over" /\ row'[s] = "moved"
    BY <1>29 DEF Move, LifeFlags
  <2>3. \A u \in Subs \ {s} : /\ call'[u] = call[u] /\ row'[u] = row[u]
                              /\ launch'[u] = launch[u] /\ card'[u] = card[u]
                              /\ u \in finished => u \in finished'
    BY <1>29 DEF Move, rows
  <2>4. Alive(row', finished') \ {s} \subseteq Live
    BY <1>29 DEF Move, Live, Alive, rows
  <2>5. RecipeOf(s)'
    BY <2>1, <2>2 DEF RecipeOf, Unstored, Live, Alive
  <2>6. \A u \in Subs \ {s} : RecipeOf(u)'
    BY <2>1, <2>3, <2>4, OthersStay
  <2> QED BY <2>5, <2>6 DEF RecipeInv
<1>30. ASSUME NEW s \in Subs, RegisterFails(s) PROVE RecipeInv'
  <2> DEFINE t == Leave(s, Live, merging)
  <2>1. HandsOn(t, holder, queue, {s}, Live, merging)
    BY LeaveHandsOn
  <2>2. Settle(t, held, {}) /\ excused' = Excuse(Dropped(t), "dropped")
    BY <1>30 DEF RegisterFails
  <2> HIDE DEF t
  <2>3. LetsGo({s}, Live, merging)
    BY <2>1, <2>2, ExcuseNames DEF LetsGo
  <2>4. \A u \in Subs \ {s} : /\ call'[u] = call[u] /\ row'[u] = row[u]
                              /\ launch'[u] = launch[u] /\ card'[u] = card[u]
                              /\ u \in finished => u \in finished'
    BY <1>30 DEF RegisterFails, rows
  <2>5. \A u \in Subs \ {s} : RecipeOf(u)'
    BY <2>3, <2>4, OthersStay
  <2>6. call'[s] = "over" /\ s \notin held /\ held' \subseteq held
    BY <1>30, <2>2 DEF RegisterFails, StartsAreOver, Settle
  <2> QED BY <2>5, <2>6 DEF RecipeInv, RecipeOf, Unstored
<1>31. ASSUME NEW s \in Subs, EndSub(s) PROVE RecipeInv'
  <2> DEFINE live == Alive(row', finished)
             t == Leave(s, live, merging)
  <2>1. HandsOn(t, holder, queue, {s}, live, merging)
    BY LeaveHandsOn
  <2>2. Settle(t, held \ {s}, {}) /\ excused' = [Excuse(Dropped(t), "dropped") EXCEPT ![s] = Late(s)]
    BY <1>31 DEF EndSub
  <2>3. row' = [row EXCEPT ![s] = "ended"] /\ call[s] \notin {"new", "claimed", "queued"}
    BY <1>31 DEF EndSub, Stop, RecipeInv, RecipeOf
  <2>4. live \ {s} \subseteq Live
    BY <2>3 DEF Live, Alive
  <2> HIDE DEF t, live
  <2>5. \A u \in Subs \ {s} : excused'[u] = Excuse(Dropped(t), "dropped")[u]
    BY <2>2, ExcuseGrows DEF Races
  <2>6. LetsGo({s}, live, merging)
    BY <2>1, <2>2, <2>5, ExcuseNames DEF LetsGo
  <2>7. \A u \in Subs \ {s} : /\ call'[u] = call[u] /\ row'[u] = row[u]
                              /\ launch'[u] = launch[u] /\ card'[u] = card[u]
                              /\ u \in finished => u \in finished'
    BY <1>31, <2>3 DEF EndSub
  <2>8. \A u \in Subs \ {s} : RecipeOf(u)'
    BY <2>4, <2>6, <2>7, OthersStay
  <2>9. row'[s] = "ended" /\ call' = call
    BY <1>31, <2>3 DEF EndSub
  <2>10. RecipeOf(s)'
    BY <2>3, <2>9 DEF RecipeOf, Unstored, Live, Alive
  <2> QED BY <2>8, <2>10 DEF RecipeInv
<1>32. ASSUME NEW s \in Subs, TurnEnds(s) PROVE RecipeInv'
  <2>1. UNCHANGED <<row, call, launch, card>>
    BY <1>32 DEF TurnEnds
  <2>2. CASE Finish(s) /\ row[s] = "sub"
    <3>1. LetsGo({s}, Alive(row, finished'), merging) /\ held' \subseteq held
      BY <2>2, ReleaseLetsGo DEF Finish
    <3>2. finished' = finished \cup {s} /\ Alive(row, finished') \ {s} \subseteq Live
      BY <2>2 DEF Finish, Live, Alive
    <3>3. \A u \in Subs \ {s} : RecipeOf(u)'
      BY <2>1, <3>1, <3>2, OthersStay
    <3>4. RecipeOf(s)'
      BY <2>1, <2>2, <3>2 DEF RecipeOf, Unstored, Live, Alive, RecipeInv
    <3> QED BY <3>3, <3>4 DEF RecipeInv
  <2>4. CASE /\ UNCHANGED <<queue, due, held, finished>>
             /\ \A u \in Subs : excused[u] \subseteq excused'[u]
    BY <2>1, <2>4 DEF RecipeInv, RecipeOf, Unstored, Reach, OnItsWay, Live, Alive
  <2> QED BY <1>32, <2>2, <2>4 DEF TurnEnds
<1>33. ASSUME NEW s \in Subs, Dies(s) PROVE RecipeInv'
  <2>1. UNCHANGED <<row, call, launch, card>>
    BY <1>33 DEF Dies
  <2>2. CASE Finish(s) /\ row[s] = "sub"
    <3>1. LetsGo({s}, Alive(row, finished'), merging) /\ held' \subseteq held
      BY <2>2, ReleaseLetsGo DEF Finish
    <3>2. finished' = finished \cup {s} /\ Alive(row, finished') \ {s} \subseteq Live
      BY <2>2 DEF Finish, Live, Alive
    <3>3. \A u \in Subs \ {s} : RecipeOf(u)'
      BY <2>1, <3>1, <3>2, OthersStay
    <3>4. RecipeOf(s)'
      BY <2>1, <2>2, <3>2 DEF RecipeOf, Unstored, Live, Alive, RecipeInv
    <3> QED BY <3>3, <3>4 DEF RecipeInv
  <2>3. CASE Release(s, Live) /\ s \in turn /\ UNCHANGED finished
    <3>1. LetsGo({s}, Live, merging) /\ held' \subseteq held
      BY <2>3, ReleaseLetsGo
    <3>2. s \notin held /\ call'[s] = "over" /\ UNCHANGED row
      BY <1>33, <2>3 DEF Dies, SentIsOver, TurnsAreReal
    <3>3. \A u \in Subs \ {s} : RecipeOf(u)'
      BY <2>1, <2>3, <3>1, OthersStay
    <3>4. RecipeOf(s)'
      BY <3>1, <3>2 DEF RecipeOf, Unstored
    <3> QED BY <3>3, <3>4 DEF RecipeInv
  <2>4. CASE /\ UNCHANGED <<queue, due, held, finished>>
             /\ \A u \in Subs : excused[u] \subseteq excused'[u]
    BY <2>1, <2>4 DEF RecipeInv, RecipeOf, Unstored, Reach, OnItsWay, Live, Alive
  <2>5. \A u \in Subs : excused[u] \subseteq Excuse({s} \cap carded, "silent")[u]
    BY ExcuseGrows DEF Races
  <2> QED BY <1>33, <2>2, <2>3, <2>4, <2>5 DEF Dies
<1>34. ASSUME NEW s \in Subs, RunStart(s) PROVE RecipeInv'
  <2>1. s \in due /\ call[s] # "queued" /\ UNCHANGED <<row, finished, call>>
    BY <1>34 DEF RunStart, RecipeInv, RecipeOf, rows
  <2>2. CASE /\ UNCHANGED <<queue, held, card, excused>> /\ due' = due \ {s}
             /\ launch' \in {launch, [launch EXCEPT ![s] = "checked"]} /\ launch'[s] # "no"
    BY <2>1, <2>2 DEF RecipeInv, RecipeOf, Unstored, Reach, OnItsWay, Live, Alive
  <2>3. CASE launch[s] = "no" /\ UNCHANGED launch /\ \E R : R \subseteq held /\ LaunchError(s, R)
    <3>1. PICK R : R \subseteq held /\ LaunchError(s, R)
      BY <2>3
    <3>2. s \notin byCard
      BY <2>3 DEF Waiting
    <3>3. LetsGo({s}, Live, merging) /\ held' \subseteq R /\ RecipeNamed(s, R)
      BY <3>1, <3>2, LaunchErrorLetsGo DEF TypeOK
    <3>4. \A u \in Subs \ {s} : RecipeOf(u)'
      BY <2>1, <2>3, <3>3, OthersStay DEF RecipeNamed
    <3>5. RecipeOf(s)'
      BY <2>1, <3>3 DEF RecipeNamed, RecipeInv, RecipeOf, Unstored, Reach, OnItsWay, Live, Alive
    <3> QED BY <3>4, <3>5 DEF RecipeInv
  <2>4. \/ ~(launch[s] = "no" /\ ~MayStart(s))
        \/ \E R : R \subseteq held /\ LaunchError(s, R)
    <3>1. \/ ~(launch[s] = "no" /\ ~MayStart(s))
          \/ LaunchError(s, IF row[s] = "ended" THEN held \ {s} ELSE held)
      BY <1>34 DEF RunStart
    <3> QED BY <3>1
  <2> QED BY <1>34, <2>2, <2>3, <2>4 DEF RunStart
<1>35. ASSUME NEW s \in Subs, LaunchFails(s) PROVE RecipeInv'
  <2>1. /\ call[s] = "over" /\ UNCHANGED <<row, finished, call>>
        /\ launch' = [launch EXCEPT ![s] = "no"] /\ LaunchError(s, held)
    BY <1>35 DEF LaunchFails, StartsAreOver, rows
  <2>2. held \subseteq held \cup {s}
    OBVIOUS
  <2> DEFINE R == held
  <2> HIDE DEF R
  <2>3. LetsGo({s}, Live, merging) /\ held' \subseteq R /\ RecipeNamed(s, R)
    BY <2>1, <2>2, LaunchErrorLetsGo DEF R
  <2>4. \A u \in Subs \ {s} : RecipeOf(u)'
    BY <2>1, <2>3, OthersStay DEF RecipeNamed
  <2>5. RecipeOf(s)'
    BY <2>1, <2>3 DEF RecipeNamed, RecipeOf, Unstored, Reach, OnItsWay
  <2> QED BY <2>4, <2>5 DEF RecipeInv
<1>36. ASSUME NEW s \in Subs, LaunchSendFails(s) PROVE RecipeInv'
  <2>1. /\ call[s] = "over" /\ UNCHANGED <<row, finished, call>>
        /\ launch' = [launch EXCEPT ![s] = "no"] /\ LaunchError(s, held \cup {s})
    BY <1>36 DEF LaunchSendFails, StartsAreOver, rows
  <2>2. held \cup {s} \subseteq held \cup {s}
    OBVIOUS
  <2> DEFINE R == held \cup {s}
  <2> HIDE DEF R
  <2>3. LetsGo({s}, Live, merging) /\ held' \subseteq R /\ RecipeNamed(s, R)
    BY <2>1, <2>2, LaunchErrorLetsGo DEF R
  <2>4. \A u \in Subs \ {s} : RecipeOf(u)'
    BY <2>1, <2>3, OthersStay DEF RecipeNamed
  <2>5. RecipeOf(s)'
    BY <2>1, <2>3 DEF RecipeNamed, RecipeOf, Unstored, Reach, OnItsWay
  <2> QED BY <2>4, <2>5 DEF RecipeInv
<1>37. ASSUME SlotSweep PROVE RecipeInv'
  <2> DEFINE stale == Launches(queue) \ Live
  <2>1. UNCHANGED <<row, finished, call, launch, card>> /\ Sweep(merging)
    BY <1>37 DEF SlotSweep, rows
  <2>2. CASE UNCHANGED <<holder, queue, due, held, nudge, excused>>
    BY <2>1, <2>2 DEF RecipeInv, RecipeOf, Unstored, Reach, OnItsWay, Live, Alive
  <2>3. CASE /\ LetsGo(stale, Live, merging) /\ held' \subseteq held
             /\ \A u \in stale : call[u] = "queued" => "dropped" \in excused'[u]
    <3>1. \A u \in Subs \ stale : RecipeOf(u)'
      <4> HIDE DEF stale
      <4> QED BY <2>1, <2>3, OthersStay
    <3>2. stale \cap Live = {} /\ Live' = Live /\ due' \subseteq due \cup Live
      <4>1. \A t : Launches(t.start) \subseteq Queued(t.start)
        BY DEF Launches, Queued
      <4> QED BY <2>1, <2>3, <4>1 DEF LetsGo, HandsOn, Settle, Live
    <3>3. ASSUME NEW u \in Subs, u \in stale PROVE RecipeOf(u)'
      BY <2>1, <2>3, <3>2, <3>3 DEF RecipeOf, Unstored, Reach, RecipeInv
    <3> QED BY <3>1, <3>3 DEF RecipeInv
  <2> QED BY <2>1, <2>2, <2>3, SweepLetsGo
<1>38. ASSUME MergeEnds PROVE RecipeInv'
  <2> DEFINE stale == Launches(queue) \ Live
  <2>1. UNCHANGED <<row, finished, call, launch, card>> /\ Sweep(FALSE)
    BY <1>38 DEF MergeEnds, rows
  <2>2. CASE UNCHANGED <<holder, queue, due, held, nudge, excused>>
    BY <2>1, <2>2 DEF RecipeInv, RecipeOf, Unstored, Reach, OnItsWay, Live, Alive
  <2>3. CASE /\ LetsGo(stale, Live, FALSE) /\ held' \subseteq held
             /\ \A u \in stale : call[u] = "queued" => "dropped" \in excused'[u]
    <3>1. \A u \in Subs \ stale : RecipeOf(u)'
      <4> HIDE DEF stale
      <4> QED BY <2>1, <2>3, OthersStay
    <3>2. stale \cap Live = {} /\ Live' = Live /\ due' \subseteq due \cup Live
      <4>1. \A t : Launches(t.start) \subseteq Queued(t.start)
        BY DEF Launches, Queued
      <4> QED BY <2>1, <2>3, <4>1 DEF LetsGo, HandsOn, Settle, Live
    <3>3. ASSUME NEW u \in Subs, u \in stale PROVE RecipeOf(u)'
      BY <2>1, <2>3, <3>2, <3>3 DEF RecipeOf, Unstored, Reach, RecipeInv
    <3> QED BY <3>1, <3>3 DEF RecipeInv
  <2> QED BY <2>1, <2>2, <2>3, SweepLetsGo
<1>39. ASSUME Restart PROVE RecipeInv'
  <2>1. held \cap Live' \subseteq Launches(queue') \cup due' /\ held' = held
    BY <1>39, RestartReaches DEF Restart
  <2>2. \A u \in Subs : call'[u] \in {"new", "over"}
    BY <1>39 DEF Restart
  <2>3. \A u \in Subs : call'[u] = "new" => call[u] = "new" /\ row'[u] = row[u]
    BY <1>39 DEF Restart
  <2>4. \A u \in Subs : Unstored(u)' => Reach(u)'
    BY <2>1, <2>2 DEF Unstored, Reach, OnItsWay
  <2> QED BY <2>2, <2>3, <2>4 DEF RecipeInv, RecipeOf
<1> QED BY <1>1, <1>2, <1>3, <1>4, <1>5, <1>6, <1>7, <1>8, <1>9, <1>10, <1>11,
         <1>12, <1>13, <1>14, <1>15, <1>16, <1>17, <1>18, <1>19, <1>20, <1>21,
         <1>22, <1>23, <1>24, <1>25, <1>26, <1>27, <1>28, <1>29, <1>30, <1>31,
         <1>32, <1>33, <1>34, <1>35, <1>36, <1>37, <1>38, <1>39
     DEF Next

\* A stored recipe of a live sub is never forgotten: it is queued, being started or on
\* Joe's card, unless the sweep or a release took the entry of a spawn_chat call that
\* had not stored it yet (register_queued, run_start, launch_held, restore_inner).
THEOREM RecipesReachable == Spec => []RecipeIsReachable
<1>1. Init => RecipeInv
  BY DEF Init, RecipeInv, RecipeOf, Unstored
<1>2. Life /\ Placed /\ RestOK /\ Waiting /\ Editing /\ RecipeInv /\ [Next]_vars => RecipeInv'
  BY RecipeStep
<1>3. Life /\ RecipeInv => RecipeIsReachable
  BY DEF Life, LifeFlags, RecipeInv, RecipeOf, Unstored, Reach, RecipeIsReachable
<1> QED BY <1>1, <1>2, <1>3, EditingAlways, PTL DEF Spec

-------------------------------------------------------------------------------
(* Who gets the slot.                                                       *)

\* A new holder was ahead of all that wait on, and is no gate during a merge; or a
\* follow-up asked for it; or the daemon came back with no merge in flight.
Handed ==
  holder' \notin {holder, None} =>
    \/ used'["restarts"] # used["restarts"] /\ ~merging'
    \/ /\ \A u \in Queued(queue) \cap Queued(queue') : Before(queue, holder', u)
       /\ \/ ~(holder' \in Gates /\ merging') \/ holder' \in turn
          \/ holder' \notin sent => "asked" \in excused'[holder']

LEMMA TableHands ==
  ASSUME NEW t, NEW S, NEW live, NEW merge, HandsOn(t, holder, queue, S, live, merge),
         merging' => merge, \E R, G : Settle(t, R, G)
  PROVE  Handed
<1>1. holder' = t.holder /\ queue' = t.queue
  BY DEF Settle
<1> QED BY <1>1, Zenon DEF HandsOn, Handed

LEMMA LetsGoHands ==
  ASSUME NEW S, NEW live, NEW merge, LetsGo(S, live, merge), merging' => merge
  PROVE  Handed
BY TableHands DEF LetsGo

LEMMA RequestsHand ==
  ASSUME Sane(holder, queue), NEW s \in Subs, Requests(s)
  PROVE  holder' \notin {holder, None} => holder' = s /\ Queued(queue) = {}
BY DEF Requests, Heal, Queued

LEMMA HandedStep == Life /\ Placed /\ RestOK /\ Waiting /\ Editing /\ [Next]_vars => Handed
<1> SUFFICES ASSUME Life, Placed, RestOK, Waiting, Editing, [Next]_vars PROVE Handed
  OBVIOUS
<1>0. /\ Sane(holder, queue) /\ excused \in [Subs -> SUBSET Races] /\ held \subseteq Subs
      /\ card \in [Subs -> {"no", "open", "left"}] /\ used \in [Costs -> Nat]
      /\ StartsAreOver
  BY DEF Life, LifeFlags, Placed, RestOK
<1> USE <1>0
<1>1. ASSUME UNCHANGED holder PROVE Handed
  BY <1>1 DEF Handed
<1>2. ASSUME NEW s \in Subs,
              SpawnUp(s) \/ MarkSub(s) \/ SpawnSend(s) \/ Register(s)
              \/ StoreRecipe(s) \/ TryAgain(s) \/ SkipCard(s) PROVE Handed
  BY <1>2, <1>1, Zenon DEF SpawnUp, MarkSub, SpawnSend, Register, StoreRecipe, TryAgain, SkipCard, slot
<1>3. ASSUME NEW s \in Subs,
              LaunchUp(s) \/ TakesRecipe(s) \/ LaunchSend(s) \/ EditLands(s) \/ Commit(s)
              \/ AskJoe(s) \/ AskReadsGit(s) \/ RequestFinish(s) PROVE Handed
  BY <1>3, <1>1, Zenon DEF LaunchUp, TakesRecipe, LaunchSend, EditLands, Commit, AskJoe, AskReadsGit, RequestFinish, slot
<1>4. ASSUME NEW s \in Subs,
              ContinueUp(s) \/ ContinueFails(s) \/ Continue(s) \/ SeesChild(s)
              \/ Nudge(s) \/ NudgeAgain(s) \/ EndRow(s) PROVE Handed
  BY <1>4, <1>1, Zenon DEF ContinueUp, ContinueFails, Continue, SeesChild, Nudge, NudgeAgain, EndRow, slot
<1>5. ASSUME MergeStarts \/ HeldSweep \/ ClaimExpires \/ UNCHANGED vars PROVE Handed
  BY <1>5, <1>1, Zenon DEF MergeStarts, HeldSweep, ClaimExpires, vars, slot
<1>6. ASSUME NEW s \in Subs, DecideSpawn(s) PROVE Handed
  BY <1>6 DEF DecideSpawn, Handed, Heal, Queued
<1>7. ASSUME NEW s \in Subs, CheckWrite(s) PROVE Handed
  <2>1. holder' \notin {holder, None} => holder' = s /\ Queued(queue) = {}
    BY <1>7, RequestsHand DEF CheckWrite
  <2>2. s \in turn
    BY <1>7 DEF CheckWrite
  <2> QED BY <2>1, <2>2 DEF Handed
<1>8. ASSUME NEW s \in Subs, AskToWrite(s) PROVE Handed
  <2>1. holder' \notin {holder, None} => holder' = s /\ Queued(queue) = {}
    BY <1>8, RequestsHand DEF AskToWrite
  <2>2. s \notin sent => "asked" \in excused'[s]
    BY <1>8 DEF AskToWrite, Excuse
  <2> QED BY <2>1, <2>2 DEF Handed
<1>9. ASSUME NEW s \in Subs, SpawnFails(s) PROVE Handed
  <2>1. LetsGo({s}, Live, merging)
    BY <1>9, ReleaseLetsGo DEF SpawnFails
  <2>2. merging' = merging
    BY <1>9 DEF SpawnFails
  <2> QED BY <2>1, <2>2, LetsGoHands
<1>10. ASSUME NEW s \in Subs, SpawnSendFails(s) PROVE Handed
  <2>1. LetsGo({s}, Alive(row', finished), merging)
    BY <1>10, ReleaseLetsGo DEF SpawnSendFails
  <2>2. merging' = merging
    BY <1>10 DEF SpawnSendFails
  <2> QED BY <2>1, <2>2, LetsGoHands
<1>11. ASSUME NEW s \in Subs, AskReleases(s) PROVE Handed
  <2>1. LetsGo({s}, Live, merging)
    BY <1>11, ReleaseLetsGo DEF AskReleases
  <2>2. merging' = merging
    BY <1>11 DEF AskReleases
  <2> QED BY <2>1, <2>2, LetsGoHands
<1>12. ASSUME NEW s \in Subs, Move(s) PROVE Handed
  <2>1. LetsGo({s}, Alive(row', finished'), merging)
    BY <1>12, ReleaseLetsGo DEF Move
  <2>2. merging' = merging
    BY <1>12 DEF Move
  <2> QED BY <2>1, <2>2, LetsGoHands
<1>13. ASSUME NEW s \in Subs, RegisterFails(s) PROVE Handed
  <2> DEFINE t == Leave(s, Live, merging)
  <2>1. HandsOn(t, holder, queue, {s}, Live, merging)
    BY LeaveHandsOn
  <2>2. Settle(t, held, {}) /\ merging' = merging
    BY <1>13 DEF RegisterFails
  <2> HIDE DEF t
  <2> QED BY <2>1, <2>2, TableHands
<1>14. ASSUME NEW s \in Subs, EndSub(s) PROVE Handed
  <2> DEFINE t == Leave(s, Alive(row', finished), merging)
  <2>1. HandsOn(t, holder, queue, {s}, Alive(row', finished), merging)
    BY LeaveHandsOn
  <2>2. Settle(t, held \ {s}, {}) /\ merging' = merging
    BY <1>14 DEF EndSub
  <2> HIDE DEF t
  <2> QED BY <2>1, <2>2, TableHands
<1>15. ASSUME NEW s \in Subs, TurnEnds(s) PROVE Handed
  <2>1. merging' = merging
    BY <1>15 DEF TurnEnds
  <2>2. CASE Finish(s)
    <3>1. LetsGo({s}, Alive(row, finished'), merging)
      BY <2>2, ReleaseLetsGo DEF Finish
    <3> QED BY <2>1, <3>1, LetsGoHands
  <2> QED BY <1>15, <1>1, <2>2 DEF TurnEnds
<1>16. ASSUME NEW s \in Subs, Dies(s) PROVE Handed
  <2>1. merging' = merging
    BY <1>16 DEF Dies
  <2>2. CASE Finish(s)
    <3>1. LetsGo({s}, Alive(row, finished'), merging)
      BY <2>2, ReleaseLetsGo DEF Finish
    <3> QED BY <2>1, <3>1, LetsGoHands
  <2>3. CASE Release(s, Live)
    BY <2>1, <2>3, ReleaseLetsGo, LetsGoHands
  <2> QED BY <1>16, <1>1, <2>2, <2>3 DEF Dies
<1>17. ASSUME NEW s \in Subs, RunStart(s) PROVE Handed
  <2>1. \/ holder' = holder
        \/ LaunchError(s, IF row[s] = "ended" THEN held \ {s} ELSE held)
    BY <1>17 DEF RunStart
  <2>2. CASE LaunchError(s, IF row[s] = "ended" THEN held \ {s} ELSE held)
    <3> DEFINE R == IF row[s] = "ended" THEN held \ {s} ELSE held
    <3>1. R \subseteq held \cup {s}
      OBVIOUS
    <3> HIDE DEF R
    <3>2. LetsGo({s}, Live, merging)
      BY <2>2, <3>1, LaunchErrorLetsGo DEF R
    <3>3. merging' = merging
      BY <1>17 DEF RunStart
    <3> QED BY <3>2, <3>3, LetsGoHands
  <2> QED BY <1>1, <2>1, <2>2
<1>18. ASSUME NEW s \in Subs, LaunchFails(s) PROVE Handed
  <2> DEFINE R == held
  <2>1. R \subseteq held \cup {s} /\ LaunchError(s, R) /\ merging' = merging
    BY <1>18 DEF LaunchFails
  <2> HIDE DEF R
  <2>2. LetsGo({s}, Live, merging)
    BY <2>1, LaunchErrorLetsGo
  <2> QED BY <2>1, <2>2, LetsGoHands
<1>19. ASSUME NEW s \in Subs, LaunchSendFails(s) PROVE Handed
  <2> DEFINE R == held \cup {s}
  <2>1. R \subseteq held \cup {s} /\ LaunchError(s, R) /\ merging' = merging
    BY <1>19 DEF LaunchSendFails
  <2> HIDE DEF R
  <2>2. LetsGo({s}, Live, merging)
    BY <2>1, LaunchErrorLetsGo
  <2> QED BY <2>1, <2>2, LetsGoHands
<1>20. ASSUME SlotSweep PROVE Handed
  <2>1. Sweep(merging) /\ (merging' => merging)
    BY <1>20 DEF SlotSweep
  <2> QED BY <1>1, <2>1, SweepLetsGo, LetsGoHands
<1>21. ASSUME MergeEnds PROVE Handed
  <2>1. Sweep(FALSE) /\ (merging' => FALSE)
    BY <1>21 DEF MergeEnds
  <2> QED BY <1>1, <2>1, SweepLetsGo, LetsGoHands
<1>22. ASSUME Restart PROVE Handed
  <2>1. Spend("restarts", MaxRestarts) /\ ~merging'
    BY <1>22 DEF Restart
  <2>2. used'["restarts"] = used["restarts"] + 1 /\ used["restarts"] \in Nat
    BY <2>1 DEF Spend, Costs
  <2>3. used'["restarts"] # used["restarts"]
    BY <2>2
  <2> QED BY <2>1, <2>3, Zenon DEF Handed
<1> QED BY <1>2, <1>3, <1>4, <1>5, <1>6, <1>7, <1>8, <1>9, <1>10, <1>11, <1>12,
         <1>13, <1>14, <1>15, <1>16, <1>17, <1>18, <1>19, <1>20, <1>21, <1>22
     DEF Next

\* The slot goes to the longest waiting: whoever gets it leaves no sub waiting that was
\* ahead of it (writers.rs decide_spawn, request_slot, advance_locked).
THEOREM NoOvertaking == Spec => NobodyOvertakes
<1>1. ASSUME Placed, Handed, NEW i \in DOMAIN queue,
             holder' \notin {holder, None}, queue[i].sub \in Queued(queue'),
             used'["restarts"] = used["restarts"]
      PROVE  \E j \in 1..(i - 1) : queue[j].sub = holder'
  <2>1. Before(queue, holder', queue[i].sub)
    BY <1>1 DEF Handed, Queued
  <2>2. PICK j, k \in DOMAIN queue :
          j < k /\ queue[j].sub = holder' /\ queue[k].sub = queue[i].sub
    BY <2>1 DEF Before
  <2>3. k = i /\ DOMAIN queue = 1..Len(queue) /\ Len(queue) \in Nat
    BY <1>1, <2>2 DEF Placed, Sane
  <2> QED BY <2>2, <2>3
<1>2. Life /\ Placed /\ RestOK /\ Waiting /\ Editing /\ [Next]_vars =>
        [\A i \in DOMAIN queue :
           /\ holder' \notin {holder, None} /\ queue[i].sub \in Queued(queue')
           /\ used'["restarts"] = used["restarts"]
           => \E j \in 1..(i - 1) : queue[j].sub = holder']_vars
  BY <1>1, HandedStep
<1> QED BY <1>2, EditingAlways, PTL DEF Spec, NobodyOvertakes

\* A gate that has not begun gets the slot only when no merge into the repo is running
\* (writers.rs after_merges in advance_locked and decide_spawn).
THEOREM GatesWait == Spec => GateStartsAfterMerges
<1>1. Handed => \A g \in Gates \ (sent \cup turn) :
                  holder' = g /\ holder # g => ~merging' \/ "asked" \in excused'[g]
  BY SlotConstants DEF Handed
<1>2. Life /\ Placed /\ RestOK /\ Waiting /\ Editing /\ [Next]_vars =>
        [\A g \in Gates \ (sent \cup turn) :
           holder' = g /\ holder # g => ~merging' \/ "asked" \in excused'[g]]_vars
  BY <1>1, HandedStep
<1> QED BY <1>2, EditingAlways, PTL DEF Spec, GateStartsAfterMerges
===============================================================================
