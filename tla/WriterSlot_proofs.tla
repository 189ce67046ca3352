-------------------------- MODULE WriterSlot_proofs --------------------------
(***************************************************************************)
(* What holds of the writer slot for every set of subs, every bound and    *)
(* every order of the steps.                                               *)
(***************************************************************************)
EXTENDS WriterSlot, TLAPS, WellFoundedInduction, FiniteSetTheorems, SequenceTheorems

-------------------------------------------------------------------------------
(* The life of a sub: call, recipe, launch, process, end.                   *)

LifeFlags ==
  /\ row \in [Subs -> {"none", "bare", "sub", "ended", "moved"}]
  /\ call \in [Subs -> {"new", "claimed", "bare", "send", "queued", "hold", "over"}]
  /\ launch \in [Subs -> {"no", "checked", "spawned", "up"}]
  /\ cont \in [Subs -> {"no", "run", "fin"}]
  /\ excused \in [Subs -> SUBSET Races]
  /\ held \subseteq Subs /\ child \subseteq Subs /\ sent \subseteq Subs

\* A recipe on disk, a launch and a resume belong to a call that is over.
StartsAreOver ==
  \A s \in Subs : s \in held \/ launch[s] # "no" \/ cont[s] # "no" => call[s] = "over"

\* A call that has not come to its child has none.
EarlyHasNoChild ==
  \A s \in Subs : call[s] \in {"new", "claimed", "queued", "hold"} => s \notin child

\* A sub that got its first message is done with its call, its recipe and its launch.
SentIsOver ==
  \A s \in Subs : s \in sent => call[s] = "over" /\ s \notin held /\ launch[s] = "no"

\* The recipe is gone while a launch has its child up.
UpIsTaken == \A s \in Subs : launch[s] = "up" => s \notin held

\* An ended row with something that may still bring a process is a late one.
EndedIsLate ==
  \A s \in Subs :
    row[s] = "ended" /\ (s \in child \/ launch[s] # "no" \/ cont[s] # "no")
      => "late" \in excused[s]

Life == LifeFlags /\ StartsAreOver /\ EarlyHasNoChild /\ SentIsOver /\ UpIsTaken
          /\ HeldHasNotBegun /\ EndedIsLate

\* Naming a race keeps those that were named.
LEMMA ExcuseGrows ==
  ASSUME excused \in [Subs -> SUBSET Races], NEW S, NEW why \in Races
  PROVE  /\ Excuse(S, why) \in [Subs -> SUBSET Races]
         /\ \A s \in Subs : excused[s] \subseteq Excuse(S, why)[s]
BY DEF Excuse

\* A sweep takes recipes and names races, and nothing else of a sub's life.
LEMMA SweepLife ==
  ASSUME excused \in [Subs -> SUBSET Races], NEW merge, Sweep(merge)
  PROVE  /\ held' \subseteq held /\ excused' \in [Subs -> SUBSET Races]
         /\ \A s \in Subs : excused[s] \subseteq excused'[s]
<1>1. CASE UNCHANGED <<held, excused>>
  BY <1>1
<1>2. CASE ~UNCHANGED <<held, excused>>
  <2>1. \E S, R : held' = held \ R /\ excused' = Excuse(S, "dropped")
    <3> DEFINE stale == Launches(queue) \ Live
    <3>1. PICK f \in Enumerations({i \in DOMAIN queue : queue[i].sub \in Live}) :
            LET t == Advance(holder, [n \in DOMAIN f |-> queue[f[n]]], Live, merge)
            IN /\ Settle(t, held \ stale, {})
               /\ excused' = Excuse({s \in stale : call[s] = "queued"}, "dropped")
      BY <1>2, Zenon DEF Sweep
    <3>2. \E t : Settle(t, held \ stale, {})
      BY <3>1
    <3>3. \E R : held' = held \ R
      <4>1. PICK t : Settle(t, held \ stale, {})
        BY <3>2
      <4>2. held' = held \ (stale \cup Launches(t.passed))
        BY <4>1 DEF Settle
      <4> QED BY <4>2
    <3> QED BY <3>1, <3>3
  <2> QED BY <2>1, ExcuseGrows DEF Races
<1> QED BY <1>1, <1>2

LEMMA LifeInit == Init => Life
BY DEF Init, Life, LifeFlags, StartsAreOver, EarlyHasNoChild, SentIsOver, UpIsTaken,
       HeldHasNotBegun, EndedIsLate

LEMMA LifeStep == Life /\ [Next]_vars => Life'
<1> SUFFICES ASSUME Life, [Next]_vars PROVE Life'
  OBVIOUS
<1> USE ExcuseGrows DEF Life, LifeFlags, StartsAreOver, EarlyHasNoChild, SentIsOver, UpIsTaken, HeldHasNotBegun, EndedIsLate,
         rows, process, tasks, slot, history, Races
<1>1. ASSUME NEW s \in Subs, DecideSpawn(s) PROVE Life'
  BY <1>1 DEF DecideSpawn
<1>2. ASSUME NEW s \in Subs, SpawnUp(s) PROVE Life'
  BY <1>2 DEF SpawnUp
<1>3. ASSUME NEW s \in Subs, SpawnFails(s) PROVE Life'
  BY <1>3 DEF SpawnFails, Release, Settle
<1>4. ASSUME NEW s \in Subs, MarkSub(s) PROVE Life'
  BY <1>4 DEF MarkSub
<1>5. ASSUME NEW s \in Subs, SpawnSend(s) PROVE Life'
  BY <1>5 DEF SpawnSend, Begin
<1>6. ASSUME NEW s \in Subs, SpawnSendFails(s) PROVE Life'
  BY <1>6 DEF SpawnSendFails, Release, Settle
<1>7. ASSUME NEW s \in Subs, Register(s) PROVE Life'
  BY <1>7 DEF Register
<1>8. ASSUME NEW s \in Subs, StoreRecipe(s) PROVE Life'
  BY <1>8 DEF StoreRecipe
<1>9. ASSUME NEW s \in Subs, RegisterFails(s) PROVE Life'
  BY <1>9 DEF RegisterFails, Settle
<1>10. ASSUME NEW s \in Subs, RunStart(s) PROVE Life'
  BY <1>10 DEF RunStart, LaunchError, Settle, MayStart
<1>11. ASSUME NEW s \in Subs, TryAgain(s) PROVE Life'
  BY <1>11 DEF TryAgain, MayStart
<1>12. ASSUME NEW s \in Subs, SkipCard(s) PROVE Life'
  BY <1>12 DEF SkipCard
<1>13. ASSUME NEW s \in Subs, LaunchUp(s) \/ TakesRecipe(s) PROVE Life'
  BY <1>13 DEF LaunchUp, TakesRecipe
<1>14. ASSUME NEW s \in Subs, LaunchFails(s) PROVE Life'
  BY <1>14 DEF LaunchFails, LaunchError, Settle
<1>15. ASSUME NEW s \in Subs, LaunchSend(s) PROVE Life'
  BY <1>15 DEF LaunchSend, Begin
<1>16. ASSUME NEW s \in Subs, LaunchSendFails(s) PROVE Life'
  BY <1>16 DEF LaunchSendFails, LaunchError, Settle
<1>17. ASSUME NEW s \in Subs, Nudge(s) PROVE Life'
  BY <1>17 DEF Nudge
<1>18. ASSUME NEW s \in Subs, CheckWrite(s) PROVE Life'
  BY <1>18 DEF CheckWrite
<1>19. ASSUME NEW s \in Subs, AskToWrite(s) PROVE Life'
  BY <1>19 DEF AskToWrite
<1>20. ASSUME NEW s \in Subs, EditLands(s) PROVE Life'
  BY <1>20 DEF EditLands
<1>21. ASSUME NEW s \in Subs, Commit(s) PROVE Life'
  BY <1>21 DEF Commit
<1>22. ASSUME NEW s \in Subs, AskJoe(s) PROVE Life'
  BY <1>22 DEF AskJoe
<1>23. ASSUME NEW s \in Subs, AskReadsGit(s) PROVE Life'
  BY <1>23 DEF AskReadsGit
<1>24. ASSUME NEW s \in Subs, AskReleases(s) PROVE Life'
  BY <1>24 DEF AskReleases, Release, Settle
<1>25. ASSUME NEW s \in Subs, RequestFinish(s) PROVE Life'
  BY <1>25 DEF RequestFinish
<1>26. ASSUME NEW s \in Subs, TurnEnds(s) PROVE Life'
  BY <1>26 DEF TurnEnds, Finish, Release, Settle
<1>27. ASSUME NEW s \in Subs, Dies(s) PROVE Life'
  BY <1>27 DEF Dies, Finish, Release, Settle
<1>28. ASSUME NEW s \in Subs, Continue(s) PROVE Life'
  BY <1>28 DEF Continue
<1>29. ASSUME NEW s \in Subs, ContinueUp(s) PROVE Life'
  BY <1>29 DEF ContinueUp
<1>30. ASSUME NEW s \in Subs, ContinueFails(s) PROVE Life'
  BY <1>30 DEF ContinueFails
<1>31. ASSUME NEW s \in Subs, NudgeAgain(s) PROVE Life'
  BY <1>31 DEF NudgeAgain
<1>32. ASSUME NEW s \in Subs, EndSub(s) PROVE Life'
  BY <1>32 DEF EndSub, Stop, Late, Settle
<1>33. ASSUME NEW s \in Subs, EndRow(s) PROVE Life'
  BY <1>33 DEF EndRow, Stop, Late
<1>34. ASSUME NEW s \in Subs, Move(s) PROVE Life'
  BY <1>34 DEF Move, Release, Settle
<1>35. ASSUME NEW s \in Subs, SeesChild(s) PROVE Life'
  BY <1>35 DEF SeesChild
<1>36. ASSUME MergeStarts PROVE Life'
  BY <1>36 DEF MergeStarts
<1>37. ASSUME SlotSweep PROVE Life'
  BY <1>37, SweepLife DEF SlotSweep
<1>38. ASSUME MergeEnds PROVE Life'
  BY <1>38, SweepLife DEF MergeEnds
<1>39. ASSUME HeldSweep PROVE Life'
  BY <1>39 DEF HeldSweep
<1>40. ASSUME ClaimExpires PROVE Life'
  BY <1>40 DEF ClaimExpires
<1>41. ASSUME Restart PROVE Life'
  BY <1>41 DEF Restart
<1>42. ASSUME UNCHANGED vars PROVE Life'
  BY <1>42 DEF vars
<1> QED BY <1>1, <1>2, <1>3, <1>4, <1>5, <1>6, <1>7, <1>8, <1>9, <1>10, <1>11, <1>12, <1>13, <1>14, <1>15, <1>16, <1>17, <1>18, <1>19, <1>20, <1>21, <1>22, <1>23, <1>24, <1>25, <1>26, <1>27, <1>28, <1>29, <1>30, <1>31, <1>32, <1>33, <1>34, <1>35, <1>36, <1>37, <1>38, <1>39, <1>40, <1>41, <1>42 DEF Next
LEMMA LifeAlways == Spec => []Life
<1>1. Init => Life
  BY LifeInit
<1>2. Life /\ [Next]_vars => Life'
  BY LifeStep
<1> QED BY <1>1, <1>2, PTL DEF Spec

\* A sub whose recipe is on disk has not begun: nothing starts it twice.  Its child is up
\* only until launch_held takes the recipe, and a recipe that is put back comes without
\* the child.
THEOREM HeldNotBegun == Spec => []HeldHasNotBegun
<1>1. Life => HeldHasNotBegun
  BY DEF Life
<1> QED BY <1>1, LifeAlways, PTL

\* An ended sub has a process only if a start or a resume of it was under way
\* when it ended (end_sub, launch_held, continue_sub).
THEOREM EndedStays == Spec => []EndedStartsNothing
<1>1. Life => EndedStartsNothing
  BY DEF Life, EndedIsLate, EndedStartsNothing, LifeFlags
<1> QED BY <1>1, LifeAlways, PTL

-------------------------------------------------------------------------------
(* The slot table.                                                          *)

\* A table that can stand: the holder and the entries are subs, each in one place.
Sane(h, q) ==
  /\ h \in Subs \cup {None} /\ q \in Seq(Entries)
  /\ \A i, j \in DOMAIN q : q[i].sub = q[j].sub => i = j
  /\ h \notin Queued(q)

\* What a step may make of a table: a sane one, out of subs that were there.
Follows(t, h, q) ==
  /\ Sane(t.holder, t.queue)
  /\ {t.holder} \cup Queued(t.queue) \subseteq Queued(q) \cup {h, None}
  /\ Launches(t.queue) \subseteq Launches(q) /\ Launches(t.start) \subseteq Launches(q)
  /\ Queued(t.start) \subseteq Queued(q) \ Queued(t.queue)
  /\ Launches(t.start) \subseteq Queued(t.start)

\* Entries of one queue that are entries of another.
LEMMA Within ==
  ASSUME NEW p, NEW q, \A i \in DOMAIN p : \E j \in DOMAIN q : p[i] = q[j]
  PROVE  Queued(p) \subseteq Queued(q) /\ Launches(p) \subseteq Launches(q)
BY DEF Queued, Launches

LEMMA QueuedAreSubs ==
  ASSUME NEW q \in Seq(Entries)
  PROVE  Queued(q) \subseteq Subs /\ Launches(q) \subseteq Queued(q)
<1>1. \A i \in DOMAIN q : q[i] \in Entries
  OBVIOUS
<1>2. \A e \in Entries : e.sub \in Subs
  BY DEF Entries
<1>3. Queued(q) \subseteq Subs
  BY <1>1, <1>2 DEF Queued
<1> QED BY <1>3 DEF Queued, Launches

\* The entry where a queue stops is one of it, and the first that is not passed.
LEMMA HeadIsThere ==
  ASSUME NEW q \in Seq(Entries), NEW live, NEW merge, Stops(q, live, merge) # {}
  PROVE  /\ HeadOf(q, live, merge) \in 1..Len(q)
         /\ HeadOf(q, live, merge) \in Stops(q, live, merge)
         /\ \A j \in Stops(q, live, merge) : HeadOf(q, live, merge) <= j
<1> DEFINE P == Stops(q, live, merge)
<1>1. P \subseteq 1..Len(q) /\ P \subseteq Nat
  BY DEF Stops
<1>2. IsWellFoundedOn(OpToRel(<, Nat), Nat)
  BY NatLessThanWellFounded
<1>3. PICK x \in P : \A y \in P : <<y, x>> \notin OpToRel(<, Nat)
  BY <1>1, <1>2, WFMin
<1>4. \A y \in P : x <= y
  <2> TAKE y \in P
  <2>1. x \in Nat /\ y \in Nat
    BY <1>1, <1>3
  <2>2. ~(y < x)
    BY <2>1, <1>3 DEF OpToRel
  <2> QED BY <2>1, <2>2
<1> QED BY <1>1, <1>3, <1>4 DEF HeadOf

\* A part of a sane queue is sane, and loses what is before and after it.
LEMMA PartIsSane ==
  ASSUME NEW h, NEW q, Sane(h, q), NEW a \in 1..(Len(q) + 1), NEW b \in 0..Len(q)
  PROVE  /\ Sane(h, SubSeq(q, a, b)) /\ Queued(SubSeq(q, a, b)) \subseteq Queued(q)
         /\ Launches(SubSeq(q, a, b)) \subseteq Launches(q)
<1> DEFINE p == SubSeq(q, a, b)
<1>1. /\ p \in Seq(Entries)
      /\ \A i \in DOMAIN p : a + i - 1 \in DOMAIN q /\ p[i] = q[a + i - 1] /\ i \in Nat
  BY DEF Sane
<1>2. Queued(p) \subseteq Queued(q) /\ Launches(p) \subseteq Launches(q)
  BY <1>1, Within
<1>3. \A i, j \in DOMAIN p : p[i].sub = p[j].sub => i = j
  <2> TAKE i, j \in DOMAIN p
  <2> HAVE p[i].sub = p[j].sub
  <2>1. a + i - 1 = a + j - 1
    BY <1>1 DEF Sane
  <2> QED BY <2>1, <1>1
<1> QED BY <1>1, <1>2, <1>3 DEF Sane

LEMMA AdvanceFollows ==
  ASSUME NEW h, NEW q, Sane(h, q), NEW live, NEW merge
  PROVE  Follows(Advance(h, q, live, merge), h, q)
<1> DEFINE at == HeadOf(q, live, merge)
           t  == Advance(h, q, live, merge)
<1>1. Heal(h, live) \in {h, None} /\ Sane(Heal(h, live), q) /\ Sane(None, q)
  <2>1. None \notin Queued(q)
    BY QueuedAreSubs, SlotConstants DEF Sane
  <2> QED BY <2>1 DEF Heal, Sane
<1>2. Sane(None, <<>>) /\ Queued(<<>>) = {} /\ Launches(<<>>) = {}
  BY DEF Sane, Queued, Launches
<1>3. CASE Heal(h, live) # None
  <2>1. t = Table(Heal(h, live), q, <<>>, <<>>)
    BY <1>3 DEF Advance
  <2> QED BY <2>1, <1>1, <1>2 DEF Follows, Table
<1>4. CASE Heal(h, live) = None /\ Stops(q, live, merge) = {}
  <2>1. t = Table(None, <<>>, q, <<>>)
    BY <1>4 DEF Advance
  <2> QED BY <2>1, <1>2 DEF Follows, Table
<1>5. CASE Heal(h, live) = None /\ Stops(q, live, merge) # {} /\ Waits(q[at], merge)
  <2>1. t = Table(None, SubSeq(q, at, Len(q)), SubSeq(q, 1, at - 1), <<>>)
    BY <1>5 DEF Advance
  <2>2. at \in 1..Len(q) /\ Len(q) \in Nat
    BY <1>5, HeadIsThere DEF Sane
  <2>3. /\ Sane(None, SubSeq(q, at, Len(q))) /\ Queued(SubSeq(q, at, Len(q))) \subseteq Queued(q)
        /\ Launches(SubSeq(q, at, Len(q))) \subseteq Launches(q)
    BY <2>2, <1>1, PartIsSane
  <2> QED BY <2>1, <2>3, <1>2 DEF Follows, Table
<1>6. CASE Heal(h, live) = None /\ Stops(q, live, merge) # {} /\ ~Waits(q[at], merge)
  <2>1. t = Table(q[at].sub, SubSeq(q, at + 1, Len(q)), SubSeq(q, 1, at - 1), <<q[at]>>)
    BY <1>6 DEF Advance
  <2>2. at \in 1..Len(q) /\ Len(q) \in Nat
    BY <1>6, HeadIsThere DEF Sane
  <2> DEFINE p == SubSeq(q, at + 1, Len(q))
  <2>3. Sane(None, p) /\ Queued(p) \subseteq Queued(q) /\ Launches(p) \subseteq Launches(q)
    <3>1. at + 1 \in 1..(Len(q) + 1) /\ Len(q) \in 0..Len(q)
      BY <2>2
    <3> HIDE DEF at
    <3> QED BY <3>1, <1>1, PartIsSane
  <2>4. q[at].sub \in Queued(q) /\ q[at].sub \in Subs
    <3>1. q[at].sub \in Queued(q)
      BY <2>2 DEF Queued, Sane
    <3> QED BY <3>1, QueuedAreSubs DEF Sane
  <2>5. q[at].sub \notin Queued(p)
    <3>1. \A i \in DOMAIN p : at + i \in DOMAIN q /\ p[i] = q[at + i] /\ at + i # at
      BY <2>2 DEF Sane
    <3>2. \A i \in DOMAIN p : p[i].sub # q[at].sub
      BY <3>1, <2>2 DEF Sane
    <3> QED BY <3>2 DEF Queued
  <2>6. /\ Queued(<<q[at]>>) = {q[at].sub}
        /\ Launches(<<q[at]>>) \subseteq Launches(q) /\ Launches(<<q[at]>>) \subseteq {q[at].sub}
    <3>1. Queued(<<q[at]>>) = {q[at].sub} /\ Launches(<<q[at]>>) \subseteq {q[at].sub}
      BY DEF Queued, Launches
    <3>2. \A i \in DOMAIN <<q[at]>> : <<q[at]>>[i] = q[at] /\ at \in DOMAIN q
      BY <2>2 DEF Sane
    <3>3. Launches(<<q[at]>>) \subseteq Launches(q)
      <4> HIDE DEF at
      <4> QED BY <3>2, Within
    <3> QED BY <3>1, <3>3
  <2>7. Sane(q[at].sub, p)
    BY <2>3, <2>4, <2>5 DEF Sane
  <2> QED BY <2>1, <2>3, <2>4, <2>5, <2>6, <2>7 DEF Follows, Table
<1> QED BY <1>3, <1>4, <1>5, <1>6

\* Taking a sub out of a queue closes the gap it leaves.
LEMMA WithoutPlaces ==
  ASSUME NEW q \in Seq(Entries), NEW s \in Queued(q)
  PROVE  LET p == Without(q, s)
         IN \E at \in DOMAIN q :
              /\ q[at].sub = s /\ p \in Seq(Entries) /\ Len(p) = Len(q) - 1
              /\ \A i \in 1..(Len(q) - 1) : p[i] = q[IF i < at THEN i ELSE i + 1]
<1> DEFINE at == CHOOSE i \in DOMAIN q : q[i].sub = s
           p  == Without(q, s)
<1>1. at \in DOMAIN q /\ q[at].sub = s
  BY DEF Queued
<1>2. at \in 1..Len(q) /\ Len(q) \in Nat
  BY <1>1
<1>3. p = SubSeq(q, 1, at - 1) \o SubSeq(q, at + 1, Len(q))
  BY DEF Without, RemoveAt
<1> HIDE DEF at
<1> DEFINE left == SubSeq(q, 1, at - 1)
           right == SubSeq(q, at + 1, Len(q))
<1>4. left \in Seq(Entries) /\ Len(left) = at - 1 /\ \A i \in 1..(at - 1) : left[i] = q[i]
  BY <1>2
<1>5. right \in Seq(Entries) /\ Len(right) = Len(q) - at
  <2>1. at + 1 \in Int /\ Len(q) \in Int /\ \A i \in (at + 1)..Len(q) : q[i] \in Entries
    BY <1>2
  <2>2. /\ right \in Seq(Entries)
        /\ Len(right) = IF at + 1 <= Len(q) THEN Len(q) - (at + 1) + 1 ELSE 0
    BY <2>1, SubSeqProperties
  <2> QED BY <1>2, <2>2
<1>6. \A i \in 1..(Len(q) - at) : right[i] = q[at + i]
  BY <1>2, <1>5
<1> HIDE DEF left, right
<1>7. p = left \o right
  BY <1>3 DEF left, right
<1> HIDE DEF p
<1>8. p \in Seq(Entries) /\ Len(p) = Len(q) - 1
  BY <1>2, <1>4, <1>5, <1>7
<1>9. ASSUME NEW i \in 1..(Len(q) - 1) PROVE p[i] = q[IF i < at THEN i ELSE i + 1]
  <2>1. CASE i < at
    BY <2>1, <1>2, <1>4, <1>5, <1>7
  <2>2. CASE ~(i < at)
    <3>1. p[i] = right[i - (at - 1)]
      BY <2>2, <1>2, <1>4, <1>5, <1>7
    <3>2. i - (at - 1) \in 1..(Len(q) - at)
      BY <2>2, <1>2
    <3>3. right[i - (at - 1)] = q[i + 1]
      BY <3>2, <1>6, <1>2
    <3> QED BY <3>1, <3>3, <2>2
  <2> QED BY <2>1, <2>2
<1> QED BY <1>1, <1>8, <1>9 DEF p

\* Taking a sub out leaves the rest.
LEMMA WithoutIsSane ==
  ASSUME NEW h, NEW q, Sane(h, q), NEW s
  PROVE  /\ Sane(h, Without(q, s)) /\ Queued(Without(q, s)) \subseteq Queued(q) \ {s}
         /\ Launches(Without(q, s)) \subseteq Launches(q)
<1>1. CASE s \notin Queued(q)
  BY <1>1 DEF Without
<1>2. CASE s \in Queued(q)
  <2> DEFINE p == Without(q, s)
  <2>1. q \in Seq(Entries) /\ Len(q) \in Nat
    BY DEF Sane
  <2>2. PICK at \in DOMAIN q :
          /\ q[at].sub = s /\ p \in Seq(Entries) /\ Len(p) = Len(q) - 1
          /\ \A i \in 1..(Len(q) - 1) : p[i] = q[IF i < at THEN i ELSE i + 1]
    BY <1>2, <2>1, WithoutPlaces
  <2> DEFINE from(i) == IF i < at THEN i ELSE i + 1
  <2> HIDE DEF p
  <2>5. \A i \in DOMAIN p : from(i) \in DOMAIN q \ {at} /\ p[i] = q[from(i)]
    BY <2>1, <2>2
  <2>6. Queued(p) \subseteq Queued(q) \ {s}
    <3>1. \A i \in DOMAIN p : q[from(i)].sub # s
      BY <2>2, <2>5 DEF Sane
    <3> QED BY <3>1, <2>5 DEF Queued
  <2>7. \A i, j \in DOMAIN p : p[i].sub = p[j].sub => i = j
    <3> TAKE i, j \in DOMAIN p
    <3> HAVE p[i].sub = p[j].sub
    <3>1. from(i) = from(j)
      BY <2>5 DEF Sane
    <3> QED BY <3>1, <2>1, <2>2
  <2>10. Launches(p) \subseteq Launches(q)
    BY <2>5, Within
  <2> QED BY <2>2, <2>6, <2>7, <2>10 DEF Sane, p
<1> QED BY <1>1, <1>2

\* What leaves comes out whole.
LEMMA LeaveFollows ==
  ASSUME Sane(holder, queue), NEW s, NEW live, NEW merge
  PROVE  Follows(Leave(s, live, merge), holder, queue) /\ Follows(Unmoved, holder, queue)
<1>1. Follows(Unmoved, holder, queue)
  BY DEF Follows, Unmoved, Table, Queued, Launches
<1> DEFINE h == IF holder = s THEN None ELSE holder
           q == Without(queue, s)
<1>2. /\ Sane(holder, q) /\ Queued(q) \subseteq Queued(queue)
      /\ Launches(q) \subseteq Launches(queue)
  BY WithoutIsSane
<1>3. Sane(h, q) 
  <2>1. None \notin Queued(q)
    BY <1>2, QueuedAreSubs, SlotConstants DEF Sane
  <2> QED BY <1>2, <2>1 DEF Sane
<1>4. Follows(Advance(h, q, live, merge), h, q)
  BY <1>3, AdvanceFollows
<1>5. Follows(Advance(h, q, live, merge), holder, queue)
  BY <1>4, <1>2 DEF Follows
<1> QED BY <1>1, <1>5 DEF Leave
\* Settling a table that follows keeps the table, the starts and the nudges sane.
LEMMA SettleIsSane ==
  ASSUME Sane(holder, queue), due \subseteq Subs, nudge \subseteq Subs,
         NEW t, Follows(t, holder, queue), NEW R, NEW G, Settle(t, R, G)
  PROVE  /\ Sane(holder', queue') /\ due' \subseteq Subs /\ nudge' \subseteq Subs
         /\ {holder'} \cup Queued(queue') \subseteq Queued(queue) \cup {holder, None}
         /\ Launches(queue') \subseteq Launches(queue)
         /\ due' \subseteq Launches(queue) \cup (due \ G)
         /\ due \cap Launches(queue) = {} => due' \cap Launches(queue') = {}
<1>1. Launches(queue') \subseteq Queued(queue')
  BY QueuedAreSubs DEF Settle, Follows, Sane
<1> QED BY <1>1, QueuedAreSubs DEF Settle, Follows, Sane

\* The end of the queue is for a sub that is not in the table.
LEMMA AppendIsSane ==
  ASSUME NEW h, NEW q, Sane(h, q), NEW e \in Entries, e.sub # h, e.sub \notin Queued(q)
  PROVE  /\ Sane(h, Append(q, e)) /\ Queued(Append(q, e)) \subseteq Queued(q) \cup {e.sub}
         /\ Launches(Append(q, e)) \subseteq Launches(q) \cup {u \in {e.sub} : e.kind = "Launch"}
<1> DEFINE p == Append(q, e)
<1>1. /\ p \in Seq(Entries) /\ Len(p) = Len(q) + 1 /\ Len(q) \in Nat
      /\ \A i \in DOMAIN p : (i \in DOMAIN q /\ p[i] = q[i]) \/ (i = Len(q) + 1 /\ p[i] = e)
  BY DEF Sane
<1>2. Queued(p) \subseteq Queued(q) \cup {e.sub}
  BY <1>1 DEF Queued
<1>3. \A i \in DOMAIN q : q[i].sub # e.sub
  BY DEF Queued
<1>4. \A i, j \in DOMAIN p : p[i].sub = p[j].sub => i = j
  BY <1>1, <1>3 DEF Sane
<1>5. Launches(p) \subseteq Launches(q) \cup {u \in {e.sub} : e.kind = "Launch"}
  BY <1>1 DEF Launches
<1> QED BY <1>1, <1>2, <1>4, <1>5 DEF Sane

LEMMA RequestsIsSane ==
  ASSUME Sane(holder, queue), NEW s \in Subs, Requests(s)
  PROVE  /\ Sane(holder', queue')
         /\ {holder'} \cup Queued(queue') \subseteq Queued(queue) \cup {holder, None, s}
         /\ Launches(queue') \subseteq Launches(queue)
<1> DEFINE h == Heal(holder, Live)
<1>1. h \in {holder, None} /\ Sane(h, queue)
  <2>1. None \notin Queued(queue)
    BY QueuedAreSubs, SlotConstants DEF Sane
  <2> QED BY <2>1 DEF Heal, Sane
<1>2. /\ Entry(s, "Wake") \in Entries /\ Entry(s, "Wake").sub = s
      /\ Entry(s, "Wake").kind = "Wake"
  BY DEF Entry, Entries
<1>3. CASE h = s \/ s \in Queued(queue)
  BY <1>1, <1>3 DEF Requests
<1>4. CASE ~(h = s \/ s \in Queued(queue)) /\ h = None /\ queue = <<>>
  <2>1. holder' = s /\ queue' = <<>>
    BY <1>4 DEF Requests
  <2>2. Sane(s, <<>>) /\ Queued(<<>>) = {} /\ Launches(<<>>) = {}
    BY DEF Sane, Queued, Launches
  <2> QED BY <2>1, <2>2
<1>5. CASE ~(h = s \/ s \in Queued(queue)) /\ ~(h = None /\ queue = <<>>)
  <2>1. holder' = h /\ queue' = Append(queue, Entry(s, "Wake"))
    BY <1>5 DEF Requests
  <2> QED BY <2>1, <1>1, <1>2, <1>5, AppendIsSane
<1> QED BY <1>3, <1>4, <1>5
\* A place of every sub at most: the queue that is picked out of a sane one.
LEMMA PickedIsSane ==
  ASSUME NEW h, NEW q, Sane(h, q), NEW places \in SUBSET DOMAIN q,
         NEW f \in Enumerations(places)
  PROVE  LET p == [n \in DOMAIN f |-> q[f[n]]]
         IN /\ Sane(h, p) /\ Queued(p) \subseteq Queued(q)
            /\ Launches(p) \subseteq Launches(q)
<1> DEFINE p == [n \in DOMAIN f |-> q[f[n]]]
           c == Cardinality(places)
<1>1. c \in Nat
  <2>1. IsFiniteSet(1..Len(q)) /\ DOMAIN q = 1..Len(q)
    BY FS_Interval DEF Sane
  <2>2. IsFiniteSet(places)
    BY <2>1, FS_Subset
  <2> QED BY <2>2, FS_CardinalityType
<1> HIDE DEF c
<1>2. /\ f \in [1..c -> places] /\ DOMAIN f = 1..c
      /\ \A m, n \in DOMAIN f : m < n => f[m] < f[n]
  BY DEF Enumerations, c
<1>3. \A n \in 1..c : f[n] \in DOMAIN q /\ q[f[n]] \in Entries
  BY <1>2 DEF Sane
<1>4. /\ p \in Seq(Entries) /\ DOMAIN p = 1..c
      /\ \A n \in 1..c : p[n] = q[f[n]]
  <2>1. p = [n \in 1..c |-> q[f[n]]]
    BY <1>2
  <2>2. p \in [1..c -> Entries]
    BY <2>1, <1>3
  <2>3. p \in Seq(Entries)
    BY <2>2, <1>1
  <2> QED BY <2>1, <2>3
<1> HIDE DEF p
<1>5. Queued(p) \subseteq Queued(q) /\ Launches(p) \subseteq Launches(q)
  BY <1>3, <1>4, Within
<1>6. \A m, n \in DOMAIN p : p[m].sub = p[n].sub => m = n
  <2> TAKE m, n \in DOMAIN p
  <2> HAVE p[m].sub = p[n].sub
  <2>1. f[m] = f[n]
    BY <1>3, <1>4 DEF Sane
  <2>2. m \in Nat /\ n \in Nat /\ f[m] \in Nat /\ f[n] \in Nat
    BY <1>3, <1>4, <1>1 DEF Sane
  <2> QED BY <2>1, <2>2, <1>2, <1>4
<1>7. Sane(h, p)
  BY <1>4, <1>5, <1>6 DEF Sane
<1> QED BY <1>5, <1>7 DEF p

\* A sweep leaves a sane table.
LEMMA SweepIsSane ==
  ASSUME Sane(holder, queue), due \subseteq Subs, nudge \subseteq Subs,
         NEW merge, Sweep(merge)
  PROVE  /\ Sane(holder', queue') /\ due' \subseteq Subs /\ nudge' \subseteq Subs
         /\ {holder'} \cup Queued(queue') \subseteq Queued(queue) \cup {holder, None}
         /\ Launches(queue') \subseteq Launches(queue)
         /\ due' \subseteq Launches(queue) \cup due
         /\ due \cap Launches(queue) = {} => due' \cap Launches(queue') = {}
<1>1. CASE UNCHANGED <<holder, queue, due, nudge>>
  BY <1>1
<1>2. CASE ~UNCHANGED <<holder, queue, due, nudge>>
  <2> DEFINE places == {i \in DOMAIN queue : queue[i].sub \in Live}
             recipes == held \ (Launches(queue) \ Live)
  <2>1. PICK f \in Enumerations(places) :
          Settle(Advance(holder, [n \in DOMAIN f |-> queue[f[n]]], Live, merge), recipes, {})
    BY <1>2, Zenon DEF Sweep
  <2> DEFINE p == [n \in DOMAIN f |-> queue[f[n]]]
             t == Advance(holder, p, Live, merge)
  <2>2. /\ Sane(holder, p) /\ Queued(p) \subseteq Queued(queue)
        /\ Launches(p) \subseteq Launches(queue)
    BY PickedIsSane, places \in SUBSET DOMAIN queue
  <2> HIDE DEF p, recipes
  <2>3. Follows(t, holder, p)
    BY <2>2, AdvanceFollows
  <2>4. Follows(t, holder, queue)
    BY <2>2, <2>3 DEF Follows
  <2>5. Settle(t, recipes, {})
    BY <2>1 DEF p
  <2> HIDE DEF t
  <2> QED BY <2>4, <2>5, SettleIsSane
<1> QED BY <1>1, <1>2
\* The queue of a restart: one entry for each recipe of a live sub.
LEMMA RestoredIsSane ==
  ASSUME NEW S \in SUBSET Subs, NEW order \in SetToSeqs(S)
  PROVE  LET q == [i \in DOMAIN order |-> Entry(order[i], "Launch")]
         IN Sane(None, q) /\ Queued(q) \subseteq S
<1> DEFINE q == [i \in DOMAIN order |-> Entry(order[i], "Launch")]
           c == Cardinality(S)
<1>1. c \in Nat
  BY FS_Subset, FS_CardinalityType, SlotConstants
<1> HIDE DEF c
<1>2. /\ order \in [1..c -> S] /\ DOMAIN order = 1..c
      /\ \A i, j \in 1..c : i # j => order[i] # order[j]
  BY DEF SetToSeqs, c
<1>3. \A i \in 1..c : order[i] \in S /\ Entry(order[i], "Launch") \in Entries
                        /\ Entry(order[i], "Launch").sub = order[i]
  BY <1>2 DEF Entry, Entries
<1>4. q \in Seq(Entries) /\ DOMAIN q = 1..c /\ \A i \in 1..c : q[i] = Entry(order[i], "Launch")
  <2>1. q = [i \in 1..c |-> Entry(order[i], "Launch")]
    BY <1>2
  <2>2. q \in [1..c -> Entries]
    BY <2>1, <1>3
  <2>3. q \in Seq(Entries)
    BY <2>2, <1>1
  <2> QED BY <2>1, <2>3
<1> HIDE DEF q
<1>5. Queued(q) \subseteq S
  BY <1>3, <1>4 DEF Queued
<1>6. \A i, j \in DOMAIN q : q[i].sub = q[j].sub => i = j
  BY <1>2, <1>3, <1>4
<1>7. Sane(None, q)
  BY <1>4, <1>5, <1>6, SlotConstants DEF Sane
<1> QED BY <1>5, <1>7 DEF q

\* What a restart queues and starts has a recipe, and a live row.
LEMMA RestartFollows ==
  ASSUME held \subseteq Subs, Restart
  PROVE  /\ Sane(holder', queue') /\ due' \subseteq Subs
         /\ {holder'} \cup Queued(queue') \subseteq Live' \cup {None}
         /\ Launches(queue') \cup due' \subseteq held /\ due' \cap Launches(queue') = {}
<1> DEFINE S == held \cap Live'
           q(order) == [i \in DOMAIN order |-> Entry(order[i], "Launch")]
           t(order) == Advance(None, q(order), Live', FALSE)
<1>1. PICK order \in SetToSeqs(S) :
        /\ holder' = t(order).holder /\ queue' = t(order).queue
        /\ due' = Launches(t(order).start)
  BY Zenon DEF Restart, Live
<1>2. Sane(None, q(order)) /\ Queued(q(order)) \subseteq S
  BY RestoredIsSane, S \in SUBSET Subs
<1> HIDE DEF q
<1>3. Follows(t(order), None, q(order))
  BY <1>2, AdvanceFollows
<1> HIDE DEF t
<1>4. Launches(queue') \subseteq Queued(queue') /\ Launches(q(order)) \subseteq Queued(q(order))
  BY <1>1, <1>2, <1>3, QueuedAreSubs DEF Follows, Sane
<1> QED BY <1>1, <1>2, <1>3, <1>4 DEF Follows

-------------------------------------------------------------------------------
(* The table and the types, step by step.                                   *)

\* A sub whose spawn_chat call has not been made is nowhere.
NewIsNowhere ==
  \A s \in Subs : call[s] = "new" => s # holder /\ s \notin Queued(queue) /\ row[s] = "none"

Placed == Sane(holder, queue) /\ due \subseteq Subs /\ nudge \subseteq Subs /\ NewIsNowhere

LEMMA PlacedInit == Init => Placed
BY SlotConstants DEF Init, Placed, Sane, NewIsNowhere, Queued

\* Who the table holds was there before, or is s; nobody becomes new.
LEMMA NowhereStays ==
  ASSUME NewIsNowhere, NEW S \in SUBSET Subs,
         {holder'} \cup Queued(queue') \subseteq Queued(queue) \cup {holder, None} \cup S,
         \A s \in Subs : call'[s] = "new" =>
            call[s] = "new" /\ s \notin S /\ row'[s] = row[s]
  PROVE  NewIsNowhere'
BY SlotConstants DEF NewIsNowhere

LEMMA PlacedStep == Life /\ Placed /\ [Next]_vars => Placed'
<1> SUFFICES ASSUME Life, Placed, [Next]_vars PROVE Placed'
  OBVIOUS
<1> USE DEF Placed, Life, LifeFlags
<1>1. ASSUME NEW s \in Subs, DecideSpawn(s) PROVE Placed'
  <2> DEFINE h == Heal(holder, Live)
  <2>1. s \notin Queued(queue) /\ s # holder /\ s # None /\ call[s] = "new"
    BY <1>1, SlotConstants DEF DecideSpawn, NewIsNowhere
  <2>2. h \in {holder, None} /\ Sane(h, queue)
    <3>1. None \notin Queued(queue)
      BY QueuedAreSubs, SlotConstants DEF Sane
    <3> QED BY <3>1 DEF Heal, Sane
  <2>3. Entry(s, "Launch") \in Entries /\ Entry(s, "Launch").sub = s
    BY DEF Entry, Entries
  <2>4. Sane(s, <<>>) /\ Queued(<<>>) = {}
    BY DEF Sane, Queued
  <2>5. Sane(h, Append(queue, Entry(s, "Launch")))
        /\ Queued(Append(queue, Entry(s, "Launch"))) \subseteq Queued(queue) \cup {s}
    BY <2>1, <2>2, <2>3, AppendIsSane
  <2>6. \/ holder' = s /\ queue = <<>> /\ queue' = queue
        \/ holder' = h /\ queue' = Append(queue, Entry(s, "Launch"))
    BY <1>1 DEF DecideSpawn
  <2>7. Sane(holder', queue')
        /\ {holder'} \cup Queued(queue') \subseteq Queued(queue) \cup {holder, None} \cup {s}
    BY <2>2, <2>4, <2>5, <2>6
  <2>8. UNCHANGED <<due, nudge, row>> /\ \A u \in Subs : call'[u] = "new" => call[u] = "new" /\ u # s
    BY <1>1 DEF DecideSpawn, rows
  <2>9. NewIsNowhere'
    BY <2>7, <2>8, SlotConstants DEF NewIsNowhere
  <2> QED BY <2>7, <2>8, <2>9
<1>2. ASSUME NEW s \in Subs, SpawnUp(s) PROVE Placed'
  BY <1>2 DEF SpawnUp, rows, process, tasks, slot, history, NewIsNowhere
<1>3. ASSUME NEW s \in Subs, MarkSub(s) PROVE Placed'
  BY <1>3 DEF MarkSub, rows, process, tasks, slot, history, NewIsNowhere
<1>4. ASSUME NEW s \in Subs, SpawnSend(s) PROVE Placed'
  BY <1>4 DEF SpawnSend, rows, process, tasks, slot, history, NewIsNowhere
<1>5. ASSUME NEW s \in Subs, Register(s) PROVE Placed'
  BY <1>5 DEF Register, rows, process, tasks, slot, history, NewIsNowhere
<1>6. ASSUME NEW s \in Subs, StoreRecipe(s) PROVE Placed'
  BY <1>6 DEF StoreRecipe, rows, process, tasks, slot, history, NewIsNowhere
<1>7. ASSUME NEW s \in Subs, TryAgain(s) PROVE Placed'
  BY <1>7 DEF TryAgain, rows, process, tasks, slot, history, NewIsNowhere
<1>8. ASSUME NEW s \in Subs, SkipCard(s) PROVE Placed'
  BY <1>8 DEF SkipCard, rows, process, tasks, slot, history, NewIsNowhere
<1>9. ASSUME NEW s \in Subs, LaunchUp(s) \/ TakesRecipe(s) PROVE Placed'
  BY <1>9 DEF LaunchUp, TakesRecipe, rows, process, tasks, slot, history, NewIsNowhere
<1>10. ASSUME NEW s \in Subs, LaunchSend(s) PROVE Placed'
  BY <1>10 DEF LaunchSend, rows, process, tasks, slot, history, NewIsNowhere
<1>11. ASSUME NEW s \in Subs, EditLands(s) PROVE Placed'
  BY <1>11 DEF EditLands, rows, process, tasks, slot, history, NewIsNowhere
<1>12. ASSUME NEW s \in Subs, Commit(s) PROVE Placed'
  BY <1>12 DEF Commit, rows, process, tasks, slot, history, NewIsNowhere
<1>13. ASSUME NEW s \in Subs, AskJoe(s) PROVE Placed'
  BY <1>13 DEF AskJoe, rows, process, tasks, slot, history, NewIsNowhere
<1>14. ASSUME NEW s \in Subs, AskReadsGit(s) PROVE Placed'
  BY <1>14 DEF AskReadsGit, rows, process, tasks, slot, history, NewIsNowhere
<1>15. ASSUME NEW s \in Subs, RequestFinish(s) PROVE Placed'
  BY <1>15 DEF RequestFinish, rows, process, tasks, slot, history, NewIsNowhere
<1>16. ASSUME NEW s \in Subs, ContinueUp(s) PROVE Placed'
  BY <1>16 DEF ContinueUp, rows, process, tasks, slot, history, NewIsNowhere
<1>17. ASSUME NEW s \in Subs, ContinueFails(s) PROVE Placed'
  BY <1>17 DEF ContinueFails, rows, process, tasks, slot, history, NewIsNowhere
<1>18. ASSUME NEW s \in Subs, Continue(s) PROVE Placed'
  BY <1>18 DEF Continue, rows, process, tasks, slot, history, NewIsNowhere
<1>19. ASSUME NEW s \in Subs, SeesChild(s) PROVE Placed'
  BY <1>19 DEF SeesChild, rows, process, tasks, slot, history, NewIsNowhere
<1>20. ASSUME NEW s \in Subs, Nudge(s) PROVE Placed'
  BY <1>20 DEF Nudge, rows, process, tasks, slot, history, NewIsNowhere
<1>21. ASSUME NEW s \in Subs, NudgeAgain(s) PROVE Placed'
  BY <1>21 DEF NudgeAgain, rows, process, tasks, slot, history, NewIsNowhere
<1>22. ASSUME NEW s \in Subs, EndRow(s) PROVE Placed'
  BY <1>22 DEF EndRow, Stop, rows, process, tasks, slot, history, NewIsNowhere
<1>23. ASSUME NEW s \in Subs, SpawnFails(s) PROVE Placed'
  <2> DEFINE t == Leave(s, Live, merging)
  <2>1. Follows(t, holder, queue)
    BY LeaveFollows
  <2>2. \E R, G : Settle(t, R, G)
    BY <1>23 DEF SpawnFails, Release
  <2> HIDE DEF t
  <2>3. /\ Sane(holder', queue') /\ due' \subseteq Subs /\ nudge' \subseteq Subs
        /\ {holder'} \cup Queued(queue') \subseteq Queued(queue) \cup {holder, None}
    BY <2>1, <2>2, SettleIsSane
  <2>4. \A u \in Subs : call'[u] = "new" => call[u] = "new" /\ row'[u] = row[u]
    BY <1>23 DEF SpawnFails, rows
  <2>5. NewIsNowhere'
    BY <2>3, <2>4, NowhereStays, {} \in SUBSET Subs
  <2> QED BY <2>3, <2>5
<1>24. ASSUME NEW s \in Subs, SpawnSendFails(s) PROVE Placed'
  <2> DEFINE t == Leave(s, Alive(row', finished), merging)
  <2>1. Follows(t, holder, queue)
    BY LeaveFollows
  <2>2. \E R, G : Settle(t, R, G)
    BY <1>24 DEF SpawnSendFails, Release
  <2> HIDE DEF t
  <2>3. /\ Sane(holder', queue') /\ due' \subseteq Subs /\ nudge' \subseteq Subs
        /\ {holder'} \cup Queued(queue') \subseteq Queued(queue) \cup {holder, None}
    BY <2>1, <2>2, SettleIsSane
  <2>4. \A u \in Subs : call'[u] = "new" => call[u] = "new" /\ row'[u] = row[u]
    BY <1>24 DEF SpawnSendFails
  <2>5. NewIsNowhere'
    BY <2>3, <2>4, NowhereStays, {} \in SUBSET Subs
  <2> QED BY <2>3, <2>5
<1>25. ASSUME NEW s \in Subs, RegisterFails(s) PROVE Placed'
  <2> DEFINE t == Leave(s, Live, merging)
  <2>1. Follows(t, holder, queue)
    BY LeaveFollows
  <2>2. \E R, G : Settle(t, R, G)
    BY <1>25 DEF RegisterFails
  <2> HIDE DEF t
  <2>3. /\ Sane(holder', queue') /\ due' \subseteq Subs /\ nudge' \subseteq Subs
        /\ {holder'} \cup Queued(queue') \subseteq Queued(queue) \cup {holder, None}
    BY <2>1, <2>2, SettleIsSane
  <2>4. \A u \in Subs : call'[u] = "new" => call[u] = "new" /\ row'[u] = row[u]
    BY <1>25 DEF RegisterFails, rows
  <2>5. NewIsNowhere'
    BY <2>3, <2>4, NowhereStays, {} \in SUBSET Subs
  <2> QED BY <2>3, <2>5
<1>26. ASSUME NEW s \in Subs, AskReleases(s) PROVE Placed'
  <2> DEFINE t == Leave(s, Live, merging)
  <2>1. Follows(t, holder, queue)
    BY LeaveFollows
  <2>2. \E R, G : Settle(t, R, G)
    BY <1>26 DEF AskReleases, Release
  <2> HIDE DEF t
  <2>3. /\ Sane(holder', queue') /\ due' \subseteq Subs /\ nudge' \subseteq Subs
        /\ {holder'} \cup Queued(queue') \subseteq Queued(queue) \cup {holder, None}
    BY <2>1, <2>2, SettleIsSane
  <2>4. \A u \in Subs : call'[u] = "new" => call[u] = "new" /\ row'[u] = row[u]
    BY <1>26 DEF AskReleases, rows
  <2>5. NewIsNowhere'
    BY <2>3, <2>4, NowhereStays, {} \in SUBSET Subs
  <2> QED BY <2>3, <2>5
<1>27. ASSUME NEW s \in Subs, EndSub(s) PROVE Placed'
  <2> DEFINE t == Leave(s, Alive(row', finished), merging)
  <2>1. Follows(t, holder, queue)
    BY LeaveFollows
  <2>2. \E R, G : Settle(t, R, G)
    BY <1>27 DEF EndSub
  <2> HIDE DEF t
  <2>3. /\ Sane(holder', queue') /\ due' \subseteq Subs /\ nudge' \subseteq Subs
        /\ {holder'} \cup Queued(queue') \subseteq Queued(queue) \cup {holder, None}
    BY <2>1, <2>2, SettleIsSane
  <2>4. \A u \in Subs : call'[u] = "new" => call[u] = "new" /\ row'[u] = row[u]
    BY <1>27 DEF EndSub, Stop, NewIsNowhere
  <2>5. NewIsNowhere'
    BY <2>3, <2>4, NowhereStays, {} \in SUBSET Subs
  <2> QED BY <2>3, <2>5
<1>28. ASSUME NEW s \in Subs, Move(s) PROVE Placed'
  <2> DEFINE t == Leave(s, Alive(row', finished'), merging)
  <2>1. Follows(t, holder, queue)
    BY LeaveFollows
  <2>2. \E R, G : Settle(t, R, G)
    BY <1>28 DEF Move, Release
  <2> HIDE DEF t
  <2>3. /\ Sane(holder', queue') /\ due' \subseteq Subs /\ nudge' \subseteq Subs
        /\ {holder'} \cup Queued(queue') \subseteq Queued(queue) \cup {holder, None}
    BY <2>1, <2>2, SettleIsSane
  <2>4. \A u \in Subs : call'[u] = "new" => call[u] = "new" /\ row'[u] = row[u]
    BY <1>28 DEF Move, NewIsNowhere
  <2>5. NewIsNowhere'
    BY <2>3, <2>4, NowhereStays, {} \in SUBSET Subs
  <2> QED BY <2>3, <2>5
<1>29. ASSUME NEW s \in Subs, RunStart(s) PROVE Placed'
  <2>1. Follows(Leave(s, Live, merging), holder, queue) /\ Follows(Unmoved, holder, queue)
    BY LeaveFollows
  <2>2. \/ UNCHANGED <<holder, queue, nudge>> /\ due' \subseteq due
        \/ \E t \in {Leave(s, Live, merging), Unmoved} : \E R, G : Settle(t, R, G)
    BY <1>29 DEF RunStart, LaunchError
  <2>3. /\ Sane(holder', queue') /\ due' \subseteq Subs /\ nudge' \subseteq Subs
        /\ {holder'} \cup Queued(queue') \subseteq Queued(queue) \cup {holder, None}
    BY <2>1, <2>2, SettleIsSane
  <2>4. UNCHANGED <<call, row>>
    BY <1>29 DEF RunStart, rows
  <2>5. NewIsNowhere'
    BY <2>3, <2>4, NowhereStays, {} \in SUBSET Subs
  <2> QED BY <2>3, <2>5
<1>30. ASSUME NEW s \in Subs, LaunchFails(s) PROVE Placed'
  <2>1. Follows(Leave(s, Live, merging), holder, queue) /\ Follows(Unmoved, holder, queue)
    BY LeaveFollows
  <2>2. \/ UNCHANGED <<holder, queue, nudge>> /\ due' \subseteq due
        \/ \E t \in {Leave(s, Live, merging), Unmoved} : \E R, G : Settle(t, R, G)
    BY <1>30 DEF LaunchFails, LaunchError
  <2>3. /\ Sane(holder', queue') /\ due' \subseteq Subs /\ nudge' \subseteq Subs
        /\ {holder'} \cup Queued(queue') \subseteq Queued(queue) \cup {holder, None}
    BY <2>1, <2>2, SettleIsSane
  <2>4. UNCHANGED <<call, row>>
    BY <1>30 DEF LaunchFails, rows
  <2>5. NewIsNowhere'
    BY <2>3, <2>4, NowhereStays, {} \in SUBSET Subs
  <2> QED BY <2>3, <2>5
<1>31. ASSUME NEW s \in Subs, LaunchSendFails(s) PROVE Placed'
  <2>1. Follows(Leave(s, Live, merging), holder, queue) /\ Follows(Unmoved, holder, queue)
    BY LeaveFollows
  <2>2. \/ UNCHANGED <<holder, queue, nudge>> /\ due' \subseteq due
        \/ \E t \in {Leave(s, Live, merging), Unmoved} : \E R, G : Settle(t, R, G)
    BY <1>31 DEF LaunchSendFails, LaunchError
  <2>3. /\ Sane(holder', queue') /\ due' \subseteq Subs /\ nudge' \subseteq Subs
        /\ {holder'} \cup Queued(queue') \subseteq Queued(queue) \cup {holder, None}
    BY <2>1, <2>2, SettleIsSane
  <2>4. UNCHANGED <<call, row>>
    BY <1>31 DEF LaunchSendFails, rows
  <2>5. NewIsNowhere'
    BY <2>3, <2>4, NowhereStays, {} \in SUBSET Subs
  <2> QED BY <2>3, <2>5
<1>32. ASSUME NEW s \in Subs, CheckWrite(s) PROVE Placed'
  <2>1. /\ Sane(holder', queue')
        /\ {holder'} \cup Queued(queue') \subseteq Queued(queue) \cup {holder, None, s}
    BY <1>32, RequestsIsSane DEF CheckWrite
  <2>2. UNCHANGED <<call, row, due, nudge>> /\ row[s] # "none"
    BY <1>32 DEF CheckWrite, rows, tasks
  <2>3. NewIsNowhere'
    BY <2>1, <2>2, SlotConstants DEF NewIsNowhere
  <2> QED BY <2>1, <2>2, <2>3
<1>33. ASSUME NEW s \in Subs, AskToWrite(s) PROVE Placed'
  <2>1. /\ Sane(holder', queue')
        /\ {holder'} \cup Queued(queue') \subseteq Queued(queue) \cup {holder, None, s}
    BY <1>33, RequestsIsSane DEF AskToWrite
  <2>2. UNCHANGED <<call, row, due, nudge>> /\ row[s] # "none"
    BY <1>33 DEF AskToWrite, rows, tasks
  <2>3. NewIsNowhere'
    BY <2>1, <2>2, SlotConstants DEF NewIsNowhere
  <2> QED BY <2>1, <2>2, <2>3
<1>34. ASSUME NEW s \in Subs, TurnEnds(s) PROVE Placed'
  <2>1. Follows(Leave(s, Live, merging), holder, queue)
        /\ Follows(Leave(s, Alive(row, finished'), merging), holder, queue)
    BY LeaveFollows
  <2>2. \/ UNCHANGED <<holder, queue, due>> /\ nudge' \subseteq nudge \cup {s}
        \/ \E t \in {Leave(s, Live, merging), Leave(s, Alive(row, finished'), merging)} : \E R, G :
             Settle(t, R, G)
    BY <1>34 DEF TurnEnds, Finish, Release
  <2>3. /\ Sane(holder', queue') /\ due' \subseteq Subs /\ nudge' \subseteq Subs
        /\ {holder'} \cup Queued(queue') \subseteq Queued(queue) \cup {holder, None}
    BY <2>1, <2>2, SettleIsSane
  <2>4. UNCHANGED <<call, row>>
    BY <1>34 DEF TurnEnds
  <2>5. NewIsNowhere'
    BY <2>3, <2>4, NowhereStays, {} \in SUBSET Subs
  <2> QED BY <2>3, <2>5
<1>35. ASSUME NEW s \in Subs, Dies(s) PROVE Placed'
  <2>1. Follows(Leave(s, Live, merging), holder, queue)
        /\ Follows(Leave(s, Alive(row, finished'), merging), holder, queue)
    BY LeaveFollows
  <2>2. \/ UNCHANGED <<holder, queue, due>> /\ nudge' \subseteq nudge \cup {s}
        \/ \E t \in {Leave(s, Live, merging), Leave(s, Alive(row, finished'), merging)} : \E R, G :
             Settle(t, R, G)
    BY <1>35 DEF Dies, Finish, Release
  <2>3. /\ Sane(holder', queue') /\ due' \subseteq Subs /\ nudge' \subseteq Subs
        /\ {holder'} \cup Queued(queue') \subseteq Queued(queue) \cup {holder, None}
    BY <2>1, <2>2, SettleIsSane
  <2>4. UNCHANGED <<call, row>>
    BY <1>35 DEF Dies
  <2>5. NewIsNowhere'
    BY <2>3, <2>4, NowhereStays, {} \in SUBSET Subs
  <2> QED BY <2>3, <2>5
<1>36. ASSUME SlotSweep PROVE Placed'
  <2>1. /\ Sane(holder', queue') /\ due' \subseteq Subs /\ nudge' \subseteq Subs
        /\ {holder'} \cup Queued(queue') \subseteq Queued(queue) \cup {holder, None}
    BY <1>36, SweepIsSane DEF SlotSweep
  <2>2. UNCHANGED <<call, row>>
    BY <1>36 DEF SlotSweep, rows
  <2>3. NewIsNowhere'
    BY <2>1, <2>2, NowhereStays, {} \in SUBSET Subs
  <2> QED BY <2>1, <2>3
<1>37. ASSUME MergeEnds PROVE Placed'
  <2>1. /\ Sane(holder', queue') /\ due' \subseteq Subs /\ nudge' \subseteq Subs
        /\ {holder'} \cup Queued(queue') \subseteq Queued(queue) \cup {holder, None}
    BY <1>37, SweepIsSane DEF MergeEnds
  <2>2. UNCHANGED <<call, row>>
    BY <1>37 DEF MergeEnds, rows
  <2>3. NewIsNowhere'
    BY <2>1, <2>2, NowhereStays, {} \in SUBSET Subs
  <2> QED BY <2>1, <2>3
<1>38. ASSUME MergeStarts PROVE Placed'
  BY <1>38 DEF MergeStarts, rows, process, tasks, slot, history, NewIsNowhere
<1>39. ASSUME HeldSweep PROVE Placed'
  BY <1>39 DEF HeldSweep, rows, process, tasks, slot, history, NewIsNowhere
<1>40. ASSUME ClaimExpires PROVE Placed'
  BY <1>40 DEF ClaimExpires, rows, process, tasks, slot, history, NewIsNowhere
<1>41. ASSUME Restart PROVE Placed'
  <2>1. /\ Sane(holder', queue') /\ due' \subseteq Subs
        /\ {holder'} \cup Queued(queue') \subseteq Live' \cup {None}
    BY <1>41, RestartFollows
  <2>2. \A s \in Subs : call'[s] = "new" => call[s] = "new" /\ row'[s] = row[s]
    BY <1>41 DEF Restart
  <2>3. \A s \in Live' : row'[s] = "sub"
    BY DEF Live, Alive
  <2>4. NewIsNowhere'
    BY <2>1, <2>2, <2>3, SlotConstants DEF NewIsNowhere
  <2> QED BY <1>41, <2>1, <2>4 DEF Restart
<1>42. ASSUME UNCHANGED vars PROVE Placed'
  BY <1>42 DEF vars, slot, rows, tasks, NewIsNowhere
<1> QED BY <1>1, <1>2, <1>3, <1>4, <1>5, <1>6, <1>7, <1>8, <1>9, <1>10, <1>11, <1>12,
         <1>13, <1>14, <1>15, <1>16, <1>17, <1>18, <1>19, <1>20, <1>21, <1>22, <1>23,
         <1>24, <1>25, <1>26, <1>27, <1>28, <1>29, <1>30, <1>31, <1>32, <1>33, <1>34,
         <1>35, <1>36, <1>37, <1>38, <1>39, <1>40, <1>41, <1>42
     DEF Next
\* The types that are not told by Life and Placed.
RestOK ==
  /\ fresh \in BOOLEAN /\ merging \in BOOLEAN
  /\ finished \subseteq Subs /\ turn \subseteq Subs /\ allowed \subseteq Subs
  /\ dirty \subseteq Subs /\ pend \subseteq Subs /\ carded \subseteq Subs
  /\ byCard \subseteq Subs /\ fallen \subseteq Subs
  /\ ask \in [Subs -> {"no", "looked", "clean"}] /\ card \in [Subs -> {"no", "open", "left"}]
  /\ used \in [Costs -> Nat]

LEMMA RestStep == RestOK /\ [Next]_vars => RestOK'
<1> SUFFICES ASSUME RestOK, [Next]_vars PROVE RestOK'
  OBVIOUS
<1> USE DEF RestOK, rows, process, tasks, slot, history, Spend, SendFault, Costs
<1>1. ASSUME NEW s \in Subs, DecideSpawn(s) PROVE RestOK'
  BY <1>1 DEF DecideSpawn
<1>2. ASSUME NEW s \in Subs, SpawnUp(s) PROVE RestOK'
  BY <1>2 DEF SpawnUp
<1>3. ASSUME NEW s \in Subs, SpawnFails(s) PROVE RestOK'
  BY <1>3 DEF SpawnFails
<1>4. ASSUME NEW s \in Subs, MarkSub(s) PROVE RestOK'
  BY <1>4 DEF MarkSub
<1>5. ASSUME NEW s \in Subs, SpawnSend(s) PROVE RestOK'
  BY <1>5 DEF SpawnSend
<1>6. ASSUME NEW s \in Subs, SpawnSendFails(s) PROVE RestOK'
  BY <1>6 DEF SpawnSendFails
<1>7. ASSUME NEW s \in Subs, Register(s) PROVE RestOK'
  BY <1>7 DEF Register
<1>8. ASSUME NEW s \in Subs, StoreRecipe(s) PROVE RestOK'
  BY <1>8 DEF StoreRecipe
<1>9. ASSUME NEW s \in Subs, RegisterFails(s) PROVE RestOK'
  BY <1>9 DEF RegisterFails
<1>10. ASSUME NEW s \in Subs, RunStart(s) PROVE RestOK'
  BY <1>10 DEF RunStart, LaunchError
<1>11. ASSUME NEW s \in Subs, TryAgain(s) PROVE RestOK'
  BY <1>11 DEF TryAgain
<1>12. ASSUME NEW s \in Subs, SkipCard(s) PROVE RestOK'
  BY <1>12 DEF SkipCard
<1>13. ASSUME NEW s \in Subs, LaunchUp(s) \/ TakesRecipe(s) PROVE RestOK'
  BY <1>13 DEF LaunchUp, TakesRecipe
<1>14. ASSUME NEW s \in Subs, LaunchFails(s) PROVE RestOK'
  BY <1>14 DEF LaunchFails, LaunchError
<1>15. ASSUME NEW s \in Subs, LaunchSend(s) PROVE RestOK'
  BY <1>15 DEF LaunchSend
<1>16. ASSUME NEW s \in Subs, LaunchSendFails(s) PROVE RestOK'
  BY <1>16 DEF LaunchSendFails, LaunchError
<1>17. ASSUME NEW s \in Subs, Nudge(s) PROVE RestOK'
  BY <1>17 DEF Nudge
<1>18. ASSUME NEW s \in Subs, CheckWrite(s) PROVE RestOK'
  BY <1>18 DEF CheckWrite
<1>19. ASSUME NEW s \in Subs, AskToWrite(s) PROVE RestOK'
  BY <1>19 DEF AskToWrite
<1>20. ASSUME NEW s \in Subs, EditLands(s) PROVE RestOK'
  BY <1>20 DEF EditLands
<1>21. ASSUME NEW s \in Subs, Commit(s) PROVE RestOK'
  BY <1>21 DEF Commit
<1>22. ASSUME NEW s \in Subs, AskJoe(s) PROVE RestOK'
  BY <1>22 DEF AskJoe
<1>23. ASSUME NEW s \in Subs, AskReadsGit(s) PROVE RestOK'
  BY <1>23 DEF AskReadsGit
<1>24. ASSUME NEW s \in Subs, AskReleases(s) PROVE RestOK'
  BY <1>24 DEF AskReleases
<1>25. ASSUME NEW s \in Subs, RequestFinish(s) PROVE RestOK'
  BY <1>25 DEF RequestFinish
<1>26. ASSUME NEW s \in Subs, TurnEnds(s) PROVE RestOK'
  BY <1>26 DEF TurnEnds, Finish
<1>27. ASSUME NEW s \in Subs, Dies(s) PROVE RestOK'
  BY <1>27 DEF Dies, Finish
<1>28. ASSUME NEW s \in Subs, Continue(s) PROVE RestOK'
  BY <1>28 DEF Continue
<1>29. ASSUME NEW s \in Subs, ContinueUp(s) PROVE RestOK'
  BY <1>29 DEF ContinueUp
<1>30. ASSUME NEW s \in Subs, ContinueFails(s) PROVE RestOK'
  BY <1>30 DEF ContinueFails
<1>31. ASSUME NEW s \in Subs, NudgeAgain(s) PROVE RestOK'
  BY <1>31 DEF NudgeAgain
<1>32. ASSUME NEW s \in Subs, EndSub(s) PROVE RestOK'
  BY <1>32 DEF EndSub, Stop
<1>33. ASSUME NEW s \in Subs, EndRow(s) PROVE RestOK'
  BY <1>33 DEF EndRow, Stop
<1>34. ASSUME NEW s \in Subs, Move(s) PROVE RestOK'
  BY <1>34 DEF Move
<1>35. ASSUME NEW s \in Subs, SeesChild(s) PROVE RestOK'
  BY <1>35 DEF SeesChild
<1>36. ASSUME MergeStarts PROVE RestOK'
  BY <1>36 DEF MergeStarts
<1>37. ASSUME SlotSweep PROVE RestOK'
  BY <1>37 DEF SlotSweep
<1>38. ASSUME MergeEnds PROVE RestOK'
  BY <1>38 DEF MergeEnds
<1>39. ASSUME HeldSweep PROVE RestOK'
  BY <1>39 DEF HeldSweep
<1>40. ASSUME ClaimExpires PROVE RestOK'
  BY <1>40 DEF ClaimExpires
<1>41. ASSUME Restart PROVE RestOK'
  <2>1. /\ fresh' = FALSE /\ merging' = FALSE /\ turn' = {} /\ allowed' = {} /\ pend' = {}
        /\ carded' = {} /\ byCard' = {} /\ fallen' = {} /\ dirty' = dirty
        /\ finished' = {s \in Subs : s \in finished \/ cont[s] = "fin"}
    BY <1>41 DEF Restart
  <2>2. /\ ask' = [s \in Subs |-> "no"] /\ card' = [s \in Subs |-> "no"]
        /\ used' = [used EXCEPT !["restarts"] = @ + 1]
    BY <1>41 DEF Restart
  <2>3. fresh' \in BOOLEAN /\ merging' \in BOOLEAN
    BY <2>1, Zenon
  <2>4. used' \in [Costs -> Nat]
    BY <2>2
  <2> QED BY <2>1, <2>2, <2>3, <2>4
<1>42. ASSUME UNCHANGED vars PROVE RestOK'
  BY <1>42 DEF vars
<1> QED BY <1>1, <1>2, <1>3, <1>4, <1>5, <1>6, <1>7, <1>8, <1>9, <1>10, <1>11, <1>12,
         <1>13, <1>14, <1>15, <1>16, <1>17, <1>18, <1>19, <1>20, <1>21, <1>22, <1>23,
         <1>24, <1>25, <1>26, <1>27, <1>28, <1>29, <1>30, <1>31, <1>32, <1>33, <1>34,
         <1>35, <1>36, <1>37, <1>38, <1>39, <1>40, <1>41, <1>42
     DEF Next

LEMMA TableAlways == Spec => [](Life /\ Placed /\ RestOK)
<1>1. Init => RestOK
  <2>1. Init => fresh \in BOOLEAN /\ merging \in BOOLEAN
    BY Zenon DEF Init
  <2>2. Init => ask \in [Subs -> {"no", "looked", "clean"}]
    BY DEF Init
  <2>3. Init => card \in [Subs -> {"no", "open", "left"}] /\ used \in [Costs -> Nat]
    BY DEF Init, Costs
  <2> QED BY <2>1, <2>2, <2>3 DEF Init, RestOK
<1>2. Life /\ Placed /\ RestOK /\ [Next]_vars => (Life /\ Placed /\ RestOK)'
  BY LifeStep, PlacedStep, RestStep
<1> QED BY <1>1, <1>2, LifeInit, PlacedInit, PTL DEF Spec

\* The types of Slot, Entry, the held set and the rows (writers.rs, held.rs).
THEOREM TypeCorrect == Spec => []TypeOK
<1>1. Life /\ Placed /\ RestOK => TypeOK
  BY DEF Life, LifeFlags, Placed, Sane, RestOK, TypeOK
<1> QED BY <1>1, TableAlways, PTL

\* A sub has one place in the slot, whatever asked for it (decide_spawn,
\* request_slot, advance_locked, leave, sweep, restore_inner).
THEOREM SlotDistinct == Spec => []SlotIsDistinct
<1>1. Placed => SlotIsDistinct
  BY DEF Placed, Sane, SlotIsDistinct
<1> QED BY <1>1, TableAlways, PTL

-------------------------------------------------------------------------------
(* Who waits to be launched.                                                *)

\* A Launch that is queued or due has not begun, and nobody else starts it.
LaunchesWait ==
  \A s \in Launches(queue) \cup due :
    /\ s \notin sent /\ launch[s] = "no" /\ card[s] = "no"
    /\ call[s] \in {"queued", "hold", "over"}

Waiting ==
  /\ LaunchesWait /\ due \cap Launches(queue) = {}
  /\ \A s \in Subs : card[s] # "no" => call[s] = "over"
  /\ byCard \subseteq Subs /\ \A s \in byCard : launch[s] # "no"

\* Who leaves is out of the table, and is not what the table starts.
LEMMA LeaveIsGone ==
  ASSUME Sane(holder, queue), NEW s \in Subs, NEW live, NEW merge
  PROVE  LET t == Leave(s, live, merge)
         IN s # t.holder /\ s \notin Queued(t.queue) /\ s \notin Queued(t.start)
<1> DEFINE h == IF holder = s THEN None ELSE holder
           q == Without(queue, s)
           t == Leave(s, live, merge)
<1>1. Sane(holder, q) /\ s \notin Queued(q) /\ s # h
  BY WithoutIsSane, SlotConstants
<1>2. Sane(h, q)
  <2>1. None \notin Queued(q)
    BY <1>1, QueuedAreSubs, SlotConstants DEF Sane
  <2> QED BY <1>1, <2>1 DEF Sane
<1>3. Follows(Advance(h, q, live, merge), h, q)
  BY <1>2, AdvanceFollows
<1>4. CASE t = Advance(h, q, live, merge)
  BY <1>1, <1>3, <1>4, SlotConstants DEF Follows
<1>5. CASE t = Unmoved /\ s # holder /\ s \notin Queued(queue)
  BY <1>5 DEF Unmoved, Table, Queued
<1> QED BY <1>4, <1>5 DEF Leave

LEMMA WaitingStep == Life /\ Placed /\ Waiting /\ [Next]_vars => Waiting'
<1> SUFFICES ASSUME Life, Placed, Waiting, [Next]_vars PROVE Waiting'
  OBVIOUS
<1> USE DEF Placed, Life, LifeFlags
<1>1. ASSUME NEW s \in Subs, DecideSpawn(s) PROVE Waiting'
  <2>1. s \notin Launches(queue) \cup due /\ s \notin sent /\ launch[s] = "no" /\ card[s] = "no"
    BY <1>1 DEF DecideSpawn, Waiting, LaunchesWait, StartsAreOver, SentIsOver
  <2>2. Launches(queue') \subseteq Launches(queue) \cup {s}
    <3>1. CASE queue' = queue
      BY <3>1
    <3>2. CASE queue' = Append(queue, Entry(s, "Launch"))
      <4>1. Entry(s, "Launch") \in Entries /\ Entry(s, "Launch").sub = s
        BY DEF Entry, Entries
      <4>2. s \notin Queued(queue) /\ s # holder
        BY <1>1 DEF DecideSpawn, NewIsNowhere
      <4> QED BY <3>2, <4>1, <4>2, AppendIsSane
    <3> QED BY <1>1, <3>1, <3>2 DEF DecideSpawn
  <2>3. \/ queue' = queue /\ call' = [call EXCEPT ![s] = "claimed"]
        \/ call' = [call EXCEPT ![s] = "queued"]
    BY <1>1 DEF DecideSpawn
  <2>4. UNCHANGED <<due, sent, launch, card, byCard>>
    BY <1>1 DEF DecideSpawn, history
  <2>5. call[s] = "new"
    BY <1>1 DEF DecideSpawn
  <2>6. CASE queue' = queue /\ call' = [call EXCEPT ![s] = "claimed"]
    BY <2>1, <2>4, <2>5, <2>6 DEF Waiting, LaunchesWait
  <2>7. CASE call' = [call EXCEPT ![s] = "queued"]
    <3>1. LaunchesWait'
      BY <2>1, <2>2, <2>4, <2>7 DEF Waiting, LaunchesWait
    <3>2. due' \cap Launches(queue') = {}
      BY <2>1, <2>2, <2>4 DEF Waiting
    <3> QED BY <2>4, <2>5, <2>7, <3>1, <3>2 DEF Waiting
  <2> QED BY <2>3, <2>6, <2>7
<1>2. ASSUME NEW s \in Subs, SpawnUp(s) PROVE Waiting'
  BY <1>2 DEF SpawnUp, Waiting, LaunchesWait, rows, process, tasks, slot, history
<1>3. ASSUME NEW s \in Subs, MarkSub(s) PROVE Waiting'
  BY <1>3 DEF MarkSub, Waiting, LaunchesWait, rows, process, tasks, slot, history
<1>4. ASSUME NEW s \in Subs, SpawnSend(s) PROVE Waiting'
  BY <1>4 DEF SpawnSend, Begin, Waiting, LaunchesWait, rows, process, tasks, slot, history
<1>5. ASSUME NEW s \in Subs, Register(s) PROVE Waiting'
  BY <1>5 DEF Register, Waiting, LaunchesWait, rows, process, tasks, slot, history
<1>6. ASSUME NEW s \in Subs, StoreRecipe(s) PROVE Waiting'
  BY <1>6 DEF StoreRecipe, Waiting, LaunchesWait, rows, process, tasks, slot, history
<1>7. ASSUME NEW s \in Subs, TryAgain(s) PROVE Waiting'
  BY <1>7 DEF TryAgain, MayStart, StartsAreOver, Waiting, LaunchesWait, rows, process, tasks, slot, history
<1>8. ASSUME NEW s \in Subs, SkipCard(s) PROVE Waiting'
  BY <1>8 DEF SkipCard, Waiting, LaunchesWait, rows, process, tasks, slot, history
<1>9. ASSUME NEW s \in Subs, LaunchUp(s) \/ TakesRecipe(s) PROVE Waiting'
  <2>1. CASE LaunchUp(s)
    BY <2>1 DEF LaunchUp, Waiting, LaunchesWait, rows, process, tasks, slot, history
  <2>2. CASE TakesRecipe(s)
    BY <2>2 DEF TakesRecipe, Waiting, LaunchesWait, rows, process, tasks, slot, history
  <2> QED BY <1>9, <2>1, <2>2
<1>10. ASSUME NEW s \in Subs, LaunchSend(s) PROVE Waiting'
  BY <1>10 DEF LaunchSend, Begin, Waiting, LaunchesWait, rows, process, tasks, slot, history
<1>11. ASSUME NEW s \in Subs, EditLands(s) PROVE Waiting'
  BY <1>11 DEF EditLands, Waiting, LaunchesWait, rows, process, tasks, slot, history
<1>12. ASSUME NEW s \in Subs, Commit(s) PROVE Waiting'
  BY <1>12 DEF Commit, Waiting, LaunchesWait, rows, process, tasks, slot, history
<1>13. ASSUME NEW s \in Subs, AskJoe(s) PROVE Waiting'
  BY <1>13 DEF AskJoe, Waiting, LaunchesWait, rows, process, tasks, slot, history
<1>14. ASSUME NEW s \in Subs, AskReadsGit(s) PROVE Waiting'
  BY <1>14 DEF AskReadsGit, Waiting, LaunchesWait, rows, process, tasks, slot, history
<1>15. ASSUME NEW s \in Subs, RequestFinish(s) PROVE Waiting'
  BY <1>15 DEF RequestFinish, Waiting, LaunchesWait, rows, process, tasks, slot, history
<1>16. ASSUME NEW s \in Subs, ContinueUp(s) PROVE Waiting'
  BY <1>16 DEF ContinueUp, Waiting, LaunchesWait, rows, process, tasks, slot, history
<1>17. ASSUME NEW s \in Subs, ContinueFails(s) PROVE Waiting'
  BY <1>17 DEF ContinueFails, Waiting, LaunchesWait, rows, process, tasks, slot, history
<1>18. ASSUME NEW s \in Subs, Continue(s) PROVE Waiting'
  BY <1>18 DEF Continue, Waiting, LaunchesWait, rows, process, tasks, slot, history
<1>19. ASSUME NEW s \in Subs, SeesChild(s) PROVE Waiting'
  BY <1>19 DEF SeesChild, Waiting, LaunchesWait, rows, process, tasks, slot, history
<1>20. ASSUME NEW s \in Subs, Nudge(s) PROVE Waiting'
  BY <1>20 DEF Nudge, Waiting, LaunchesWait, rows, process, tasks, slot, history
<1>21. ASSUME NEW s \in Subs, NudgeAgain(s) PROVE Waiting'
  BY <1>21 DEF NudgeAgain, Waiting, LaunchesWait, rows, process, tasks, slot, history
<1>22. ASSUME NEW s \in Subs, EndRow(s) PROVE Waiting'
  BY <1>22 DEF EndRow, Stop, Waiting, LaunchesWait, rows, process, tasks, slot, history
<1>23. ASSUME NEW s \in Subs, SpawnFails(s) PROVE Waiting'
  <2> DEFINE t == Leave(s, Live, merging)
  <2>1. Follows(t, holder, queue)
    BY LeaveFollows
  <2>2. \E R : Settle(t, R, {})
    BY <1>23 DEF SpawnFails, Release
  <2> HIDE DEF t
  <2>3. /\ Launches(queue') \cup due' \subseteq Launches(queue) \cup due
        /\ due' \cap Launches(queue') = {}
    BY <2>1, <2>2, SettleIsSane DEF Waiting
  <2> QED BY <1>23, <2>3 DEF SpawnFails, Waiting, LaunchesWait, rows, process, tasks, slot, history
<1>24. ASSUME NEW s \in Subs, SpawnSendFails(s) PROVE Waiting'
  <2> DEFINE t == Leave(s, Alive(row', finished), merging)
  <2>1. Follows(t, holder, queue)
    BY LeaveFollows
  <2>2. \E R : Settle(t, R, {})
    BY <1>24 DEF SpawnSendFails, Release
  <2> HIDE DEF t
  <2>3. /\ Launches(queue') \cup due' \subseteq Launches(queue) \cup due
        /\ due' \cap Launches(queue') = {}
    BY <2>1, <2>2, SettleIsSane DEF Waiting
  <2> QED BY <1>24, <2>3 DEF SpawnSendFails, Waiting, LaunchesWait, rows, process, tasks, slot, history
<1>25. ASSUME NEW s \in Subs, RegisterFails(s) PROVE Waiting'
  <2> DEFINE t == Leave(s, Live, merging)
  <2>1. Follows(t, holder, queue)
    BY LeaveFollows
  <2>2. \E R : Settle(t, R, {})
    BY <1>25 DEF RegisterFails
  <2> HIDE DEF t
  <2>3. /\ Launches(queue') \cup due' \subseteq Launches(queue) \cup due
        /\ due' \cap Launches(queue') = {}
    BY <2>1, <2>2, SettleIsSane DEF Waiting
  <2> QED BY <1>25, <2>3 DEF RegisterFails, Waiting, LaunchesWait, rows, process, tasks, slot, history
<1>26. ASSUME NEW s \in Subs, AskReleases(s) PROVE Waiting'
  <2> DEFINE t == Leave(s, Live, merging)
  <2>1. Follows(t, holder, queue)
    BY LeaveFollows
  <2>2. \E R : Settle(t, R, {})
    BY <1>26 DEF AskReleases, Release
  <2> HIDE DEF t
  <2>3. /\ Launches(queue') \cup due' \subseteq Launches(queue) \cup due
        /\ due' \cap Launches(queue') = {}
    BY <2>1, <2>2, SettleIsSane DEF Waiting
  <2> QED BY <1>26, <2>3 DEF AskReleases, Waiting, LaunchesWait, rows, process, tasks, slot, history
<1>27. ASSUME NEW s \in Subs, EndSub(s) PROVE Waiting'
  <2> DEFINE t == Leave(s, Alive(row', finished), merging)
  <2>1. Follows(t, holder, queue)
    BY LeaveFollows
  <2>2. \E R : Settle(t, R, {})
    BY <1>27 DEF EndSub
  <2> HIDE DEF t
  <2>3. /\ Launches(queue') \cup due' \subseteq Launches(queue) \cup due
        /\ due' \cap Launches(queue') = {}
    BY <2>1, <2>2, SettleIsSane DEF Waiting
  <2> QED BY <1>27, <2>3 DEF EndSub, Waiting, LaunchesWait, rows, process, tasks, slot, history
<1>28. ASSUME NEW s \in Subs, Move(s) PROVE Waiting'
  <2> DEFINE t == Leave(s, Alive(row', finished'), merging)
  <2>1. Follows(t, holder, queue)
    BY LeaveFollows
  <2>2. \E R : Settle(t, R, {})
    BY <1>28 DEF Move, Release
  <2> HIDE DEF t
  <2>3. /\ Launches(queue') \cup due' \subseteq Launches(queue) \cup due
        /\ due' \cap Launches(queue') = {}
    BY <2>1, <2>2, SettleIsSane DEF Waiting
  <2> QED BY <1>28, <2>3 DEF Move, Waiting, LaunchesWait, rows, process, tasks, slot, history
<1>29. ASSUME NEW s \in Subs, RunStart(s) PROVE Waiting'
  <2>1. CASE /\ UNCHANGED <<queue, card, byCard>> /\ due' = due \ {s}
             /\ launch' \in {launch, [launch EXCEPT ![s] = "checked"]}
    <3>1. s \in due /\ s \notin Launches(queue) /\ UNCHANGED <<call, sent>>
      BY <1>29 DEF RunStart, Waiting
    <3>2. \A u \in Subs : u # s => launch'[u] = launch[u]
      BY <2>1
    <3>3. \A u \in Subs : launch[u] # "no" => launch'[u] # "no"
      BY <2>1
    <3>4. due \subseteq Subs /\ Launches(queue) \subseteq Subs
      BY QueuedAreSubs DEF Sane, Waiting
    <3>5. LaunchesWait'
      BY <2>1, <3>1, <3>2, <3>4 DEF Waiting, LaunchesWait
    <3> QED BY <2>1, <3>1, <3>3, <3>5 DEF Waiting
  <2>2. CASE launch[s] = "no" /\ UNCHANGED launch /\ \E R : R \subseteq held /\ LaunchError(s, R)
    <3> DEFINE t == Leave(s, Live, merging)
    <3>1. s \notin byCard
      BY <2>2 DEF Waiting
    <3>2. PICK R : R \subseteq held /\ LaunchError(s, R)
      BY <2>2
    <3>3. Settle(t, R, {s}) /\ byCard' = byCard \ {s} /\ card' = [card EXCEPT ![s] = IF s \in R THEN "open" ELSE @]
      BY <3>1, <3>2 DEF LaunchError
    <3>4. Follows(t, holder, queue) /\ s \notin Queued(t.queue) /\ s \notin Queued(t.start)
      BY LeaveFollows, LeaveIsGone
    <3> HIDE DEF t
    <3>5. /\ Launches(queue') \cup due' \subseteq Launches(queue) \cup due
          /\ due' \cap Launches(queue') = {} /\ Sane(holder', queue')
      BY <3>3, <3>4, SettleIsSane DEF Waiting
    <3>6. s \notin Launches(queue') \cup due'
      <4>1. s \notin Launches(queue')
        BY <3>3, <3>4, <3>5, QueuedAreSubs DEF Settle, Sane
      <4>2. s \notin due'
        BY <3>3, <3>4 DEF Settle, Follows
      <4> QED BY <4>1, <4>2
    <3>7. s \in R => call[s] = "over"
      BY <3>2 DEF StartsAreOver
    <3>8. UNCHANGED <<call, sent>>
      BY <1>29 DEF RunStart
    <3> QED BY <2>2, <3>3, <3>5, <3>6, <3>7, <3>8 DEF Waiting, LaunchesWait
  <2>3. \E R : R \subseteq held /\ (launch[s] = "no" /\ ~MayStart(s) => (RunStart(s) => LaunchError(s, R)))
    <3>1. \/ ~(launch[s] = "no" /\ ~MayStart(s)) \/ LaunchError(s, IF row[s] = "ended" THEN held \ {s} ELSE held)
      BY <1>29 DEF RunStart
    <3> QED BY <3>1
  <2> QED BY <1>29, <2>1, <2>2, <2>3 DEF RunStart
<1>30. ASSUME NEW s \in Subs, LaunchFails(s) PROVE Waiting'
  <2>1. s \notin Launches(queue) \cup due /\ call[s] = "over"
    BY <1>30 DEF LaunchFails, Waiting, LaunchesWait, StartsAreOver
  <2>2. Follows(Leave(s, Live, merging), holder, queue) /\ Follows(Unmoved, holder, queue)
    BY LeaveFollows
  <2>3. \E t \in {Leave(s, Live, merging), Unmoved} : \E R : Settle(t, R, {s})
    BY <1>30 DEF LaunchFails, LaunchError
  <2>4. /\ Launches(queue') \cup due' \subseteq Launches(queue) \cup due
        /\ due' \cap Launches(queue') = {}
    BY <2>2, <2>3, SettleIsSane DEF Waiting
  <2>5. /\ launch' = [launch EXCEPT ![s] = "no"] /\ UNCHANGED <<call, sent>>
        /\ byCard' = byCard \ {s}
    BY <1>30 DEF LaunchFails, LaunchError
  <2>6. \E R : card' = [card EXCEPT ![s] = IF s \in R THEN "open" ELSE @]
    BY <1>30 DEF LaunchFails, LaunchError
  <2>7. \A u : u # s => card'[u] = card[u]
    BY <2>6
  <2>8. LaunchesWait'
    BY <2>1, <2>4, <2>5, <2>7 DEF Waiting, LaunchesWait
  <2>9. \A u \in Subs : card'[u] # "no" => call'[u] = "over"
    BY <2>1, <2>5, <2>7 DEF Waiting
  <2>10. byCard' \subseteq Subs /\ \A u \in byCard' : launch'[u] # "no"
    BY <2>5 DEF Waiting
  <2> QED BY <2>4, <2>8, <2>9, <2>10 DEF Waiting
<1>31. ASSUME NEW s \in Subs, LaunchSendFails(s) PROVE Waiting'
  <2>1. s \notin Launches(queue) \cup due /\ call[s] = "over"
    BY <1>31 DEF LaunchSendFails, Waiting, LaunchesWait, StartsAreOver
  <2>2. Follows(Leave(s, Live, merging), holder, queue) /\ Follows(Unmoved, holder, queue)
    BY LeaveFollows
  <2>3. \E t \in {Leave(s, Live, merging), Unmoved} : \E R : Settle(t, R, {s})
    BY <1>31 DEF LaunchSendFails, LaunchError
  <2>4. /\ Launches(queue') \cup due' \subseteq Launches(queue) \cup due
        /\ due' \cap Launches(queue') = {}
    BY <2>2, <2>3, SettleIsSane DEF Waiting
  <2>5. /\ launch' = [launch EXCEPT ![s] = "no"] /\ UNCHANGED <<call, sent>>
        /\ byCard' = byCard \ {s}
    BY <1>31 DEF LaunchSendFails, LaunchError
  <2>6. \E R : card' = [card EXCEPT ![s] = IF s \in R THEN "open" ELSE @]
    BY <1>31 DEF LaunchSendFails, LaunchError
  <2>7. \A u : u # s => card'[u] = card[u]
    BY <2>6
  <2>8. LaunchesWait'
    BY <2>1, <2>4, <2>5, <2>7 DEF Waiting, LaunchesWait
  <2>9. \A u \in Subs : card'[u] # "no" => call'[u] = "over"
    BY <2>1, <2>5, <2>7 DEF Waiting
  <2>10. byCard' \subseteq Subs /\ \A u \in byCard' : launch'[u] # "no"
    BY <2>5 DEF Waiting
  <2> QED BY <2>4, <2>8, <2>9, <2>10 DEF Waiting
<1>32. ASSUME NEW s \in Subs, CheckWrite(s) PROVE Waiting'
  <2>1. Launches(queue') \subseteq Launches(queue)
    BY <1>32, RequestsIsSane DEF CheckWrite
  <2> QED BY <1>32, <2>1 DEF CheckWrite, Waiting, LaunchesWait, tasks, process
<1>33. ASSUME NEW s \in Subs, AskToWrite(s) PROVE Waiting'
  <2>1. Launches(queue') \subseteq Launches(queue)
    BY <1>33, RequestsIsSane DEF AskToWrite
  <2> QED BY <1>33, <2>1 DEF AskToWrite, Waiting, LaunchesWait, tasks, process
<1>34. ASSUME NEW s \in Subs, TurnEnds(s) PROVE Waiting'
  <2>1. Follows(Leave(s, Live, merging), holder, queue)
        /\ Follows(Leave(s, Alive(row, finished'), merging), holder, queue)
    BY LeaveFollows
  <2>2. \/ UNCHANGED <<queue, due>>
        \/ \E t \in {Leave(s, Live, merging), Leave(s, Alive(row, finished'), merging)} :
             \E R : Settle(t, R, {})
    BY <1>34 DEF TurnEnds, Finish, Release
  <2>3. /\ Launches(queue') \cup due' \subseteq Launches(queue) \cup due
        /\ due' \cap Launches(queue') = {}
    BY <2>1, <2>2, SettleIsSane DEF Waiting
  <2> QED BY <1>34, <2>3 DEF TurnEnds, Waiting, LaunchesWait
<1>35. ASSUME NEW s \in Subs, Dies(s) PROVE Waiting'
  <2>1. Follows(Leave(s, Live, merging), holder, queue)
        /\ Follows(Leave(s, Alive(row, finished'), merging), holder, queue)
    BY LeaveFollows
  <2>2. \/ UNCHANGED <<queue, due>>
        \/ \E t \in {Leave(s, Live, merging), Leave(s, Alive(row, finished'), merging)} :
             \E R : Settle(t, R, {})
    BY <1>35 DEF Dies, Finish, Release
  <2>3. /\ Launches(queue') \cup due' \subseteq Launches(queue) \cup due
        /\ due' \cap Launches(queue') = {}
    BY <2>1, <2>2, SettleIsSane DEF Waiting
  <2> QED BY <1>35, <2>3 DEF Dies, Waiting, LaunchesWait
<1>36. ASSUME SlotSweep PROVE Waiting'
  <2>1. /\ Launches(queue') \cup due' \subseteq Launches(queue) \cup due
        /\ due' \cap Launches(queue') = {}
    BY <1>36, SweepIsSane DEF SlotSweep, Waiting
  <2> QED BY <1>36, <2>1 DEF SlotSweep, Waiting, LaunchesWait
<1>37. ASSUME MergeEnds PROVE Waiting'
  <2>1. /\ Launches(queue') \cup due' \subseteq Launches(queue) \cup due
        /\ due' \cap Launches(queue') = {}
    BY <1>37, SweepIsSane DEF MergeEnds, Waiting
  <2> QED BY <1>37, <2>1 DEF MergeEnds, Waiting, LaunchesWait
<1>38. ASSUME MergeStarts PROVE Waiting'
  BY <1>38 DEF MergeStarts, Waiting, LaunchesWait, rows, process, tasks, slot, history
<1>39. ASSUME HeldSweep PROVE Waiting'
  BY <1>39 DEF HeldSweep, Waiting, LaunchesWait, rows, process, tasks, slot, history
<1>40. ASSUME ClaimExpires PROVE Waiting'
  BY <1>40 DEF ClaimExpires, Waiting, LaunchesWait, rows, process, tasks, slot, history
<1>41. ASSUME Restart PROVE Waiting'
  <2>1. /\ Launches(queue') \cup due' \subseteq held /\ due' \cap Launches(queue') = {}
    BY <1>41, RestartFollows
  <2>2. \A s \in Subs : /\ launch'[s] = "no" /\ card'[s] = "no"
                        /\ call[s] = "over" => call'[s] = "over"
    BY <1>41 DEF Restart
  <2>3. \A s \in held : s \notin sent /\ call[s] = "over"
    BY DEF StartsAreOver, SentIsOver
  <2> QED BY <1>41, <2>1, <2>2, <2>3 DEF Restart, Waiting, LaunchesWait
<1>42. ASSUME UNCHANGED vars PROVE Waiting'
  BY <1>42 DEF vars, Waiting, LaunchesWait, rows, process, tasks, slot, history
<1> QED BY <1>1, <1>2, <1>3, <1>4, <1>5, <1>6, <1>7, <1>8, <1>9, <1>10, <1>11, <1>12,
         <1>13, <1>14, <1>15, <1>16, <1>17, <1>18, <1>19, <1>20, <1>21, <1>22, <1>23,
         <1>24, <1>25, <1>26, <1>27, <1>28, <1>29, <1>30, <1>31, <1>32, <1>33, <1>34,
         <1>35, <1>36, <1>37, <1>38, <1>39, <1>40, <1>41, <1>42
     DEF Next
LEMMA TableWaits == Spec => [](Life /\ Placed /\ RestOK /\ Waiting)
<1>1. Init => Waiting
  BY QueuedAreSubs DEF Init, Waiting, LaunchesWait, Launches
<1>2. Life /\ Placed /\ Waiting /\ [Next]_vars => Waiting'
  BY WaitingStep
<1> QED BY <1>1, <1>2, TableAlways, PTL DEF Spec

-------------------------------------------------------------------------------
(* Who edits, and who fell.                                                 *)

\* A turn needs the first message and a process, an edit under way needs a turn.
TurnsAreReal ==
  turn \subseteq sent \cap child /\ allowed \subseteq turn /\ fallen \subseteq sent \ turn

\* Who is about to let the slot go has nothing half-written, or is a loose one.
CleanIsClean ==
  \A s \in Subs :
    /\ ask[s] # "no" => s \in sent
    /\ ask[s] = "clean" /\ s \in allowed \cup dirty => "loose" \in excused[s]

\* A sub that fell in a turn waits for no slot either.
DeadIsOut ==
  \A s \in fallen : "silent" \in excused[s] \/ (s # holder /\ s \notin Queued(queue))

Editing == TurnsAreReal /\ CleanIsClean /\ DeadIsOut

\* A release names its races, and takes nobody in.
LEMMA ReleaseIsSane ==
  ASSUME Sane(holder, queue), due \subseteq Subs, nudge \subseteq Subs,
         excused \in [Subs -> SUBSET Races], NEW s, NEW live, Release(s, live)
  PROVE  /\ {holder'} \cup Queued(queue') \subseteq Queued(queue) \cup {holder, None}
         /\ \A u \in Subs : excused[u] \subseteq excused'[u]
<1> DEFINE t == Leave(s, live, merging)
<1>1. Follows(t, holder, queue)
  BY LeaveFollows
<1>2. \A u \in Subs : excused[u] \subseteq excused'[u]
  BY ExcuseGrows DEF Release, Races
<1>3. \E R : Settle(t, R, {})
  BY DEF Release
<1> HIDE DEF t
<1> QED BY <1>1, <1>2, <1>3, SettleIsSane

LEMMA EditingStep == Life /\ Placed /\ RestOK /\ Waiting /\ Editing /\ [Next]_vars => Editing'
<1> SUFFICES ASSUME Life, Placed, RestOK, Waiting, Editing, [Next]_vars PROVE Editing'
  OBVIOUS
<1>0. /\ LifeFlags /\ SentIsOver /\ Sane(holder, queue) /\ due \subseteq Subs /\ nudge \subseteq Subs
      /\ excused \in [Subs -> SUBSET Races] /\ ask \in [Subs -> {"no", "looked", "clean"}]
      /\ turn \subseteq Subs /\ fallen \subseteq Subs /\ sent \subseteq Subs
      /\ allowed \subseteq Subs /\ dirty \subseteq Subs
  BY DEF Life, LifeFlags, Placed, RestOK
<1> USE <1>0
<1>1. ASSUME NEW s \in Subs, SpawnUp(s) PROVE Editing'
  BY <1>1 DEF SpawnUp, Editing, TurnsAreReal, CleanIsClean, DeadIsOut, rows, process, tasks, slot, history
<1>2. ASSUME NEW s \in Subs, MarkSub(s) PROVE Editing'
  BY <1>2 DEF MarkSub, Editing, TurnsAreReal, CleanIsClean, DeadIsOut, rows, process, tasks, slot, history
<1>3. ASSUME NEW s \in Subs, Register(s) PROVE Editing'
  BY <1>3 DEF Register, Editing, TurnsAreReal, CleanIsClean, DeadIsOut, rows, process, tasks, slot, history
<1>4. ASSUME NEW s \in Subs, StoreRecipe(s) PROVE Editing'
  BY <1>4 DEF StoreRecipe, Editing, TurnsAreReal, CleanIsClean, DeadIsOut, rows, process, tasks, slot, history
<1>5. ASSUME NEW s \in Subs, TryAgain(s) PROVE Editing'
  BY <1>5 DEF TryAgain, MayStart, Editing, TurnsAreReal, CleanIsClean, DeadIsOut, rows, process, tasks, slot, history
<1>6. ASSUME NEW s \in Subs, SkipCard(s) PROVE Editing'
  BY <1>6 DEF SkipCard, Editing, TurnsAreReal, CleanIsClean, DeadIsOut, rows, process, tasks, slot, history
<1>7. ASSUME NEW s \in Subs, LaunchUp(s) \/ TakesRecipe(s) PROVE Editing'
  BY <1>7 DEF LaunchUp, TakesRecipe, Editing, TurnsAreReal, CleanIsClean, DeadIsOut, rows, process, tasks, slot, history
<1>8. ASSUME NEW s \in Subs, EditLands(s) PROVE Editing'
  BY <1>8 DEF EditLands, Editing, TurnsAreReal, CleanIsClean, DeadIsOut, rows, process, tasks, slot, history
<1>9. ASSUME NEW s \in Subs, Commit(s) PROVE Editing'
  BY <1>9 DEF Commit, Editing, TurnsAreReal, CleanIsClean, DeadIsOut, rows, process, tasks, slot, history
<1>10. ASSUME NEW s \in Subs, AskJoe(s) PROVE Editing'
  BY <1>10 DEF AskJoe, Editing, TurnsAreReal, CleanIsClean, DeadIsOut, rows, process, tasks, slot, history
<1>11. ASSUME NEW s \in Subs, RequestFinish(s) PROVE Editing'
  BY <1>11 DEF RequestFinish, Editing, TurnsAreReal, CleanIsClean, DeadIsOut, rows, process, tasks, slot, history
<1>12. ASSUME NEW s \in Subs, ContinueUp(s) PROVE Editing'
  BY <1>12 DEF ContinueUp, Editing, TurnsAreReal, CleanIsClean, DeadIsOut, rows, process, tasks, slot, history
<1>13. ASSUME NEW s \in Subs, ContinueFails(s) PROVE Editing'
  BY <1>13 DEF ContinueFails, Editing, TurnsAreReal, CleanIsClean, DeadIsOut, rows, process, tasks, slot, history
<1>14. ASSUME NEW s \in Subs, Continue(s) PROVE Editing'
  BY <1>14 DEF Continue, Editing, TurnsAreReal, CleanIsClean, DeadIsOut, rows, process, tasks, slot, history
<1>15. ASSUME NEW s \in Subs, SeesChild(s) PROVE Editing'
  BY <1>15 DEF SeesChild, Editing, TurnsAreReal, CleanIsClean, DeadIsOut, rows, process, tasks, slot, history
<1>16. ASSUME NEW s \in Subs, Nudge(s) PROVE Editing'
  BY <1>16 DEF Nudge, Editing, TurnsAreReal, CleanIsClean, DeadIsOut, rows, process, tasks, slot, history
<1>17. ASSUME NEW s \in Subs, NudgeAgain(s) PROVE Editing'
  BY <1>17 DEF NudgeAgain, Editing, TurnsAreReal, CleanIsClean, DeadIsOut, rows, process, tasks, slot, history
<1>18. ASSUME NEW s \in Subs, DecideSpawn(s) PROVE Editing'
  <2>1. s \notin sent /\ UNCHANGED <<process, sent, fallen, excused, ask>>
    BY <1>18 DEF DecideSpawn, SentIsOver, tasks, history
  <2>2. {holder'} \cup Queued(queue') \subseteq Queued(queue) \cup {holder, None, s}
    <3>1. CASE queue' = queue /\ holder' = s
      BY <3>1
    <3>2. CASE queue' = Append(queue, Entry(s, "Launch")) /\ holder' = Heal(holder, Live)
      <4>1. Entry(s, "Launch") \in Entries /\ Entry(s, "Launch").sub = s
        BY DEF Entry, Entries
      <4>2. s \notin Queued(queue) /\ s # holder
        BY <1>18 DEF DecideSpawn, Placed, NewIsNowhere
      <4>3. Queued(queue') \subseteq Queued(queue) \cup {s}
        BY <3>2, <4>1, <4>2, AppendIsSane
      <4> QED BY <3>2, <4>3 DEF Heal
    <3> QED BY <1>18, <3>1, <3>2 DEF DecideSpawn
  <2> QED BY <2>1, <2>2, SlotConstants DEF process, Editing, TurnsAreReal, CleanIsClean, DeadIsOut
<1>19. ASSUME NEW s \in Subs, SpawnSend(s) PROVE Editing'
  <2>1. s \notin sent
    BY <1>19 DEF SpawnSend, SentIsOver
  <2>2. \A u \in Subs : "loose" \in excused[u] => "loose" \in excused'[u]
    BY <1>19 DEF SpawnSend, Begin
  <2>3. \A u \in Subs : "silent" \in excused[u] => "silent" \in excused'[u]
    BY <1>19 DEF SpawnSend, Begin
  <2> QED BY <1>19, <2>1, <2>2, <2>3 DEF SpawnSend, Begin, Editing, TurnsAreReal, CleanIsClean, DeadIsOut, rows, process, tasks, slot, history
<1>20. ASSUME NEW s \in Subs, LaunchSend(s) PROVE Editing'
  <2>1. s \notin sent
    BY <1>20 DEF LaunchSend, SentIsOver
  <2>2. \A u \in Subs : "loose" \in excused[u] => "loose" \in excused'[u]
    BY <1>20 DEF LaunchSend, Begin
  <2>3. \A u \in Subs : "silent" \in excused[u] => "silent" \in excused'[u]
    BY <1>20 DEF LaunchSend, Begin
  <2> QED BY <1>20, <2>1, <2>2, <2>3 DEF LaunchSend, Begin, Editing, TurnsAreReal, CleanIsClean, DeadIsOut, rows, process, tasks, slot, history
<1>21. ASSUME NEW s \in Subs, SpawnFails(s) PROVE Editing'
  <2>1. /\ {holder'} \cup Queued(queue') \subseteq Queued(queue) \cup {holder, None}
        /\ \A u \in Subs : excused[u] \subseteq excused'[u]
    BY <1>21, ReleaseIsSane DEF SpawnFails
  <2> QED BY <1>21, <2>1, SlotConstants DEF SpawnFails, Editing, TurnsAreReal, CleanIsClean, DeadIsOut, rows, process
<1>22. ASSUME NEW s \in Subs, SpawnSendFails(s) PROVE Editing'
  <2>1. /\ {holder'} \cup Queued(queue') \subseteq Queued(queue) \cup {holder, None}
        /\ \A u \in Subs : excused[u] \subseteq excused'[u]
    BY <1>22, ReleaseIsSane DEF SpawnSendFails
  <2> QED BY <1>22, <2>1, SlotConstants DEF SpawnSendFails, Editing, TurnsAreReal, CleanIsClean, DeadIsOut, rows, process
<1>23. ASSUME NEW s \in Subs, AskReleases(s) PROVE Editing'
  <2>1. /\ {holder'} \cup Queued(queue') \subseteq Queued(queue) \cup {holder, None}
        /\ \A u \in Subs : excused[u] \subseteq excused'[u]
    BY <1>23, ReleaseIsSane DEF AskReleases
  <2> QED BY <1>23, <2>1, SlotConstants DEF AskReleases, Editing, TurnsAreReal, CleanIsClean, DeadIsOut, rows, process
<1>24. ASSUME NEW s \in Subs, Move(s) PROVE Editing'
  <2>1. /\ {holder'} \cup Queued(queue') \subseteq Queued(queue) \cup {holder, None}
        /\ \A u \in Subs : excused[u] \subseteq excused'[u]
    BY <1>24, ReleaseIsSane DEF Move
  <2> QED BY <1>24, <2>1, SlotConstants DEF Move, Editing, TurnsAreReal, CleanIsClean, DeadIsOut, rows, process
<1>25. ASSUME NEW s \in Subs, RegisterFails(s) PROVE Editing'
  <2>1. Follows(Leave(s, Live, merging), holder, queue) /\ Follows(Unmoved, holder, queue)
    BY LeaveFollows
  <2>2. \E t \in {Leave(s, Live, merging), Unmoved} : \E R, G : Settle(t, R, G)
    BY <1>25 DEF RegisterFails, LaunchError
  <2>3. {holder'} \cup Queued(queue') \subseteq Queued(queue) \cup {holder, None}
    BY <2>1, <2>2, SettleIsSane
  <2>4. \A u \in Subs : excused[u] \subseteq excused'[u]
    BY <1>25, ExcuseGrows DEF RegisterFails, LaunchError, Races
  <2> QED BY <1>25, <2>3, <2>4, SlotConstants DEF RegisterFails, Editing, TurnsAreReal, CleanIsClean, DeadIsOut, rows, process
<1>26. ASSUME NEW s \in Subs, RunStart(s) PROVE Editing'
  <2>1. Follows(Leave(s, Live, merging), holder, queue) /\ Follows(Unmoved, holder, queue)
    BY LeaveFollows
  <2>2. UNCHANGED <<holder, queue>> \/ \E t \in {Leave(s, Live, merging), Unmoved} : \E R, G : Settle(t, R, G)
    BY <1>26 DEF RunStart, LaunchError
  <2>3. {holder'} \cup Queued(queue') \subseteq Queued(queue) \cup {holder, None}
    BY <2>1, <2>2, SettleIsSane
  <2>4. \A u \in Subs : excused[u] \subseteq excused'[u]
    BY <1>26, ExcuseGrows DEF RunStart, LaunchError, Races
  <2> QED BY <1>26, <2>3, <2>4, SlotConstants DEF RunStart, Editing, TurnsAreReal, CleanIsClean, DeadIsOut, rows, process
<1>27. ASSUME NEW s \in Subs, LaunchFails(s) PROVE Editing'
  <2>1. Follows(Leave(s, Live, merging), holder, queue) /\ Follows(Unmoved, holder, queue)
    BY LeaveFollows
  <2>2. \E t \in {Leave(s, Live, merging), Unmoved} : \E R, G : Settle(t, R, G)
    BY <1>27 DEF LaunchFails, LaunchError
  <2>3. {holder'} \cup Queued(queue') \subseteq Queued(queue) \cup {holder, None}
    BY <2>1, <2>2, SettleIsSane
  <2>4. \A u \in Subs : excused[u] \subseteq excused'[u]
    BY <1>27, ExcuseGrows DEF LaunchFails, LaunchError, Races
  <2> QED BY <1>27, <2>3, <2>4, SlotConstants DEF LaunchFails, Editing, TurnsAreReal, CleanIsClean, DeadIsOut, rows, process
<1>28. ASSUME NEW s \in Subs, LaunchSendFails(s) PROVE Editing'
  <2>1. Follows(Leave(s, Live, merging), holder, queue) /\ Follows(Unmoved, holder, queue)
    BY LeaveFollows
  <2>2. \E t \in {Leave(s, Live, merging), Unmoved} : \E R, G : Settle(t, R, G)
    BY <1>28 DEF LaunchSendFails, LaunchError
  <2>3. {holder'} \cup Queued(queue') \subseteq Queued(queue) \cup {holder, None}
    BY <2>1, <2>2, SettleIsSane
  <2>4. \A u \in Subs : excused[u] \subseteq excused'[u]
    BY <1>28, ExcuseGrows DEF LaunchSendFails, LaunchError, Races
  <2> QED BY <1>28, <2>3, <2>4, SlotConstants DEF LaunchSendFails, Editing, TurnsAreReal, CleanIsClean, DeadIsOut, rows, process
<1>29. ASSUME NEW s \in Subs, CheckWrite(s) PROVE Editing'
  <2>1. {holder'} \cup Queued(queue') \subseteq Queued(queue) \cup {holder, None, s}
    BY <1>29, RequestsIsSane DEF CheckWrite
  <2>2. s \in turn /\ UNCHANGED <<turn, child, dirty, sent, fallen, ask>> /\ allowed' \subseteq allowed \cup {s}
    BY <1>29 DEF CheckWrite, tasks
  <2>3. \A u \in Subs : "silent" \in excused[u] => "silent" \in excused'[u]
    BY <1>29 DEF CheckWrite, Excuse
  <2>4. \A u \in Subs : u # s /\ "loose" \in excused[u] => "loose" \in excused'[u]
    BY <1>29 DEF CheckWrite, Excuse
  <2>5. s \in allowed' \cup dirty' /\ ask[s] = "clean" => "loose" \in excused'[s]
    BY <1>29, <2>2 DEF CheckWrite, Excuse, Editing, CleanIsClean
  <2>6. TurnsAreReal'
    BY <2>2 DEF Editing, TurnsAreReal
  <2>7. CleanIsClean'
    BY <2>2, <2>4, <2>5 DEF Editing, CleanIsClean
  <2>8. DeadIsOut'
    BY <2>1, <2>2, <2>3, SlotConstants DEF Editing, TurnsAreReal, DeadIsOut
  <2> QED BY <2>6, <2>7, <2>8 DEF Editing
<1>30. ASSUME NEW s \in Subs, AskToWrite(s) PROVE Editing'
  <2>1. {holder'} \cup Queued(queue') \subseteq Queued(queue) \cup {holder, None, s}
    BY <1>30, RequestsIsSane DEF AskToWrite
  <2>2. \A u \in Subs : excused[u] \subseteq excused'[u]
    BY <1>30 DEF AskToWrite, Excuse
  <2> QED BY <1>30, <2>1, <2>2, SlotConstants DEF AskToWrite, Editing, TurnsAreReal, CleanIsClean, DeadIsOut, process, tasks
<1>31. ASSUME NEW s \in Subs, AskReadsGit(s) PROVE Editing'
  <2>1. \A u \in Subs : excused[u] \subseteq excused'[u]
    BY <1>31 DEF AskReadsGit, Excuse
  <2>2. s \in allowed \ dirty => "loose" \in excused'[s]
    BY <1>31 DEF AskReadsGit, Excuse
  <2> QED BY <1>31, <2>1, <2>2 DEF AskReadsGit, Uncommitted, Editing, TurnsAreReal, CleanIsClean, DeadIsOut, slot, process
<1>32. ASSUME NEW s \in Subs, TurnEnds(s) PROVE Editing'
  <2>1. CASE Finish(s)
    <3>1. /\ {holder'} \cup Queued(queue') \subseteq Queued(queue) \cup {holder, None}
          /\ \A u \in Subs : excused[u] \subseteq excused'[u]
      BY <2>1, ReleaseIsSane DEF Finish
    <3> QED BY <1>32, <2>1, <3>1, SlotConstants DEF TurnEnds, Finish, Editing, TurnsAreReal, CleanIsClean, DeadIsOut
  <2>2. CASE UNCHANGED <<holder, queue, child, excused>>
    BY <1>32, <2>2 DEF TurnEnds, Editing, TurnsAreReal, CleanIsClean, DeadIsOut
  <2> QED BY <1>32, <2>1, <2>2 DEF TurnEnds
<1>33. ASSUME NEW s \in Subs, Dies(s) PROVE Editing'
  <2>1. /\ turn' = turn \ {s} /\ allowed' = allowed \ {s} /\ child' = child \ {s}
        /\ UNCHANGED <<dirty, ask, sent>>
    BY <1>33 DEF Dies, Finish
  <2>2. CASE Finish(s) /\ UNCHANGED fallen
    <3>1. /\ {holder'} \cup Queued(queue') \subseteq Queued(queue) \cup {holder, None}
          /\ \A u \in Subs : excused[u] \subseteq excused'[u]
      BY <2>2, ReleaseIsSane DEF Finish
    <3> QED BY <2>1, <2>2, <3>1, SlotConstants DEF Editing, TurnsAreReal, CleanIsClean, DeadIsOut
  <2>3. CASE Release(s, Live) /\ s \in turn /\ fallen' = fallen \cup {s}
    <3>1. /\ {holder'} \cup Queued(queue') \subseteq Queued(queue) \cup {holder, None}
          /\ \A u \in Subs : excused[u] \subseteq excused'[u]
      BY <2>3, ReleaseIsSane
    <3>2. s # holder' /\ s \notin Queued(queue')
      <4> DEFINE t == Leave(s, Live, merging)
      <4>1. s # t.holder /\ s \notin Queued(t.queue)
        BY LeaveIsGone
      <4>2. holder' = t.holder /\ queue' = t.queue
        BY <2>3 DEF Release, Settle
      <4> QED BY <4>1, <4>2
    <3> QED BY <2>1, <2>3, <3>1, <3>2, SlotConstants DEF Editing, TurnsAreReal, CleanIsClean, DeadIsOut
  <2>4. CASE /\ UNCHANGED <<holder, queue>> /\ s \notin (turn \cap Live) \ carded
             /\ fallen' = fallen \cup ({s} \cap turn \cap Live)
             /\ excused' = Excuse({s} \cap carded, "silent")
    <3>1. \A u \in Subs : excused[u] \subseteq excused'[u]
      BY <2>4 DEF Excuse
    <3>2. s \in fallen' \ fallen => "silent" \in excused'[s]
      BY <2>4 DEF Excuse
    <3> QED BY <2>1, <2>4, <3>1, <3>2 DEF Editing, TurnsAreReal, CleanIsClean, DeadIsOut
  <2> QED BY <1>33, <2>2, <2>3, <2>4 DEF Dies
<1>34. ASSUME NEW s \in Subs, EndSub(s) PROVE Editing'
  <2> DEFINE t == Leave(s, Alive(row', finished), merging)
  <2>1. Follows(t, holder, queue)
    BY LeaveFollows
  <2>2. \E R : Settle(t, R, {})
    BY <1>34 DEF EndSub
  <2>3. \A u \in Subs \ {s} : excused[u] \subseteq excused'[u]
    BY <1>34, ExcuseGrows DEF EndSub, Races
  <2> HIDE DEF t
  <2>4. {holder'} \cup Queued(queue') \subseteq Queued(queue) \cup {holder, None}
    BY <2>1, <2>2, SettleIsSane
  <2>5. /\ child' = child \ {s} /\ turn' = turn \ {s} /\ allowed' = allowed \ {s}
        /\ dirty' = dirty \ {s} /\ fallen' = fallen \ {s} /\ UNCHANGED <<ask, sent>>
    BY <1>34 DEF EndSub, Stop
  <2> QED BY <2>3, <2>4, <2>5, SlotConstants DEF Editing, TurnsAreReal, CleanIsClean, DeadIsOut
<1>35. ASSUME NEW s \in Subs, EndRow(s) PROVE Editing'
  <2>1. \A u \in Subs \ {s} : excused'[u] = excused[u]
    BY <1>35 DEF EndRow
  <2>2. /\ child' = child \ {s} /\ turn' = turn \ {s} /\ allowed' = allowed \ {s}
        /\ dirty' = dirty \ {s} /\ fallen' = fallen \ {s} /\ UNCHANGED <<ask, sent, holder, queue>>
    BY <1>35 DEF EndRow, Stop, slot, tasks
  <2> QED BY <2>1, <2>2 DEF Editing, TurnsAreReal, CleanIsClean, DeadIsOut
<1>36. ASSUME SlotSweep PROVE Editing'
  <2>1. {holder'} \cup Queued(queue') \subseteq Queued(queue) \cup {holder, None}
    BY <1>36, SweepIsSane DEF SlotSweep
  <2>2. \A u \in Subs : excused[u] \subseteq excused'[u]
    BY <1>36, SweepLife DEF SlotSweep
  <2> QED BY <1>36, <2>1, <2>2, SlotConstants DEF SlotSweep, Editing, TurnsAreReal, CleanIsClean, DeadIsOut, process
<1>37. ASSUME MergeEnds PROVE Editing'
  <2>1. {holder'} \cup Queued(queue') \subseteq Queued(queue) \cup {holder, None}
    BY <1>37, SweepIsSane DEF MergeEnds
  <2>2. \A u \in Subs : excused[u] \subseteq excused'[u]
    BY <1>37, SweepLife DEF MergeEnds
  <2> QED BY <1>37, <2>1, <2>2, SlotConstants DEF MergeEnds, Editing, TurnsAreReal, CleanIsClean, DeadIsOut, process
<1>38. ASSUME MergeStarts PROVE Editing'
  BY <1>38 DEF MergeStarts, Editing, TurnsAreReal, CleanIsClean, DeadIsOut, rows, process, tasks, slot, history
<1>39. ASSUME HeldSweep PROVE Editing'
  BY <1>39 DEF HeldSweep, Editing, TurnsAreReal, CleanIsClean, DeadIsOut, rows, process, tasks, slot, history
<1>40. ASSUME ClaimExpires PROVE Editing'
  BY <1>40 DEF ClaimExpires, Editing, TurnsAreReal, CleanIsClean, DeadIsOut, rows, process, tasks, slot, history
<1>41. ASSUME Restart PROVE Editing'
  <2>1. turn' = {} /\ allowed' = {} /\ fallen' = {} /\ child' = {} /\ sent' = sent
    BY <1>41 DEF Restart
  <2>2. ask' = [s \in Subs |-> "no"]
    BY <1>41 DEF Restart
  <2> QED BY <2>1, <2>2 DEF Editing, TurnsAreReal, CleanIsClean, DeadIsOut
<1>42. ASSUME UNCHANGED vars PROVE Editing'
  BY <1>42 DEF vars, Editing, TurnsAreReal, CleanIsClean, DeadIsOut, rows, process, tasks, slot, history
<1> QED BY <1>1, <1>2, <1>3, <1>4, <1>5, <1>6, <1>7, <1>8, <1>9, <1>10, <1>11, <1>12,
         <1>13, <1>14, <1>15, <1>16, <1>17, <1>18, <1>19, <1>20, <1>21, <1>22, <1>23,
         <1>24, <1>25, <1>26, <1>27, <1>28, <1>29, <1>30, <1>31, <1>32, <1>33, <1>34,
         <1>35, <1>36, <1>37, <1>38, <1>39, <1>40, <1>41, <1>42
     DEF Next
LEMMA EditingAlways == Spec => [](Life /\ Placed /\ RestOK /\ Waiting /\ Editing)
<1>1. Init => Editing
  BY DEF Init, Editing, TurnsAreReal, CleanIsClean, DeadIsOut
<1>2. Life /\ Placed /\ RestOK /\ Waiting /\ Editing /\ [Next]_vars => Editing'
  BY EditingStep
<1> QED BY <1>1, <1>2, TableWaits, PTL DEF Spec

\* A sub whose process died in a turn does not keep the slot (turn_end.rs
\* note_death), unless the death came before the sweep had seen the process again.
THEOREM DeadLeave == Spec => []SlotLeavesTheDead
<1>1. Editing => SlotLeavesTheDead
  BY DEF Editing, DeadIsOut, SlotLeavesTheDead
<1> QED BY <1>1, EditingAlways, PTL

-------------------------------------------------------------------------------
(* A step takes the slot from a live sub only if that sub asked to go.      *)

\* What a step may do to a holder that is in a turn, and to who edits.
Keeps ==
  /\ \A s \in turn \cap turn' \cap (allowed \cup dirty) \cap Live \cap Live' :
       holder = s => holder' = s \/ "loose" \in excused[s]
  /\ \A s \in allowed' \cap Live' :
       \/ holder' = s
       \/ s \in allowed \cap Live /\ ("loose" \in excused[s] => "loose" \in excused'[s])

LEMMA AdvanceKeeps ==
  ASSUME NEW h, NEW q, NEW live, NEW merge, h # None, h \in live
  PROVE  Advance(h, q, live, merge).holder = h
BY DEF Advance, Heal, Table

LEMMA LeaveKeeps ==
  ASSUME NEW s, NEW live, NEW merge, holder # s, holder # None, holder \in live
  PROVE  Leave(s, live, merge).holder = holder
BY AdvanceKeeps DEF Leave, Unmoved, Table

\* Another live holder stays when s lets go.
LEMMA ReleaseKeeps ==
  ASSUME NEW s, NEW live, Release(s, live), holder # None, holder # s, holder \in live
  PROVE  holder' = holder
BY LeaveKeeps DEF Release, Settle

LEMMA SweepKeeps ==
  ASSUME NEW merge, Sweep(merge), holder # None, holder \in Live
  PROVE  holder' = holder
<1>1. CASE UNCHANGED holder
  BY <1>1
<1>2. CASE ~UNCHANGED holder
  <2>1. PICK f \in Enumerations({i \in DOMAIN queue : queue[i].sub \in Live}) :
          holder' = Advance(holder, [n \in DOMAIN f |-> queue[f[n]]], Live, merge).holder
    BY <1>2, Zenon DEF Sweep, Settle
  <2> QED BY <2>1, AdvanceKeeps
<1> QED BY <1>1, <1>2

LEMMA RequestsKeep ==
  ASSUME NEW s, Requests(s), holder # None, holder \in Live
  PROVE  holder' = holder
BY DEF Requests, Heal

LEMMA KeepsStep == Life /\ Placed /\ RestOK /\ Waiting /\ Editing /\ [Next]_vars => Keeps
<1> SUFFICES ASSUME Life, Placed, RestOK, Waiting, Editing, [Next]_vars PROVE Keeps
  OBVIOUS
<1>0. /\ LifeFlags /\ SentIsOver /\ TurnsAreReal /\ CleanIsClean
      /\ excused \in [Subs -> SUBSET Races] /\ row \in [Subs -> {"none", "bare", "sub", "ended", "moved"}]
      /\ turn \subseteq Subs /\ allowed \subseteq Subs /\ dirty \subseteq Subs
  BY DEF Life, LifeFlags, RestOK, Editing
<1> USE <1>0
<1>1. ASSUME NEW s \in Subs, SpawnUp(s) PROVE Keeps
  BY <1>1 DEF SpawnUp, Keeps, Live, Alive, rows, process, tasks, slot, history
<1>2. ASSUME NEW s \in Subs, StoreRecipe(s) PROVE Keeps
  BY <1>2 DEF StoreRecipe, Keeps, Live, Alive, rows, process, tasks, slot, history
<1>3. ASSUME NEW s \in Subs, TryAgain(s) PROVE Keeps
  BY <1>3 DEF TryAgain, Keeps, Live, Alive, rows, process, tasks, slot, history
<1>4. ASSUME NEW s \in Subs, SkipCard(s) PROVE Keeps
  BY <1>4 DEF SkipCard, Keeps, Live, Alive, rows, process, tasks, slot, history
<1>5. ASSUME NEW s \in Subs, LaunchUp(s) \/ TakesRecipe(s) PROVE Keeps
  BY <1>5 DEF LaunchUp, TakesRecipe, Keeps, Live, Alive, rows, process, tasks, slot, history
<1>6. ASSUME NEW s \in Subs, EditLands(s) PROVE Keeps
  BY <1>6 DEF EditLands, Keeps, Live, Alive, rows, process, tasks, slot, history
<1>7. ASSUME NEW s \in Subs, Commit(s) PROVE Keeps
  BY <1>7 DEF Commit, Keeps, Live, Alive, rows, process, tasks, slot, history
<1>8. ASSUME NEW s \in Subs, AskJoe(s) PROVE Keeps
  BY <1>8 DEF AskJoe, Keeps, Live, Alive, rows, process, tasks, slot, history
<1>9. ASSUME NEW s \in Subs, RequestFinish(s) PROVE Keeps
  BY <1>9 DEF RequestFinish, Keeps, Live, Alive, rows, process, tasks, slot, history
<1>10. ASSUME NEW s \in Subs, ContinueUp(s) PROVE Keeps
  BY <1>10 DEF ContinueUp, Keeps, Live, Alive, rows, process, tasks, slot, history
<1>11. ASSUME NEW s \in Subs, ContinueFails(s) PROVE Keeps
  BY <1>11 DEF ContinueFails, Keeps, Live, Alive, rows, process, tasks, slot, history
<1>12. ASSUME NEW s \in Subs, SeesChild(s) PROVE Keeps
  BY <1>12 DEF SeesChild, Keeps, Live, Alive, rows, process, tasks, slot, history
<1>13. ASSUME NEW s \in Subs, Nudge(s) PROVE Keeps
  BY <1>13 DEF Nudge, Keeps, Live, Alive, rows, process, tasks, slot, history
<1>14. ASSUME NEW s \in Subs, NudgeAgain(s) PROVE Keeps
  BY <1>14 DEF NudgeAgain, Keeps, Live, Alive, rows, process, tasks, slot, history
<1>15. ASSUME NEW s \in Subs, MarkSub(s) PROVE Keeps
  <2>1. s \notin turn /\ s \notin allowed
    BY <1>15 DEF MarkSub, SentIsOver, TurnsAreReal
  <2> QED BY <1>15, <2>1 DEF MarkSub, Keeps, Live, Alive, slot, process, history
<1>16. ASSUME NEW s \in Subs, Register(s) PROVE Keeps
  <2>1. s \notin turn /\ s \notin allowed
    BY <1>16 DEF Register, SentIsOver, TurnsAreReal
  <2> QED BY <1>16, <2>1 DEF Register, Keeps, Live, Alive, slot, process, history
<1>17. ASSUME NEW s \in Subs, Continue(s) PROVE Keeps
  <2>1. s \notin turn /\ s \notin allowed
    BY <1>17 DEF Continue, TurnsAreReal
  <2> QED BY <1>17, <2>1 DEF Continue, Keeps, Live, Alive, slot, history
<1>18. ASSUME NEW s \in Subs, DecideSpawn(s) PROVE Keeps
  <2>1. holder # None /\ holder \in Live => holder' = holder
    BY <1>18 DEF DecideSpawn, Heal
  <2> QED BY <1>18, <2>1, SlotConstants DEF DecideSpawn, Keeps, Live, Alive, rows, process, history
<1>19. ASSUME NEW s \in Subs, SpawnSend(s) PROVE Keeps
  <2>1. \A u \in Subs : "loose" \in excused[u] => "loose" \in excused'[u]
    BY <1>19 DEF SpawnSend, Begin
  <2> QED BY <1>19, <2>1 DEF SpawnSend, Keeps, Live, Alive, rows, slot
<1>20. ASSUME NEW s \in Subs, LaunchSend(s) PROVE Keeps
  <2>1. \A u \in Subs : "loose" \in excused[u] => "loose" \in excused'[u]
    BY <1>20 DEF LaunchSend, Begin
  <2> QED BY <1>20, <2>1 DEF LaunchSend, Keeps, Live, Alive, rows, slot
<1>21. ASSUME NEW s \in Subs, SpawnFails(s) PROVE Keeps
  <2>1. s \notin turn /\ s \notin allowed
    BY <1>21 DEF SpawnFails, SentIsOver, TurnsAreReal
  <2>2. \A u \in Live : u # s /\ holder = u /\ u \in Live' => holder' = u
    BY <1>21, ReleaseKeeps, SlotConstants DEF SpawnFails, Live, Alive
  <2>3. \A u \in Subs : excused[u] \subseteq excused'[u]
    BY <1>21, ExcuseGrows DEF SpawnFails, Release, Races
  <2> QED BY <1>21, <2>1, <2>2, <2>3 DEF SpawnFails, Keeps, Live, Alive, rows, process
<1>22. ASSUME NEW s \in Subs, SpawnSendFails(s) PROVE Keeps
  <2>1. s \notin Live' /\ Live' \subseteq Live /\ Live' = Alive(row', finished') /\ None \notin Live
    BY <1>22, SlotConstants DEF SpawnSendFails, Live, Alive
  <2>2. \A u \in Live : u # s /\ holder = u /\ u \in Live' => holder' = u
    BY <1>22, <2>1, ReleaseKeeps DEF SpawnSendFails
  <2>3. \A u \in Subs : excused[u] \subseteq excused'[u]
    BY <1>22, ExcuseGrows DEF SpawnSendFails, Release, Races
  <2> QED BY <1>22, <2>1, <2>2, <2>3 DEF SpawnSendFails, Keeps
<1>23. ASSUME NEW s \in Subs, Move(s) PROVE Keeps
  <2>1. s \notin Live' /\ Live' \subseteq Live /\ Live' = Alive(row', finished') /\ None \notin Live
    BY <1>23, SlotConstants DEF Move, Live, Alive
  <2>2. \A u \in Live : u # s /\ holder = u /\ u \in Live' => holder' = u
    BY <1>23, <2>1, ReleaseKeeps DEF Move
  <2>3. \A u \in Subs : excused[u] \subseteq excused'[u]
    BY <1>23, ExcuseGrows DEF Move, Release, Races
  <2> QED BY <1>23, <2>1, <2>2, <2>3 DEF Move, Keeps
<1>24. ASSUME NEW s \in Subs, AskReleases(s) PROVE Keeps
  <2>1. s \in allowed \cup dirty => "loose" \in excused[s]
    BY <1>24 DEF AskReleases, CleanIsClean
  <2>2. \A u \in Live : u # s /\ holder = u /\ u \in Live' => holder' = u
    BY <1>24, ReleaseKeeps, SlotConstants DEF AskReleases, Live, Alive
  <2>3. \A u \in Subs : excused[u] \subseteq excused'[u]
    BY <1>24, ExcuseGrows DEF AskReleases, Release, Races
  <2> QED BY <1>24, <2>1, <2>2, <2>3 DEF AskReleases, Keeps, Live, Alive, rows, process
<1>25. ASSUME NEW s \in Subs, RegisterFails(s) PROVE Keeps
  <2>1. s \notin turn /\ s \notin allowed
    BY <1>25 DEF RegisterFails, SentIsOver, TurnsAreReal
  <2>2. \A u \in Live : u # s /\ holder = u /\ u \in Live' => holder' = u
    BY <1>25, LeaveKeeps, SlotConstants DEF RegisterFails, Settle, Live, Alive
  <2>3. \A u \in Subs : excused[u] \subseteq excused'[u]
    BY <1>25, ExcuseGrows DEF RegisterFails, Races
  <2> QED BY <1>25, <2>1, <2>2, <2>3 DEF RegisterFails, Keeps, Live, Alive, rows, process
<1>26. ASSUME NEW s \in Subs, RunStart(s) PROVE Keeps
  <2>1. s \notin turn /\ s \notin allowed
    BY <1>26 DEF RunStart, Waiting, LaunchesWait, TurnsAreReal
  <2>2. UNCHANGED holder \/ \E t \in {Leave(s, Live, merging), Unmoved} : holder' = t.holder
    BY <1>26 DEF RunStart, LaunchError, Settle
  <2>3. \A u \in Live : u # s /\ holder = u /\ u \in Live' => holder' = u
    BY <2>2, LeaveKeeps, SlotConstants DEF Unmoved, Table, Live, Alive
  <2>4. \A u \in Subs : excused[u] \subseteq excused'[u]
    BY <1>26, ExcuseGrows DEF RunStart, LaunchError, Races
  <2> QED BY <1>26, <2>1, <2>3, <2>4 DEF RunStart, Keeps, Live, Alive, rows, process
<1>27. ASSUME NEW s \in Subs, LaunchFails(s) PROVE Keeps
  <2>1. s \notin turn /\ s \notin allowed
    BY <1>27 DEF LaunchFails, SentIsOver, TurnsAreReal
  <2>2. \E t \in {Leave(s, Live, merging), Unmoved} : holder' = t.holder
    BY <1>27 DEF LaunchFails, LaunchError, Settle
  <2>3. \A u \in Live : u # s /\ holder = u /\ u \in Live' => holder' = u
    BY <2>2, LeaveKeeps, SlotConstants DEF Unmoved, Table, Live, Alive
  <2>4. \A u \in Subs : excused[u] \subseteq excused'[u]
    BY <1>27, ExcuseGrows DEF LaunchFails, LaunchError, Races
  <2> QED BY <1>27, <2>1, <2>3, <2>4 DEF LaunchFails, Keeps, Live, Alive, rows, process
<1>28. ASSUME NEW s \in Subs, LaunchSendFails(s) PROVE Keeps
  <2>1. s \notin turn /\ s \notin allowed
    BY <1>28 DEF LaunchSendFails, SentIsOver, TurnsAreReal
  <2>2. \E t \in {Leave(s, Live, merging), Unmoved} : holder' = t.holder
    BY <1>28 DEF LaunchSendFails, LaunchError, Settle
  <2>3. \A u \in Live : u # s /\ holder = u /\ u \in Live' => holder' = u
    BY <2>2, LeaveKeeps, SlotConstants DEF Unmoved, Table, Live, Alive
  <2>4. \A u \in Subs : excused[u] \subseteq excused'[u]
    BY <1>28, ExcuseGrows DEF LaunchSendFails, LaunchError, Races
  <2> QED BY <1>28, <2>1, <2>3, <2>4 DEF LaunchSendFails, Keeps, Live, Alive, rows, process
<1>29. ASSUME NEW s \in Subs, CheckWrite(s) PROVE Keeps
  <2>1. \A u \in Live : holder = u => holder' = u
    BY <1>29, RequestsKeep, SlotConstants DEF CheckWrite, Live, Alive
  <2>2. \A u \in Subs : u # s /\ "loose" \in excused[u] => "loose" \in excused'[u]
    BY <1>29 DEF CheckWrite, Excuse
  <2>3. s \notin allowed /\ (s \in allowed' => holder' = s) /\ allowed' \subseteq allowed \cup {s}
    BY <1>29 DEF CheckWrite
  <2>4. Live' = Live
    BY <1>29 DEF CheckWrite, rows, Live
  <2> QED BY <2>1, <2>2, <2>3, <2>4 DEF Keeps
<1>30. ASSUME NEW s \in Subs, AskToWrite(s) PROVE Keeps
  <2>1. \A u \in Live : holder = u => holder' = u
    BY <1>30, RequestsKeep, SlotConstants DEF AskToWrite, Live, Alive
  <2>2. \A u \in Subs : excused[u] \subseteq excused'[u]
    BY <1>30 DEF AskToWrite, Excuse
  <2> QED BY <1>30, <2>1, <2>2 DEF AskToWrite, Keeps, Live, Alive, rows, process
<1>31. ASSUME NEW s \in Subs, AskReadsGit(s) PROVE Keeps
  <2>1. \A u \in Subs : excused[u] \subseteq excused'[u]
    BY <1>31 DEF AskReadsGit, Excuse
  <2> QED BY <1>31, <2>1 DEF AskReadsGit, Keeps, Live, Alive, rows, process, slot
<1>32. ASSUME NEW s \in Subs, TurnEnds(s) PROVE Keeps
  <2>1. CASE Finish(s)
    <3>1. s \notin Live' /\ Live' \subseteq Live /\ Live' = Alive(row, finished') /\ None \notin Live
      BY <1>32, <2>1, SlotConstants DEF TurnEnds, Finish, Live, Alive
    <3>2. \A u \in Live : u # s /\ holder = u /\ u \in Live' => holder' = u
      BY <2>1, <3>1, ReleaseKeeps DEF Finish
    <3>3. \A u \in Subs : excused[u] \subseteq excused'[u]
      BY <2>1, ExcuseGrows DEF Finish, Release, Races
    <3> QED BY <1>32, <3>1, <3>2, <3>3 DEF TurnEnds, Keeps
  <2>2. CASE UNCHANGED <<holder, finished, excused>>
    BY <1>32, <2>2 DEF TurnEnds, Keeps, Live, Alive
  <2> QED BY <1>32, <2>1, <2>2 DEF TurnEnds
<1>33. ASSUME NEW s \in Subs, Dies(s) PROVE Keeps
  <2>0. turn' = turn \ {s} /\ allowed' = allowed \ {s} /\ row' = row
    BY <1>33 DEF Dies
  <2>1. CASE Finish(s)
    <3>1. s \notin Live' /\ Live' \subseteq Live /\ Live' = Alive(row, finished') /\ None \notin Live
      BY <1>33, <2>1, SlotConstants DEF Dies, Finish, Live, Alive
    <3>2. \A u \in Live : u # s /\ holder = u /\ u \in Live' => holder' = u
      BY <2>1, <3>1, ReleaseKeeps DEF Finish
    <3>3. \A u \in Subs : excused[u] \subseteq excused'[u]
      BY <2>1, ExcuseGrows DEF Finish, Release, Races
    <3> QED BY <2>0, <3>1, <3>2, <3>3 DEF Keeps
  <2>2. CASE Release(s, Live) /\ UNCHANGED finished
    <3>1. Live' = Live /\ None \notin Live
      BY <2>0, <2>2, SlotConstants DEF Live, Alive
    <3>2. \A u \in Live : u # s /\ holder = u /\ u \in Live' => holder' = u
      BY <2>2, <3>1, ReleaseKeeps
    <3>3. \A u \in Subs : excused[u] \subseteq excused'[u]
      BY <2>2, ExcuseGrows DEF Release, Races
    <3> QED BY <2>0, <3>1, <3>2, <3>3 DEF Keeps
  <2>3. CASE UNCHANGED <<holder, finished>> /\ excused' = Excuse({s} \cap carded, "silent")
    <3>1. Live' = Live
      BY <2>0, <2>3 DEF Live
    <3>2. \A u \in Subs : excused[u] \subseteq excused'[u]
      BY <2>3 DEF Excuse
    <3> QED BY <2>0, <2>3, <3>1, <3>2 DEF Keeps
  <2> QED BY <1>33, <2>1, <2>2, <2>3 DEF Dies
<1>34. ASSUME NEW s \in Subs, EndSub(s) PROVE Keeps
  <2>1. s \notin Live' /\ Live' \subseteq Live /\ Live' = Alive(row', finished) /\ None \notin Live
    BY <1>34, SlotConstants DEF EndSub, Stop, Live, Alive
  <2>2. \A u \in Live : u # s /\ holder = u /\ u \in Live' => holder' = u
    BY <1>34, <2>1, LeaveKeeps DEF EndSub, Settle
  <2>3. \A u \in Subs \ {s} : excused[u] \subseteq excused'[u]
    BY <1>34, ExcuseGrows DEF EndSub, Races
  <2>4. turn' = turn \ {s} /\ allowed' = allowed \ {s}
    BY <1>34 DEF EndSub, Stop
  <2> QED BY <2>1, <2>2, <2>3, <2>4 DEF Keeps
<1>35. ASSUME NEW s \in Subs, EndRow(s) PROVE Keeps
  <2>1. s \notin Live' /\ Live' \subseteq Live /\ UNCHANGED holder
    BY <1>35 DEF EndRow, Stop, Live, Alive, slot
  <2>2. \A u \in Subs \ {s} : excused'[u] = excused[u]
    BY <1>35 DEF EndRow
  <2>3. allowed' = allowed \ {s}
    BY <1>35 DEF EndRow, Stop
  <2> QED BY <2>1, <2>2, <2>3 DEF Keeps
<1>36. ASSUME SlotSweep PROVE Keeps
  <2>1. \A u \in Live : holder = u => holder' = u
    BY <1>36, SweepKeeps, SlotConstants DEF SlotSweep, Live, Alive
  <2>2. \A u \in Subs : excused[u] \subseteq excused'[u]
    BY <1>36, SweepLife DEF SlotSweep
  <2> QED BY <1>36, <2>1, <2>2 DEF SlotSweep, Keeps, Live, Alive, rows, process
<1>37. ASSUME MergeEnds PROVE Keeps
  <2>1. \A u \in Live : holder = u => holder' = u
    BY <1>37, SweepKeeps, SlotConstants DEF MergeEnds, Live, Alive
  <2>2. \A u \in Subs : excused[u] \subseteq excused'[u]
    BY <1>37, SweepLife DEF MergeEnds
  <2> QED BY <1>37, <2>1, <2>2 DEF MergeEnds, Keeps, Live, Alive, rows, process
<1>38. ASSUME MergeStarts PROVE Keeps
  BY <1>38 DEF MergeStarts, Keeps, Live, Alive, rows, process, tasks, slot, history
<1>39. ASSUME HeldSweep PROVE Keeps
  BY <1>39 DEF HeldSweep, Keeps, Live, Alive, rows, process, tasks, slot, history
<1>40. ASSUME ClaimExpires PROVE Keeps
  BY <1>40 DEF ClaimExpires, Keeps, Live, Alive, rows, process, tasks, slot, history
<1>41. ASSUME Restart PROVE Keeps
  BY <1>41 DEF Restart, Keeps
<1>42. ASSUME UNCHANGED vars PROVE Keeps
  BY <1>42 DEF vars, Keeps, Live, Alive, rows, process, tasks, slot, history
<1> QED BY <1>1, <1>2, <1>3, <1>4, <1>5, <1>6, <1>7, <1>8, <1>9, <1>10, <1>11, <1>12,
         <1>13, <1>14, <1>15, <1>16, <1>17, <1>18, <1>19, <1>20, <1>21, <1>22, <1>23,
         <1>24, <1>25, <1>26, <1>27, <1>28, <1>29, <1>30, <1>31, <1>32, <1>33, <1>34,
         <1>35, <1>36, <1>37, <1>38, <1>39, <1>40, <1>41, <1>42
     DEF Next

\* A running sub with an edit under way or uncommitted keeps the slot
\* (on_waiting_on_joe), except for an edit after the look at git.
THEOREM DirtyKeep == Spec => DirtySlotStays
<1>1. Keeps =>
        \A s \in turn \cap turn' \cap (allowed \cup dirty) \cap Live \cap Live' :
          holder = s => holder' = s \/ "loose" \in excused[s]
  BY DEF Keeps
<1>2. Life /\ Placed /\ RestOK /\ Waiting /\ Editing /\ [Next]_vars =>
        [\A s \in turn \cap turn' \cap (allowed \cup dirty) \cap Live \cap Live' :
           holder = s => holder' = s \/ "loose" \in excused[s]]_vars
  BY <1>1, KeepsStep
<1> QED BY <1>2, EditingAlways, PTL DEF Spec, DirtySlotStays

\* An edit under way is the holder's.
EditorHolds == \A s \in allowed \cap Live : holder = s \/ "loose" \in excused[s]

LEMMA EditorStep == EditorHolds /\ Keeps /\ Editing /\ Editing' => EditorHolds'
BY DEF EditorHolds, Keeps, Editing, TurnsAreReal

\* Two running subs never have an edit under way at once (writers.rs check_write),
\* unless one of them asked Joe and went on editing meanwhile.
THEOREM OneEdits == Spec => []OneEditor
<1>1. Init => EditorHolds
  BY DEF Init, EditorHolds
<1>2. Life /\ Placed /\ RestOK /\ Waiting /\ Editing /\ EditorHolds /\ [Next]_vars
        => EditorHolds'
  BY KeepsStep, EditingStep, EditorStep
<1>3. EditorHolds => OneEditor
  BY DEF EditorHolds, OneEditor
<1> QED BY <1>1, <1>2, <1>3, EditingAlways, PTL DEF Spec
===============================================================================
