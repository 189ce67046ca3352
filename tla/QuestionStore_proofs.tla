------------------------- MODULE QuestionStore_proofs -------------------------
(***************************************************************************)
(* Proofs about QuestionStore, for any sets of cards and handlers and any  *)
(* number of deaths.                                                       *)
(*                                                                         *)
(* The three properties about the file are not inductive: a handler that   *)
(* is about to write holds a copy taken earlier, and what it writes depends *)
(* on every list taken since.  The invariant therefore speaks about the    *)
(* numbered lists: a card that was acknowledged as posted is in EVERY list *)
(* from the last written one on, a card acknowledged as settled is in none *)
(* of them, and the same holds from a handler's own copy on while it has   *)
(* not written yet.                                                        *)
(***************************************************************************)
EXTENDS QuestionStore, TLAPS

\* The numbered lists, the file and the copies in flight agree.
Numbering ==
  /\ Len(lists) = version + 1
  /\ diskVer <= written /\ written <= version
  /\ disk = lists[diskVer + 1]
  /\ \A w \in Workers : pc[w] = "write" =>
        /\ ver[w] >= 1 /\ ver[w] <= version
        /\ body[w] = lists[ver[w] + 1]

\* While the daemon is down nothing is in memory and nothing in flight.
DownIsEmpty ==
  phase = "down" =>
    /\ open = {} /\ version = 0
    /\ \A w \in Workers : pc[w] = "idle"

\* A card is only seen after its seq was drawn.
SeenAreUsed ==
  /\ open \subseteq Used /\ posted \subseteq Used /\ settled \subseteq Used
  /\ \A w \in Workers : subject[w] \subseteq Used
  /\ \A i \in DOMAIN lists : lists[i] \subseteq Used

\* A card about to be inserted is known to nobody else.
InsertIsFresh ==
  \A w \in Workers : pc[w] = "insert" =>
    /\ op[w] = "add"
    /\ subject[w] \cap (open \cup posted \cup settled) = {}
    /\ \A u \in Workers \ {w} : subject[u] \cap subject[w] = {}

PostedInLists ==
  /\ \A c \in posted \cap open : \A v \in written .. version : c \in lists[v + 1]
  /\ \A w \in Workers : pc[w] = "write" /\ op[w] = "add" =>
        \A c \in subject[w] \cap open : \A v \in ver[w] .. version : c \in lists[v + 1]

SettledInNoList ==
  /\ \A w \in Workers : pc[w] \in {"snapshot", "write"} /\ op[w] = "remove" =>
        subject[w] \cap open = {}
  /\ \A w \in Workers : pc[w] = "write" /\ op[w] = "remove" =>
        \A c \in subject[w] : \A v \in ver[w] .. version : c \notin lists[v + 1]
  /\ ~tainted =>
        /\ settled \cap open = {}
        /\ \A c \in settled : \A v \in written .. version : c \notin lists[v + 1]

\* The last list is current unless a handler still has to take its copy, and
\* the last list is written unless a handler still has to write it.
LastListCurrent ==
  phase # "down" =>
    /\ (\A w \in Workers : pc[w] # "snapshot") => lists[version + 1] = open
    /\ written = version \/ \E w \in Workers : pc[w] = "write" /\ ver[w] = version

Inv ==
  /\ TypeOK /\ Numbering /\ DownIsEmpty /\ SeenAreUsed /\ InsertIsFresh
  /\ PostedInLists /\ SettledInNoList /\ LastListCurrent

-------------------------------------------------------------------------------
\* Every step keeps every variable in its type.
LEMMA TypeStep == TypeOK /\ [Next]_vars => TypeOK'
<1> SUFFICES ASSUME TypeOK, [Next]_vars PROVE TypeOK'
  OBVIOUS
<1> USE DEF TypeOK, memory, jobs, history
<1>1. ASSUME NEW w \in Workers, NEW c \in Cards, DrawSeq(w, c) PROVE TypeOK'
  BY <1>1 DEF DrawSeq
<1>2. ASSUME NEW w \in Workers, Insert(w) PROVE TypeOK'
  BY <1>2 DEF Insert
<1>3. ASSUME NEW w \in Workers, NEW c \in Cards, Remove(w, c) PROVE TypeOK'
  BY <1>3 DEF Remove
<1>4. ASSUME NEW w \in Workers, Snapshot(w) PROVE TypeOK'
  BY <1>4 DEF Snapshot, NextVersion
<1>5. ASSUME NEW w \in Workers, SkipWrite(w) PROVE TypeOK'
  BY <1>5 DEF SkipWrite, Acknowledge
<1>6. ASSUME NEW w \in Workers, WriteFile(w) PROVE TypeOK'
  BY <1>6 DEF WriteFile, Acknowledge
<1>7. ASSUME NEW w \in Workers, WriteFails(w) PROVE TypeOK'
  BY <1>7 DEF WriteFails, Acknowledge
<1>8. ASSUME NEW w \in Workers, Reconcile(w) PROVE TypeOK'
  BY <1>8 DEF Reconcile
<1>9. CASE Crash
  BY <1>9 DEF Crash
<1>10. CASE Boot
  BY <1>10 DEF Boot, NumbersAbove
<1>11. CASE UNCHANGED vars
  BY <1>11 DEF vars
<1> QED
  BY <1>1, <1>2, <1>3, <1>4, <1>5, <1>6, <1>7, <1>8, <1>9, <1>10, <1>11 DEF Next

LEMMA TypeInit == Init => TypeOK
<1> SUFFICES ASSUME Init PROVE TypeOK
  OBVIOUS
<1> USE DEF Init
<1>1. drawn \in Seq(Cards)
  OBVIOUS
<1>2. lists \in Seq(SUBSET Cards)
  OBVIOUS
<1>3. /\ seqOf \in [Cards -> Nat] /\ ver \in [Workers -> Nat]
      /\ body \in [Workers -> SUBSET Cards] /\ subject \in [Workers -> SUBSET Cards]
  OBVIOUS
<1> QED
  BY <1>1, <1>2, <1>3 DEF TypeOK

\* Every variable keeps its type in every reachable state.
THEOREM TypeCorrect == Spec => []TypeOK
  BY TypeInit, TypeStep, PTL DEF Spec

\* Drawing a seq adds the card to the used ones; no other step changes them.
LEMMA UsedGrows ==
  ASSUME TypeOK, NEW w \in Workers, NEW c \in Cards, DrawSeq(w, c)
  PROVE  Used' = Used \cup {c}
<1>1. DOMAIN drawn' = DOMAIN drawn \cup {Len(drawn) + 1}
  BY DEF TypeOK, DrawSeq
<1>2. drawn'[Len(drawn) + 1] = c /\ \A i \in DOMAIN drawn : drawn'[i] = drawn[i]
  BY DEF TypeOK, DrawSeq
<1> QED
  BY <1>1, <1>2 DEF Used

LEMMA UsedSame == drawn' = drawn => Used' = Used
  BY DEF Used

LEMMA NumberingStep == Inv /\ [Next]_vars => Numbering'
<1> SUFFICES ASSUME Inv, [Next]_vars PROVE Numbering'
  OBVIOUS
<1> USE DEF Inv, TypeOK, Numbering, memory, jobs, history
<1>1. ASSUME NEW w \in Workers, NEW c \in Cards, DrawSeq(w, c) PROVE Numbering'
  BY <1>1 DEF DrawSeq
<1>2. ASSUME NEW w \in Workers, Insert(w) PROVE Numbering'
  BY <1>2 DEF Insert
<1>3. ASSUME NEW w \in Workers, NEW c \in Cards, Remove(w, c) PROVE Numbering'
  BY <1>3 DEF Remove
<1>4. ASSUME NEW w \in Workers, Snapshot(w) PROVE Numbering'
  BY <1>4 DEF Snapshot, NextVersion
<1>5. ASSUME NEW w \in Workers, SkipWrite(w) PROVE Numbering'
  BY <1>5 DEF SkipWrite, Acknowledge, Newer
<1>6. ASSUME NEW w \in Workers, WriteFile(w) PROVE Numbering'
  BY <1>6 DEF WriteFile, Acknowledge, Newer
<1>7. ASSUME NEW w \in Workers, WriteFails(w) PROVE Numbering'
  BY <1>7 DEF WriteFails, Acknowledge, Newer
<1>8. ASSUME NEW w \in Workers, Reconcile(w) PROVE Numbering'
  BY <1>8 DEF Reconcile
<1>9. CASE Crash
  BY <1>9 DEF Crash
<1>10. CASE Boot
  BY <1>10 DEF Boot, NumbersAbove
<1>11. CASE UNCHANGED vars
  BY <1>11 DEF vars
<1> QED
  BY <1>1, <1>2, <1>3, <1>4, <1>5, <1>6, <1>7, <1>8, <1>9, <1>10, <1>11 DEF Next

LEMMA DownStep == Inv /\ [Next]_vars => DownIsEmpty'
<1> SUFFICES ASSUME Inv, [Next]_vars PROVE DownIsEmpty'
  OBVIOUS
<1> USE DEF Inv, TypeOK, DownIsEmpty, Serving, memory, jobs, history
<1>1. ASSUME NEW w \in Workers, NEW c \in Cards, DrawSeq(w, c) PROVE DownIsEmpty'
  BY <1>1 DEF DrawSeq
<1>2. ASSUME NEW w \in Workers, Insert(w) PROVE DownIsEmpty'
  BY <1>2 DEF Insert
<1>3. ASSUME NEW w \in Workers, NEW c \in Cards, Remove(w, c) PROVE DownIsEmpty'
  BY <1>3 DEF Remove
<1>4. ASSUME NEW w \in Workers, Snapshot(w) PROVE DownIsEmpty'
  BY <1>4 DEF Snapshot, NextVersion
<1>5. ASSUME NEW w \in Workers, SkipWrite(w) PROVE DownIsEmpty'
  BY <1>5 DEF SkipWrite, Acknowledge, Newer
<1>6. ASSUME NEW w \in Workers, WriteFile(w) PROVE DownIsEmpty'
  BY <1>6 DEF WriteFile, Acknowledge, Newer
<1>7. ASSUME NEW w \in Workers, WriteFails(w) PROVE DownIsEmpty'
  BY <1>7 DEF WriteFails, Acknowledge, Newer
<1>8. ASSUME NEW w \in Workers, Reconcile(w) PROVE DownIsEmpty'
  BY <1>8 DEF Reconcile
<1>9. CASE Crash
  BY <1>9 DEF Crash
<1>10. CASE Boot
  BY <1>10 DEF Boot, NumbersAbove
<1>11. CASE UNCHANGED vars
  BY <1>11 DEF vars
<1> QED
  BY <1>1, <1>2, <1>3, <1>4, <1>5, <1>6, <1>7, <1>8, <1>9, <1>10, <1>11 DEF Next

LEMMA FreshStep == Inv /\ [Next]_vars => InsertIsFresh'
<1> SUFFICES ASSUME Inv, [Next]_vars PROVE InsertIsFresh'
  OBVIOUS
<1> USE DEF Inv, TypeOK, InsertIsFresh, SeenAreUsed, DownIsEmpty, memory, jobs, history
<1>1. ASSUME NEW w \in Workers, NEW c \in Cards, DrawSeq(w, c) PROVE InsertIsFresh'
  BY <1>1 DEF DrawSeq
<1>2. ASSUME NEW w \in Workers, Insert(w) PROVE InsertIsFresh'
  BY <1>2 DEF Insert
<1>3. ASSUME NEW w \in Workers, NEW c \in Cards, Remove(w, c) PROVE InsertIsFresh'
  BY <1>3 DEF Remove
<1>4. ASSUME NEW w \in Workers, Snapshot(w) PROVE InsertIsFresh'
  BY <1>4 DEF Snapshot, NextVersion
<1>5. ASSUME NEW w \in Workers, SkipWrite(w) PROVE InsertIsFresh'
  BY <1>5 DEF SkipWrite, Acknowledge, Newer
<1>6. ASSUME NEW w \in Workers, WriteFile(w) PROVE InsertIsFresh'
  BY <1>6 DEF WriteFile, Acknowledge, Newer
<1>7. ASSUME NEW w \in Workers, WriteFails(w) PROVE InsertIsFresh'
  BY <1>7 DEF WriteFails, Acknowledge, Newer
<1>8. ASSUME NEW w \in Workers, Reconcile(w) PROVE InsertIsFresh'
  BY <1>8 DEF Reconcile
<1>9. CASE Crash
  BY <1>9 DEF Crash
<1>10. CASE Boot
  BY <1>10 DEF Boot, NumbersAbove
<1>11. CASE UNCHANGED vars
  BY <1>11 DEF vars
<1> QED
  BY <1>1, <1>2, <1>3, <1>4, <1>5, <1>6, <1>7, <1>8, <1>9, <1>10, <1>11 DEF Next

LEMMA PostedStep == Inv /\ [Next]_vars => PostedInLists'
<1> SUFFICES ASSUME Inv, [Next]_vars PROVE PostedInLists'
  OBVIOUS
<1> USE DEF Inv, TypeOK, PostedInLists, Numbering, InsertIsFresh, DownIsEmpty, memory, jobs, history
<1>1. ASSUME NEW w \in Workers, NEW c \in Cards, DrawSeq(w, c) PROVE PostedInLists'
  BY <1>1 DEF DrawSeq
<1>2. ASSUME NEW w \in Workers, Insert(w) PROVE PostedInLists'
  BY <1>2 DEF Insert
<1>3. ASSUME NEW w \in Workers, NEW c \in Cards, Remove(w, c) PROVE PostedInLists'
  BY <1>3 DEF Remove
<1>4. ASSUME NEW w \in Workers, Snapshot(w) PROVE PostedInLists'
  <2> USE <1>4 DEF Snapshot, NextVersion
  <2>1. \A v \in 1 .. version + 1 : lists'[v] = lists[v]
    OBVIOUS
  <2>2. lists'[version' + 1] = open /\ version' = version + 1
    OBVIOUS
  <2>3. ASSUME NEW c \in posted \cap open, NEW v \in written .. version'
        PROVE c \in lists'[v + 1]
    BY <2>1, <2>2
  <2>4. ASSUME NEW u \in Workers, pc'[u] = "write", op[u] = "add",
               NEW c \in subject[u] \cap open, NEW v \in ver'[u] .. version'
        PROVE c \in lists'[v + 1]
    <3>1. CASE v = version'
      BY <2>2, <3>1
    <3>2. CASE v # version'
      <4>1. u # w /\ v \in ver[u] .. version
        BY <2>4, <2>2, <3>2
      <4> QED
        BY <2>4, <2>1, <4>1
    <3> QED
      BY <3>1, <3>2
  <2> QED
    BY <2>3, <2>4
<1>5. ASSUME NEW w \in Workers, SkipWrite(w) PROVE PostedInLists'
  <2> USE <1>5 DEF SkipWrite, Acknowledge, Newer
  <2>1. ASSUME NEW c \in posted' \cap open', NEW v \in written' .. version'
        PROVE c \in lists'[v + 1]
    <3>1. CASE c \in posted
      BY <2>1, <3>1
    <3>2. CASE c \notin posted
      <4>1. op[w] = "add" /\ c \in subject[w] \cap open
        BY <2>1, <3>2
      <4>2. v \in ver[w] .. version
        BY <2>1
      <4> QED
        BY <4>1, <4>2
    <3> QED
      BY <3>1, <3>2
  <2> QED
    BY <2>1
<1>6. ASSUME NEW w \in Workers, WriteFile(w) PROVE PostedInLists'
  BY <1>6 DEF WriteFile, Acknowledge, Newer
<1>7. ASSUME NEW w \in Workers, WriteFails(w) PROVE PostedInLists'
  BY <1>7 DEF WriteFails, Acknowledge, Newer
<1>8. ASSUME NEW w \in Workers, Reconcile(w) PROVE PostedInLists'
  BY <1>8 DEF Reconcile
<1>9. CASE Crash
  BY <1>9 DEF Crash
<1>10. CASE Boot
  BY <1>10 DEF Boot, NumbersAbove
<1>11. CASE UNCHANGED vars
  BY <1>11 DEF vars
<1> QED
  BY <1>1, <1>2, <1>3, <1>4, <1>5, <1>6, <1>7, <1>8, <1>9, <1>10, <1>11 DEF Next

LEMMA SettledStep == Inv /\ [Next]_vars => SettledInNoList'
<1> SUFFICES ASSUME Inv, [Next]_vars PROVE SettledInNoList'
  OBVIOUS
<1> USE DEF Inv, TypeOK, SettledInNoList, Numbering, InsertIsFresh, DownIsEmpty, memory, jobs, history
<1>1. ASSUME NEW w \in Workers, NEW c \in Cards, DrawSeq(w, c) PROVE SettledInNoList'
  BY <1>1 DEF DrawSeq
<1>2. ASSUME NEW w \in Workers, Insert(w) PROVE SettledInNoList'
  <2> USE <1>2 DEF Insert
  <2>1. ASSUME NEW u \in Workers, pc'[u] \in {"snapshot", "write"}, op'[u] = "remove"
        PROVE subject'[u] \cap open' = {}
    <3>1. CASE u = w
      <4>1. op[w] = "add"
        OBVIOUS
      <4> QED
        BY <2>1, <3>1, <4>1
    <3>2. CASE u # w
      BY <2>1, <3>2
    <3> QED
      BY <3>1, <3>2
  <2>2. ~tainted' => settled' \cap open' = {}
    OBVIOUS
  <2> QED
    BY <2>1, <2>2
<1>3. ASSUME NEW w \in Workers, NEW c \in Cards, Remove(w, c) PROVE SettledInNoList'
  BY <1>3 DEF Remove
<1>4. ASSUME NEW w \in Workers, Snapshot(w) PROVE SettledInNoList'
  BY <1>4 DEF Snapshot, NextVersion
<1>5. ASSUME NEW w \in Workers, SkipWrite(w) PROVE SettledInNoList'
  <2> USE <1>5 DEF SkipWrite, Acknowledge, Newer
  <2>1. ASSUME ~tainted', NEW c \in settled', NEW v \in written' .. version'
        PROVE c \notin open' /\ c \notin lists'[v + 1]
    <3>1. CASE c \in settled
      BY <2>1, <3>1
    <3>2. CASE c \notin settled
      <4>1. op[w] = "remove" /\ c \in subject[w]
        BY <2>1, <3>2
      <4>2. v \in ver[w] .. version
        BY <2>1
      <4> QED
        BY <4>1, <4>2
    <3> QED
      BY <3>1, <3>2
  <2>2. version' = version /\ written' = written /\ open' = open /\ tainted' = tainted
    OBVIOUS
  <2>3. ~tainted' => settled' \cap open' = {}
    <3>1. written \in written' .. version'
      BY <2>2
    <3> QED
      BY <2>1, <3>1
  <2> QED
    BY <2>1, <2>3
<1>6. ASSUME NEW w \in Workers, WriteFile(w) PROVE SettledInNoList'
  BY <1>6 DEF WriteFile, Acknowledge, Newer
<1>7. ASSUME NEW w \in Workers, WriteFails(w) PROVE SettledInNoList'
  BY <1>7 DEF WriteFails, Acknowledge, Newer
<1>8. ASSUME NEW w \in Workers, Reconcile(w) PROVE SettledInNoList'
  BY <1>8 DEF Reconcile
<1>9. CASE Crash
  <2> USE <1>9 DEF Crash
  <2>1. ASSUME ~tainted', NEW c \in settled', NEW v \in written' .. version'
        PROVE c \notin lists'[v + 1]
    <3>1. ~tainted /\ diskVer = written
      BY <2>1
    <3>2. c \notin lists[written + 1]
      BY <2>1, <3>1
    <3>3. lists'[v + 1] = disk
      BY <2>1
    <3> QED
      BY <3>1, <3>2, <3>3
  <2> QED
    BY <2>1
<1>10. CASE Boot
  BY <1>10 DEF Boot, NumbersAbove
<1>11. CASE UNCHANGED vars
  BY <1>11 DEF vars
<1> QED
  BY <1>1, <1>2, <1>3, <1>4, <1>5, <1>6, <1>7, <1>8, <1>9, <1>10, <1>11 DEF Next

LEMMA LastListStep == Inv /\ [Next]_vars => LastListCurrent'
<1> SUFFICES ASSUME Inv, [Next]_vars PROVE LastListCurrent'
  OBVIOUS
<1> USE DEF Inv, TypeOK, LastListCurrent, Numbering, DownIsEmpty, Serving, memory, jobs, history
<1>1. ASSUME NEW w \in Workers, NEW c \in Cards, DrawSeq(w, c) PROVE LastListCurrent'
  BY <1>1 DEF DrawSeq
<1>2. ASSUME NEW w \in Workers, Insert(w) PROVE LastListCurrent'
  BY <1>2 DEF Insert
<1>3. ASSUME NEW w \in Workers, NEW c \in Cards, Remove(w, c) PROVE LastListCurrent'
  BY <1>3 DEF Remove
<1>4. ASSUME NEW w \in Workers, Snapshot(w) PROVE LastListCurrent'
  BY <1>4 DEF Snapshot, NextVersion
<1>5. ASSUME NEW w \in Workers, SkipWrite(w) PROVE LastListCurrent'
  BY <1>5 DEF SkipWrite, Acknowledge, Newer
<1>6. ASSUME NEW w \in Workers, WriteFile(w) PROVE LastListCurrent'
  BY <1>6 DEF WriteFile, Acknowledge, Newer
<1>7. ASSUME NEW w \in Workers, WriteFails(w) PROVE LastListCurrent'
  BY <1>7 DEF WriteFails, Acknowledge, Newer
<1>8. ASSUME NEW w \in Workers, Reconcile(w) PROVE LastListCurrent'
  BY <1>8 DEF Reconcile
<1>9. CASE Crash
  BY <1>9 DEF Crash
<1>10. CASE Boot
  BY <1>10 DEF Boot, NumbersAbove
<1>11. CASE UNCHANGED vars
  BY <1>11 DEF vars
<1> QED
  BY <1>1, <1>2, <1>3, <1>4, <1>5, <1>6, <1>7, <1>8, <1>9, <1>10, <1>11 DEF Next

LEMMA UsedStep == Inv /\ [Next]_vars => SeenAreUsed'
<1> SUFFICES ASSUME Inv, [Next]_vars PROVE SeenAreUsed'
  OBVIOUS
<1> USE DEF Inv, TypeOK, SeenAreUsed, Numbering, memory, jobs, history
<1>1. ASSUME NEW w \in Workers, NEW c \in Cards, DrawSeq(w, c) PROVE SeenAreUsed'
  <2>1. Used \subseteq Used' /\ c \in Used'
    BY <1>1, UsedGrows
  <2>2. subject' = [subject EXCEPT ![w] = {c}]
    BY <1>1 DEF DrawSeq
  <2>3. \A u \in Workers : subject'[u] \subseteq Used'
    BY <2>1, <2>2
  <2>4. UNCHANGED <<open, posted, settled, lists>>
    BY <1>1 DEF DrawSeq
  <2> QED
    BY <2>1, <2>3, <2>4
<1>2. ASSUME NEW w \in Workers, Insert(w) PROVE SeenAreUsed'
  BY <1>2, UsedSame DEF Insert
<1>3. ASSUME NEW w \in Workers, NEW c \in Cards, Remove(w, c) PROVE SeenAreUsed'
  BY <1>3, UsedSame DEF Remove
<1>4. ASSUME NEW w \in Workers, Snapshot(w) PROVE SeenAreUsed'
  <2> USE <1>4 DEF Snapshot, NextVersion
  <2>1. Used' = Used
    BY UsedSame
  <2>2. ASSUME NEW i \in DOMAIN lists' PROVE lists'[i] \subseteq Used
    <3>1. lists' = Append(lists, open)
      OBVIOUS
    <3>2. (i \in DOMAIN lists /\ lists'[i] = lists[i]) \/ lists'[i] = open
      BY <3>1
    <3> QED
      BY <3>2
  <2> QED
    BY <2>1, <2>2
<1>5. ASSUME NEW w \in Workers, SkipWrite(w) PROVE SeenAreUsed'
  BY <1>5, UsedSame DEF SkipWrite, Acknowledge, Newer
<1>6. ASSUME NEW w \in Workers, WriteFile(w) PROVE SeenAreUsed'
  BY <1>6, UsedSame DEF WriteFile, Acknowledge, Newer
<1>7. ASSUME NEW w \in Workers, WriteFails(w) PROVE SeenAreUsed'
  BY <1>7, UsedSame DEF WriteFails, Acknowledge, Newer
<1>8. ASSUME NEW w \in Workers, Reconcile(w) PROVE SeenAreUsed'
  BY <1>8, UsedSame DEF Reconcile
<1>9. CASE Crash
  <2>1. diskVer + 1 \in DOMAIN lists
    OBVIOUS
  <2>2. disk \subseteq Used
    BY <2>1
  <2>3. Used' = Used
    BY <1>9, UsedSame DEF Crash
  <2> QED
    BY <1>9, <2>2, <2>3 DEF Crash
<1>10. CASE Boot
  <2>1. diskVer + 1 \in DOMAIN lists
    OBVIOUS
  <2>2. disk \subseteq Used
    BY <2>1
  <2>3. Used' = Used
    BY <1>10, UsedSame DEF Boot
  <2> QED
    BY <1>10, <2>2, <2>3 DEF Boot
<1>11. CASE UNCHANGED vars
  BY <1>11, UsedSame DEF vars
<1> QED
  BY <1>1, <1>2, <1>3, <1>4, <1>5, <1>6, <1>7, <1>8, <1>9, <1>10, <1>11 DEF Next

\* The invariant holds in every reachable state.
THEOREM InvHolds == Spec => []Inv
<1>1. Init => Inv
  <2> SUFFICES ASSUME Init PROVE Inv
    OBVIOUS
  <2> USE DEF Init
  <2>1. Numbering /\ DownIsEmpty /\ InsertIsFresh /\ PostedInLists
    BY DEF Numbering, DownIsEmpty, InsertIsFresh, PostedInLists
  <2>2. SeenAreUsed /\ SettledInNoList /\ LastListCurrent
    BY DEF SeenAreUsed, SettledInNoList, LastListCurrent
  <2> QED
    BY <2>1, <2>2, TypeInit DEF Inv
<1>2. Inv /\ [Next]_vars => Inv'
  <2> SUFFICES ASSUME Inv, [Next]_vars PROVE Inv'
    OBVIOUS
  <2>1. TypeOK'
    BY TypeStep DEF Inv
  <2> QED
    BY <2>1, NumberingStep, DownStep, FreshStep, PostedStep, SettledStep,
       LastListStep, UsedStep DEF Inv
<1> QED
  BY <1>1, <1>2, PTL DEF Spec

-------------------------------------------------------------------------------
\* An acknowledged card that is still open is in the file, whatever other saves
\* are in flight: persist_pending_questions never lets an older copy win.
THEOREM PostedSurvives == Spec => []PostedCardSurvives
<1>1. Inv => PostedCardSurvives
  <2> SUFFICES ASSUME Inv, Serving, DiskHealthy, NEW c \in posted \cap open
               PROVE  c \in disk
    BY DEF PostedCardSurvives
  <2>1. written \in written .. version /\ disk = lists[written + 1]
    BY DEF Inv, TypeOK, Numbering, DiskHealthy
  <2> QED
    BY <2>1 DEF Inv, PostedInLists
<1> QED
  BY <1>1, InvHolds, PTL

\* A card whose answer was acknowledged is never in the file again, so no later
\* start of the daemon restores it.
THEOREM SettledGone == Spec => []SettledCardStaysGone
<1>1. Inv => SettledCardStaysGone
  <2> SUFFICES ASSUME Inv, Serving, DiskHealthy, NEW c \in settled
               PROVE  c \notin disk
    BY DEF SettledCardStaysGone
  <2>1. written \in written .. version /\ disk = lists[written + 1]
    BY DEF Inv, TypeOK, Numbering, DiskHealthy
  <2> QED
    BY <2>1 DEF Inv, SettledInNoList, DiskHealthy
<1> QED
  BY <1>1, InvHolds, PTL

\* Once no save is in flight the file holds exactly the open cards.
THEOREM QuietCurrent == Spec => []QuietFileIsCurrent
<1>1. Inv => QuietFileIsCurrent
  <2> SUFFICES ASSUME Inv, Serving, DiskHealthy,
                      \A w \in Workers : pc[w] \notin {"snapshot", "write"}
               PROVE  disk = open
    BY DEF QuietFileIsCurrent
  <2>1. disk = lists[written + 1]
    BY DEF Inv, Numbering, DiskHealthy
  <2>2. written = version /\ lists[version + 1] = open
    BY DEF Inv, LastListCurrent, Serving
  <2> QED
    BY <2>1, <2>2
<1> QED
  BY <1>1, InvHolds, PTL

\* The store implements CardFile: the file is always one of the numbered copies
\* and only moves to a later one, with failed and skipped writes in between.
THEOREM Refinement == Spec => FileMovesForward
<1> USE DEF File!Init, File!Next, File!fileVars
<1>1. Init => File!Init
  BY DEF Init
<1>2. Inv /\ [Next]_vars => [File!Next]_File!fileVars
  <2> SUFFICES ASSUME Inv, [Next]_vars PROVE [File!Next]_File!fileVars
    OBVIOUS
  <2> USE DEF Inv, TypeOK, Numbering, memory, jobs, history
  <2>1. ASSUME NEW w \in Workers, Snapshot(w) PROVE File!TakeList
    BY <2>1 DEF Snapshot, NextVersion, File!TakeList
  <2>2. ASSUME NEW w \in Workers, WriteFile(w) PROVE File!Save
    <3>1. ver[w] + 1 \in DOMAIN lists /\ ver[w] + 1 > diskVer + 1
      BY <2>2 DEF WriteFile, Newer
    <3>2. diskVer' + 1 = ver[w] + 1 /\ disk' = lists[ver[w] + 1] /\ lists' = lists
      BY <2>2 DEF WriteFile, Newer
    <3> QED
      BY <3>1, <3>2 DEF File!Save
  <2>3. CASE Crash
    BY <2>3 DEF Crash, File!Restart
  <2>4. ASSUME NEW w \in Workers,
               SkipWrite(w) \/ WriteFails(w) \/ Insert(w) \/ Reconcile(w)
        PROVE  UNCHANGED File!fileVars
    BY <2>4 DEF SkipWrite, WriteFails, Insert, Reconcile, Acknowledge
  <2>5. ASSUME NEW w \in Workers, NEW c \in Cards, DrawSeq(w, c) \/ Remove(w, c)
        PROVE  UNCHANGED File!fileVars
    BY <2>5 DEF DrawSeq, Remove
  <2>6. CASE Boot \/ UNCHANGED vars
    BY <2>6 DEF Boot, vars
  <2> QED
    BY <2>1, <2>2, <2>3, <2>4, <2>5, <2>6 DEF Next
<1> QED
  BY <1>1, <1>2, InvHolds, PTL DEF Spec, FileMovesForward, File!Spec

-------------------------------------------------------------------------------
\* A card some part of the running daemon, or the file, still knows.
Alive == {c \in Cards :
            \/ c \in open
            \/ \E w \in Workers : pc[w] = "insert" /\ c \in subject[w]
            \/ \E i \in DOMAIN lists : c \in lists[i]}

\* Cards still known carry their seq in the order they were drawn, and the next
\* number drawn is larger than all of them.
SeqInv ==
  /\ \A i, j \in DOMAIN drawn :
        i < j /\ drawn[i] \in Alive /\ drawn[j] \in Alive
          => seqOf[drawn[i]] < seqOf[drawn[j]]
  /\ phase # "down" => \A c \in Alive : seqOf[c] < nextSeq

LEMMA SeqStep == Inv /\ Inv' /\ SeqInv /\ [Next]_vars => SeqInv'
<1> SUFFICES ASSUME Inv, Inv', SeqInv, [Next]_vars PROVE SeqInv'
  OBVIOUS
<1> USE DEF memory, jobs, history
<1>1. ASSUME NEW w \in Workers, NEW c \in Cards, DrawSeq(w, c) PROVE SeqInv'
  <2>1. Alive' \subseteq Alive \cup {c}
    BY <1>1 DEF DrawSeq, Alive, Inv, TypeOK
  <2>2. seqOf'[c] = nextSeq /\ \A d \in Cards \ {c} : seqOf'[d] = seqOf[d]
    BY <1>1 DEF DrawSeq, Inv, TypeOK
  <2>3. nextSeq' = nextSeq + 1 /\ phase # "down" /\ phase' = phase /\ nextSeq \in Nat
    BY <1>1 DEF DrawSeq, Serving, Inv, TypeOK
  <2>4. \A d \in Alive' : seqOf'[d] < nextSeq'
    <3> SUFFICES ASSUME NEW d \in Alive' PROVE seqOf'[d] < nextSeq'
      OBVIOUS
    <3>1. d \in Cards /\ seqOf[d] \in Nat
      BY DEF Alive, Inv, TypeOK
    <3>2. d # c => seqOf[d] < nextSeq
      BY <2>1, <2>3 DEF SeqInv
    <3> QED
      BY <2>2, <2>3, <3>1, <3>2
  <2>5. ASSUME NEW i \in DOMAIN drawn', NEW j \in DOMAIN drawn', i < j,
               drawn'[i] \in Alive', drawn'[j] \in Alive'
        PROVE  seqOf'[drawn'[i]] < seqOf'[drawn'[j]]
    <3>1. /\ DOMAIN drawn = 1 .. Len(drawn) /\ DOMAIN drawn' = 1 .. Len(drawn) + 1
          /\ drawn'[Len(drawn) + 1] = c
          /\ \A k \in DOMAIN drawn : drawn'[k] = drawn[k]
          /\ \A k \in DOMAIN drawn : drawn[k] \in Cards \ {c}
      BY <1>1 DEF DrawSeq, Used, Inv, TypeOK
    <3>2. i \in DOMAIN drawn /\ drawn[i] \in Alive
      BY <2>1, <2>5, <3>1
    <3>3. CASE j \in DOMAIN drawn
      <4>1. drawn[j] \in Alive
        BY <2>1, <2>5, <3>1, <3>3
      <4>2. seqOf[drawn[i]] < seqOf[drawn[j]]
        BY <2>5, <3>2, <3>3, <4>1 DEF SeqInv
      <4> QED
        BY <2>2, <3>1, <3>2, <3>3, <4>2
    <3>4. CASE j = Len(drawn) + 1
      <4>1. seqOf[drawn[i]] < nextSeq
        BY <2>3, <3>2 DEF SeqInv
      <4> QED
        BY <2>2, <3>1, <3>2, <3>4, <4>1
    <3> QED
      BY <3>1, <3>3, <3>4
  <2> QED
    BY <2>4, <2>5 DEF SeqInv
<1>2. ASSUME UNCHANGED <<seqOf, drawn>>, Alive' \subseteq Alive,
             phase' # "down" => phase # "down" /\ nextSeq' = nextSeq
      PROVE  SeqInv'
  BY <1>2 DEF SeqInv
<1>3. ASSUME NEW w \in Workers, Insert(w) PROVE SeqInv'
  <2>1. Alive' \subseteq Alive
    BY <1>3 DEF Insert, Alive, Inv, TypeOK
  <2> QED
    BY <1>2, <1>3, <2>1 DEF Insert
<1>4. ASSUME NEW w \in Workers, NEW c \in Cards, Remove(w, c) PROVE SeqInv'
  <2>1. Alive' \subseteq Alive
    BY <1>4 DEF Remove, Alive, Inv, TypeOK
  <2> QED
    BY <1>2, <1>4, <2>1 DEF Remove
<1>5. ASSUME NEW w \in Workers, Snapshot(w) PROVE SeqInv'
  <2>1. ASSUME NEW i \in DOMAIN lists' PROVE (i \in DOMAIN lists /\ lists'[i] = lists[i]) \/ lists'[i] = open
    BY <1>5 DEF Snapshot, Inv, TypeOK
  <2>2. Alive' \subseteq Alive
    BY <1>5, <2>1 DEF Snapshot, Alive, Inv, TypeOK
  <2> QED
    BY <1>2, <1>5, <2>2 DEF Snapshot
<1>6. ASSUME NEW w \in Workers, SkipWrite(w) \/ WriteFile(w) \/ WriteFails(w) PROVE SeqInv'
  <2>1. Alive' \subseteq Alive
    BY <1>6 DEF SkipWrite, WriteFile, WriteFails, Acknowledge, Alive, Inv, TypeOK
  <2> QED
    BY <1>2, <1>6, <2>1 DEF SkipWrite, WriteFile, WriteFails
<1>7. ASSUME NEW w \in Workers, Reconcile(w) PROVE SeqInv'
  <2>1. Alive' \subseteq Alive
    BY <1>7 DEF Reconcile, Alive, Inv, TypeOK
  <2> QED
    BY <1>2, <1>7, <2>1 DEF Reconcile
<1>8. CASE Crash
  <2>1. disk = lists[diskVer + 1] /\ diskVer + 1 \in DOMAIN lists
    BY DEF Inv, TypeOK, Numbering
  <2>2. Alive' \subseteq Alive
    BY <1>8, <2>1 DEF Crash, Alive, Inv, TypeOK
  <2> QED
    BY <1>2, <1>8, <2>2 DEF Crash
<1>9. CASE Boot
  <2>1. DOMAIN lists = {1} /\ lists[1] = disk
    BY <1>9 DEF Boot, Inv, TypeOK, Numbering, DownIsEmpty
  <2>2. Alive' \subseteq disk /\ disk \subseteq Alive
    BY <1>9, <2>1 DEF Boot, Alive, Inv, TypeOK, DownIsEmpty
  <2>3. \A c \in disk : seqOf[c] < nextSeq'
    BY <1>9 DEF Boot, NumbersAbove
  <2> QED
    BY <1>9, <2>2, <2>3 DEF Boot, SeqInv
<1>10. CASE UNCHANGED vars
  <2>1. Alive' = Alive
    BY <1>10 DEF vars, Alive
  <2> QED
    BY <1>2, <1>10, <2>1 DEF vars
<1> QED
  BY <1>1, <1>3, <1>4, <1>5, <1>6, <1>7, <1>8, <1>9, <1>10 DEF Next

\* Open cards are numbered in the order they were asked, over any number of
\* restarts: a restored card never collides with a new one.
THEOREM SeqOrder == Spec => []SeqFollowsAskOrder
<1>1. Init => SeqInv
  BY DEF Init, SeqInv, Alive
<1>2. Inv /\ SeqInv => SeqFollowsAskOrder
  BY DEF Inv, TypeOK, SeqInv, SeqFollowsAskOrder, Alive
<1> QED
  BY <1>1, <1>2, SeqStep, InvHolds, PTL DEF Spec
===============================================================================
