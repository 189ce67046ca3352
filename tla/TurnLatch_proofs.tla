--------------------------- MODULE TurnLatch_proofs ---------------------------
(***************************************************************************)
(* Why busy does not latch, and why a turn that was opened keeps it: what  *)
(* the pipes of a chat hold, which line or call has still to clear what    *)
(* the row shows, and why none clears it that is of another turn.          *)
(***************************************************************************)
EXTENDS TurnLifecycle_proofs, SequenceTheorems

-------------------------------------------------------------------------------
(* What the pipe to the pump holds.                                          *)

\* A result line of a turn that was run, not of the replayed history.
EndLine(e) == e.kind = "result" /\ e.of # Old

HasEnd(q) == \E k \in 1..Len(q) : EndLine(q[k])
TwoEnds(q) == \E j, k \in 1..Len(q) : j < k /\ EndLine(q[j]) /\ EndLine(q[k])
OneEnd(q) == \A j, k \in 1..Len(q) : EndLine(q[j]) /\ EndLine(q[k]) => j = k

\* Every line of a turn has the end of it, or of a later one, behind it.
AllEnd(q) == \A k \in 1..Len(q) : q[k].of # Old => \E j \in k..Len(q) : EndLine(q[j])

\* The history is nothing but result lines, ahead of everything else.
OldFirst(q) ==
  \A k \in 1..Len(q) : q[k].of = Old =>
    q[k].kind = "result" /\ \A j \in 1..k : q[j].of = Old

NoneOf(q, t) == \A k \in 1..Len(q) : q[k].of # t
AllOld(q) == \A k \in 1..Len(q) : q[k].of = Old
NoInit(q) == \A k \in 1..Len(q) : q[k].kind # "init"

\* Behind an end the next turn begins with its init line ...
Parted(q) ==
  \A j, k \in 1..Len(q) : j < k /\ EndLine(q[j]) => \E i \in j..k : q[i].kind = "init"

\* ... and has, when one runs.
Begun(q) == \A j \in 1..Len(q) : EndLine(q[j]) => \E i \in j..Len(q) : q[i].kind = "init"

LEMMA AppendAt ==
  ASSUME NEW S, NEW q \in Seq(S), NEW e
  PROVE  /\ Len(q) \in Nat /\ Len(Append(q, e)) = Len(q) + 1
         /\ \A k \in 1..Len(q) : Append(q, e)[k] = q[k]
         /\ Append(q, e)[Len(q) + 1] = e
OBVIOUS

LEMMA TailAt ==
  ASSUME NEW S, NEW q \in Seq(S), q # <<>>
  PROVE  /\ Len(q) \in Nat \ {0} /\ Len(Tail(q)) = Len(q) - 1 /\ Head(q) = q[1]
         /\ \A k \in 1..Len(q) - 1 : Tail(q)[k] = q[k + 1]
OBVIOUS

\* A line is added, of a turn that runs.
LEMMA Emitted ==
  ASSUME NEW q \in Seq(Lines), NEW e, e.of # Old, NEW r, r = Append(q, e)
  PROVE  /\ OldFirst(q) => OldFirst(r)
         /\ NoneOf(q, Old) => NoneOf(r, Old)
         /\ \A t : NoneOf(q, t) /\ t # e.of => NoneOf(r, t)
         /\ HasEnd(q) => HasEnd(r)
         /\ TwoEnds(q) => TwoEnds(r)
         /\ NoInit(q) /\ e.kind # "init" => NoInit(r)
         /\ Begun(q) \/ e.kind = "init" => (Parted(q) => Parted(r))
<1> DEFINE n == Len(q)
<1>1. n \in Nat /\ Len(r) = n + 1 /\ (\A k \in 1..n : r[k] = q[k]) /\ r[n + 1] = e
  BY AppendAt
<1>2. \A k \in 1..Len(r) : k \in 1..n \/ k = n + 1
  BY <1>1
<1> HIDE DEF n
<1>3. OldFirst(q) => OldFirst(r)
  BY <1>1, <1>2 DEF OldFirst, n
<1>4. \A t : NoneOf(q, t) /\ t # e.of => NoneOf(r, t)
  BY <1>1, <1>2 DEF NoneOf, n
<1>5. HasEnd(q) => HasEnd(r)
  BY <1>1 DEF HasEnd, n
<1>6. TwoEnds(q) => TwoEnds(r)
  BY <1>1 DEF TwoEnds, n
<1>7. NoInit(q) /\ e.kind # "init" => NoInit(r)
  BY <1>1, <1>2 DEF NoInit, n
<1>8. ASSUME Begun(q) \/ e.kind = "init", Parted(q),
             NEW j \in 1..Len(r), NEW k \in 1..Len(r), j < k, EndLine(r[j])
      PROVE  \E i \in j..k : r[i].kind = "init"
  <2>1. j \in 1..n /\ EndLine(q[j])
    BY <1>1, <1>2, <1>8
  <2>2. CASE k \in 1..n
    <3>1. PICK i \in j..k : q[i].kind = "init"
      BY <1>8, <2>1, <2>2 DEF Parted, n
    <3> QED BY <1>1, <2>1, <2>2, <3>1
  <2>3. CASE k = n + 1 /\ e.kind = "init"
    BY <1>1, <2>1, <2>3
  <2>4. CASE k = n + 1 /\ Begun(q)
    <3>1. PICK i \in j..n : q[i].kind = "init"
      BY <2>1, <2>4 DEF Begun, n
    <3> QED BY <1>1, <2>1, <2>4, <3>1
  <2> QED BY <1>2, <1>8, <2>2, <2>3, <2>4
<1> QED BY <1>3, <1>4, <1>5, <1>6, <1>7, <1>8 DEF Parted

\* ... its end,
LEMMA EmittedEnd ==
  ASSUME NEW q \in Seq(Lines), NEW e, EndLine(e), NEW r, r = Append(q, e)
  PROVE  HasEnd(r) /\ AllEnd(r) /\ (HasEnd(q) => TwoEnds(r))
<1>1. /\ Len(q) \in Nat /\ Len(r) = Len(q) + 1
      /\ \A k \in 1..Len(q) : r[k] = q[k]
      /\ r[Len(q) + 1] = e
  BY AppendAt
<1>2. HasEnd(r)
  BY <1>1 DEF HasEnd
<1>3. AllEnd(r)
  BY <1>1 DEF AllEnd
<1>4. HasEnd(q) => TwoEnds(r)
  BY <1>1 DEF HasEnd, TwoEnds
<1> QED BY <1>2, <1>3, <1>4

\* ... or not its end.
LEMMA EmittedMore ==
  ASSUME NEW q \in Seq(Lines), NEW e, e.kind # "result", NEW r, r = Append(q, e)
  PROVE  /\ HasEnd(r) => HasEnd(q)
         /\ OneEnd(q) => OneEnd(r)
         /\ Begun(q) \/ e.kind = "init" => Begun(r)
<1>1. /\ Len(q) \in Nat /\ Len(r) = Len(q) + 1
      /\ \A k \in 1..Len(q) : r[k] = q[k]
      /\ r[Len(q) + 1] = e
  BY AppendAt
<1>2. \A k \in 1..Len(r) : EndLine(r[k]) => k \in 1..Len(q) /\ EndLine(q[k])
  BY <1>1 DEF EndLine
<1>3. HasEnd(r) => HasEnd(q)
  BY <1>2 DEF HasEnd
<1>4. OneEnd(q) => OneEnd(r)
  BY <1>2 DEF OneEnd
<1>5. ASSUME Begun(q) \/ e.kind = "init", NEW j \in 1..Len(r), EndLine(r[j])
      PROVE  \E i \in j..Len(r) : r[i].kind = "init"
  <2>1. j \in 1..Len(q) /\ EndLine(q[j])
    BY <1>2, <1>5
  <2>2. CASE e.kind = "init"
    BY <1>1, <2>1, <2>2
  <2>3. CASE Begun(q)
    <3>1. PICK i \in j..Len(q) : q[i].kind = "init"
      BY <2>1, <2>3 DEF Begun
    <3> QED BY <1>1, <2>1, <3>1
  <2> QED BY <1>5, <2>2, <2>3
<1> QED BY <1>3, <1>4, <1>5 DEF Begun

\* The first line is read.
LEMMA ReadOn ==
  ASSUME NEW q \in Seq(Lines), q # <<>>, NEW r, r = Tail(q)
  PROVE  /\ OldFirst(q) => OldFirst(r)
         /\ \A t : NoneOf(q, t) => NoneOf(r, t)
         /\ AllOld(q) => AllOld(r)
         /\ NoInit(q) => NoInit(r)
         /\ OneEnd(q) => OneEnd(r)
         /\ AllEnd(q) => AllEnd(r)
         /\ Parted(q) => Parted(r)
         /\ Begun(q) => Begun(r)
         /\ HasEnd(r) => HasEnd(q)
         /\ TwoEnds(q) => HasEnd(r)
         /\ ~EndLine(Head(q)) => (HasEnd(q) => HasEnd(r)) /\ (TwoEnds(q) => TwoEnds(r))
<1> DEFINE n == Len(q)
<1>1. /\ n \in Nat \ {0} /\ Len(r) = n - 1 /\ Head(q) = q[1]
      /\ \A k \in 1..n - 1 : r[k] = q[k + 1]
  BY TailAt
<1>2. \A k \in 1..Len(r) : k + 1 \in 1..n /\ r[k] = q[k + 1]
  BY <1>1
<1>3. \A k \in 2..n : k - 1 \in 1..Len(r) /\ q[k] = r[k - 1]
  BY <1>1, <1>2
<1> HIDE DEF n
<1>4. OldFirst(q) => OldFirst(r)
  <2> SUFFICES ASSUME OldFirst(q), NEW k \in 1..Len(r), r[k].of = Old
               PROVE  r[k].kind = "result" /\ \A j \in 1..k : r[j].of = Old
    BY DEF OldFirst
  <2>1. q[k + 1].kind = "result" /\ \A j \in 1..k + 1 : q[j].of = Old
    BY <1>2 DEF OldFirst, n
  <2>2. ASSUME NEW j \in 1..k PROVE r[j].of = Old
    <3>1. j \in 1..Len(r) /\ j + 1 \in 1..k + 1
      BY <1>1
    <3> QED BY <1>2, <2>1, <3>1
  <2> QED BY <1>2, <2>1, <2>2
<1>5. \A t : NoneOf(q, t) => NoneOf(r, t)
  BY <1>2 DEF NoneOf, n
<1>6. AllOld(q) => AllOld(r)
  BY <1>2 DEF AllOld, n
<1>7. NoInit(q) => NoInit(r)
  BY <1>2 DEF NoInit, n
<1>8. OneEnd(q) => OneEnd(r)
  <2> SUFFICES ASSUME OneEnd(q), NEW j \in 1..Len(r), NEW k \in 1..Len(r),
                      EndLine(r[j]), EndLine(r[k])
               PROVE  j = k
    BY DEF OneEnd
  <2>1. j + 1 = k + 1
    BY <1>2 DEF OneEnd, n
  <2> QED BY <2>1
<1>9. AllEnd(q) => AllEnd(r)
  <2> SUFFICES ASSUME AllEnd(q), NEW k \in 1..Len(r), r[k].of # Old
               PROVE  \E j \in k..Len(r) : EndLine(r[j])
    BY DEF AllEnd
  <2>1. PICK j \in k + 1..n : EndLine(q[j])
    BY <1>2 DEF AllEnd, n
  <2>2. j \in 2..n /\ j - 1 \in k..Len(r)
    BY <1>1, <2>1
  <2> QED BY <1>3, <2>1, <2>2
<1>10. Parted(q) => Parted(r)
  <2> SUFFICES ASSUME Parted(q), NEW j \in 1..Len(r), NEW k \in 1..Len(r), j < k,
                      EndLine(r[j])
               PROVE  \E i \in j..k : r[i].kind = "init"
    BY DEF Parted
  <2>1. PICK i \in j + 1..k + 1 : q[i].kind = "init"
    <3>1. j + 1 \in 1..Len(q) /\ k + 1 \in 1..Len(q) /\ j + 1 < k + 1 /\ EndLine(q[j + 1])
      BY <1>2 DEF n
    <3> QED BY <3>1 DEF Parted
  <2>2. i \in 2..n /\ i - 1 \in j..k
    BY <1>1, <2>1
  <2> QED BY <1>3, <2>1, <2>2
<1>11. Begun(q) => Begun(r)
  <2> SUFFICES ASSUME Begun(q), NEW j \in 1..Len(r), EndLine(r[j])
               PROVE  \E i \in j..Len(r) : r[i].kind = "init"
    BY DEF Begun
  <2>1. PICK i \in j + 1..n : q[i].kind = "init"
    BY <1>2 DEF Begun, n
  <2>2. i \in 2..n /\ i - 1 \in j..Len(r)
    BY <1>1, <2>1
  <2> QED BY <1>3, <2>1, <2>2
<1>12. HasEnd(r) => HasEnd(q)
  BY <1>2 DEF HasEnd, n
<1>13. TwoEnds(q) => HasEnd(r)
  <2> SUFFICES ASSUME NEW j \in 1..n, NEW k \in 1..n, j < k, EndLine(q[k])
               PROVE  HasEnd(r)
    BY DEF TwoEnds, n
  <2>1. k \in 2..n
    BY <1>1
  <2> QED BY <1>3, <2>1 DEF HasEnd
<1>14. ASSUME ~EndLine(Head(q)), NEW k \in 1..n, EndLine(q[k]) PROVE k \in 2..n
  <2>1. k # 1
    BY <1>1, <1>14
  <2> QED BY <1>1, <2>1
<1>15. ~EndLine(Head(q)) => (HasEnd(q) => HasEnd(r))
  BY <1>3, <1>14 DEF HasEnd, n
<1>16. ~EndLine(Head(q)) => (TwoEnds(q) => TwoEnds(r))
  <2> SUFFICES ASSUME ~EndLine(Head(q)), NEW j \in 1..n, NEW k \in 1..n, j < k,
                      EndLine(q[j]), EndLine(q[k])
               PROVE  TwoEnds(r)
    BY DEF TwoEnds, n
  <2>1. j \in 2..n /\ k \in 2..n /\ j - 1 < k - 1
    BY <1>1, <1>14
  <2> QED BY <1>3, <2>1 DEF TwoEnds
<1> QED BY <1>4, <1>5, <1>6, <1>7, <1>8, <1>9, <1>10, <1>11, <1>12, <1>13, <1>15, <1>16

\* What the first line tells of the rest.
LEMMA ReadOff ==
  ASSUME NEW q \in Seq(Lines), q # <<>>, OldFirst(q), NEW r, r = Tail(q)
  PROVE  /\ Head(q).kind # "result" => Head(q).of # Old
         /\ Head(q).of # Old => NoneOf(q, Old)
         /\ Head(q).of # Old /\ Head(q).kind # "result" /\ AllEnd(q) => HasEnd(r)
         /\ EndLine(Head(q)) /\ OneEnd(q) => ~HasEnd(r)
         /\ EndLine(Head(q)) /\ Parted(q) /\ NoInit(q) => r = <<>>
<1>1. /\ Len(q) \in Nat \ {0} /\ Len(r) = Len(q) - 1 /\ Head(q) = q[1] /\ r \in Seq(Lines)
      /\ \A k \in 1..Len(q) - 1 : r[k] = q[k + 1]
  BY TailAt
<1>2. Head(q).kind # "result" => Head(q).of # Old
  BY <1>1 DEF OldFirst
<1>3. Head(q).of # Old => NoneOf(q, Old)
  BY <1>1 DEF OldFirst, NoneOf
<1>4. ASSUME Head(q).of # Old, Head(q).kind # "result", AllEnd(q) PROVE HasEnd(r)
  <2>1. PICK j \in 1..Len(q) : EndLine(q[j])
    BY <1>1, <1>4 DEF AllEnd
  <2>2. HasEnd(q)
    BY <2>1 DEF HasEnd
  <2> QED BY <1>4, <2>2, ReadOn DEF EndLine
<1>5. ASSUME EndLine(Head(q)), OneEnd(q) PROVE ~HasEnd(r)
  <2> SUFFICES ASSUME NEW k \in 1..Len(r), EndLine(r[k]) PROVE FALSE
    BY DEF HasEnd
  <2>1. k + 1 \in 1..Len(q) /\ 1 \in 1..Len(q) /\ EndLine(q[k + 1]) /\ EndLine(q[1])
    BY <1>1, <1>5
  <2>2. k + 1 = 1
    BY <1>5, <2>1 DEF OneEnd
  <2> QED BY <2>2
<1>6. ASSUME EndLine(Head(q)), Parted(q), NoInit(q) PROVE r = <<>>
  <2>1. ~(1 < Len(q))
    <3> SUFFICES ASSUME 1 < Len(q) PROVE FALSE
      OBVIOUS
    <3>1. 1 \in 1..Len(q) /\ Len(q) \in 1..Len(q) /\ EndLine(q[1])
      BY <1>1, <1>6
    <3>2. PICK i \in 1..Len(q) : q[i].kind = "init"
      BY <1>6, <3>1 DEF Parted
    <3> QED BY <1>6, <3>2 DEF NoInit
  <2>2. Len(r) = 0
    BY <1>1, <2>1
  <2> QED BY <1>1, <2>2
<1> QED BY <1>2, <1>3, <1>4, <1>5, <1>6

LEMMA HistoryLines ==
  ASSUME NEW g, Spawn(g)
  PROVE  /\ OldFirst(stdout') /\ AllOld(stdout') /\ AllEnd(stdout') /\ Parted(stdout')
         /\ NoInit(stdout') /\ ~HasEnd(stdout') /\ \A t \in Turns \ {Old} : NoneOf(stdout', t)
<1>1. PICK n \in 0..MaxReplay :
        stdout' = [k \in 1..n |-> [kind |-> "result", of |-> Old]]
  BY DEF Spawn
<1>2. \A k \in 1..Len(stdout') : stdout'[k].kind = "result" /\ stdout'[k].of = Old
  BY <1>1
<1> HIDE DEF Spawn
<1>3. \A k \in 1..Len(stdout') : ~EndLine(stdout'[k])
  BY <1>2 DEF EndLine
<1>4. n \in Nat /\ Len(stdout') = n
  BY <1>1, TurnConstants
<1>5. OldFirst(stdout')
  BY <1>2, <1>4 DEF OldFirst
<1> QED BY <1>2, <1>3, <1>5 DEF AllOld, AllEnd, Parted, NoInit, HasEnd, NoneOf

-------------------------------------------------------------------------------
(* What waits on the pipe to the child.                                      *)

\* One message waits at most, whatever else does.
OneWaits(q) ==
  \A j, k \in 1..Len(q) : q[j] # Interrupt /\ q[k] # Interrupt => j = k

NoneWaits(q) == \A o \in Openers : ~Contains(q, o)

Inputs == Openers \cup {Interrupt}

LEMMA Names ==
  /\ Interrupt \notin Openers /\ Old \notin Openers /\ Self \notin Openers /\ Self # Old
  /\ Turns = Openers \cup {Self, Old}
  /\ Desks \cup Phones \subseteq Openers /\ Wakers \subseteq Openers
BY TurnConstants DEF Openers, Turns

LEMMA Sent ==
  ASSUME NEW q \in Seq(Inputs), NEW e \in Inputs, NEW r, r = Append(q, e)
  PROVE  /\ \A o : Contains(r, o) <=> Contains(q, o) \/ o = e
         /\ e = Interrupt /\ OneWaits(q) => OneWaits(r)
         /\ NoneWaits(q) => OneWaits(r)
<1>1. /\ Len(q) \in Nat /\ Len(r) = Len(q) + 1
      /\ \A k \in 1..Len(q) : r[k] = q[k]
      /\ r[Len(q) + 1] = e
  BY AppendAt
<1>2. \A k \in 1..Len(r) : (k \in 1..Len(q) /\ r[k] = q[k]) \/ (k = Len(q) + 1 /\ r[k] = e)
  BY <1>1
<1>3. \A o : Contains(r, o) <=> Contains(q, o) \/ o = e
  BY <1>1, <1>2 DEF Contains
<1>4. e = Interrupt /\ OneWaits(q) => OneWaits(r)
  BY <1>2 DEF OneWaits
<1>5. ASSUME NoneWaits(q) PROVE OneWaits(r)
  <2>1. \A k \in 1..Len(q) : q[k] = Interrupt
    BY <1>5 DEF NoneWaits, Contains, Inputs
  <2> QED BY <1>2, <2>1 DEF OneWaits
<1> QED BY <1>3, <1>4, <1>5

LEMMA SentFirst ==
  ASSUME NEW e \in Openers
  PROVE  OneWaits(<<e>>) /\ OneWaits(<<>>) /\ NoneWaits(<<>>) /\ \A o : Contains(<<e>>, o) <=> o = e
BY DEF OneWaits, NoneWaits, Contains

LEMMA Taken ==
  ASSUME NEW q \in Seq(Inputs), q # <<>>, NEW r, r = Tail(q)
  PROVE  /\ \A o : Contains(r, o) => Contains(q, o)
         /\ Contains(q, Head(q)) /\ Head(q) \in Inputs
         /\ OneWaits(q) /\ Head(q) # Interrupt => NoneWaits(r)
<1>1. /\ Len(q) \in Nat \ {0} /\ Len(r) = Len(q) - 1 /\ Head(q) = q[1] /\ Head(q) \in Inputs
      /\ \A k \in 1..Len(q) - 1 : r[k] = q[k + 1]
  BY TailAt
<1>2. \A k \in 1..Len(r) : k + 1 \in 1..Len(q) /\ k + 1 # 1 /\ r[k] = q[k + 1]
  BY <1>1
<1>3. \A o : Contains(r, o) => Contains(q, o)
  BY <1>2 DEF Contains
<1>4. 1 \in 1..Len(q)
  BY <1>1
<1>5. ASSUME OneWaits(q), Head(q) # Interrupt PROVE NoneWaits(r)
  <2> SUFFICES ASSUME NEW k \in 1..Len(r), r[k] \in Openers PROVE FALSE
    BY DEF NoneWaits, Contains
  <2>1. r[k] # Interrupt
    BY Names
  <2>2. k + 1 = 1
    BY <1>1, <1>2, <1>4, <1>5, <2>1 DEF OneWaits
  <2> QED BY <1>2, <2>2
<1> QED BY <1>1, <1>3, <1>4, <1>5 DEF Contains

LEMMA RemovedAt ==
  ASSUME NEW S, NEW q \in Seq(S), NEW k \in 1..Len(q)
  PROVE  /\ Len(RemoveAt(q, k)) = Len(q) - 1
         /\ \A i \in 1..Len(q) - 1 : RemoveAt(q, k)[i] = IF i < k THEN q[i] ELSE q[i + 1]
<1> DEFINE left == SubSeq(q, 1, k - 1)
           right == SubSeq(q, k + 1, Len(q))
<1>1. Len(q) \in Nat /\ k \in Nat
  OBVIOUS
<1>2. left \in Seq(S) /\ Len(left) = k - 1 /\ \A i \in 1..k - 1 : left[i] = q[i]
  BY <1>1
<1>3. right \in Seq(S) /\ Len(right) = Len(q) - k
  <2>1. k + 1 \in Int /\ Len(q) \in Int /\ \A i \in (k + 1)..Len(q) : q[i] \in S
    BY <1>1
  <2>2. /\ right \in Seq(S)
        /\ Len(right) = IF k + 1 <= Len(q) THEN Len(q) - (k + 1) + 1 ELSE 0
    BY <2>1, SubSeqProperties
  <2> QED BY <1>1, <2>2
<1>4. \A i \in 1..Len(q) - k : right[i] = q[k + i]
  BY <1>1, <1>3
<1> HIDE DEF left, right
<1>5. RemoveAt(q, k) = left \o right
  BY DEF RemoveAt, left, right
<1>6. Len(left \o right) = Len(q) - 1
  BY <1>1, <1>2, <1>3
<1>7. ASSUME NEW i \in 1..Len(q) - 1
      PROVE  (left \o right)[i] = IF i < k THEN q[i] ELSE q[i + 1]
  <2>1. CASE i < k
    BY <1>1, <1>2, <1>3, <2>1
  <2>2. CASE ~(i < k)
    <3>1. i - (k - 1) \in 1..Len(q) - k /\ k + (i - (k - 1)) = i + 1
      BY <1>1, <2>2
    <3>2. (left \o right)[i] = right[i - (k - 1)]
      BY <1>1, <1>2, <1>3, <2>2
    <3> QED BY <1>4, <2>2, <3>1, <3>2
  <2> QED BY <2>1, <2>2
<1> QED BY <1>5, <1>6, <1>7

LEMMA Acknowledged ==
  ASSUME NEW q \in Seq(Inputs), NEW k \in 1..Len(q), q[k] = Interrupt,
         NEW r, r = RemoveAt(q, k)
  PROVE  /\ \A o \in Openers : Contains(r, o) <=> Contains(q, o)
         /\ OneWaits(q) => OneWaits(r)
<1>1. /\ Len(q) \in Nat /\ k \in 1..Len(q) /\ Len(r) = Len(q) - 1
      /\ \A i \in 1..Len(q) - 1 : r[i] = IF i < k THEN q[i] ELSE q[i + 1]
  BY RemovedAt
<1>2. \A i \in 1..Len(r) : \/ i < k /\ i \in 1..Len(q) /\ r[i] = q[i]
                           \/ ~(i < k) /\ i + 1 \in 1..Len(q) /\ r[i] = q[i + 1]
  BY <1>1
<1>3. \A i \in 1..Len(q) \ {k} : \/ i \in 1..Len(r) /\ r[i] = q[i]
                                 \/ i - 1 \in 1..Len(r) /\ r[i - 1] = q[i]
  <2> SUFFICES ASSUME NEW i \in 1..Len(q) \ {k}
               PROVE  \/ i \in 1..Len(r) /\ r[i] = q[i]
                      \/ i - 1 \in 1..Len(r) /\ r[i - 1] = q[i]
    OBVIOUS
  <2>1. CASE i < k
    BY <1>1, <2>1
  <2>2. CASE i > k
    BY <1>1, <2>2
  <2> QED BY <1>1, <2>1, <2>2
<1>4. ASSUME NEW o \in Openers, Contains(q, o) PROVE Contains(r, o)
  <2>1. PICK i \in 1..Len(q) : q[i] = o
    BY <1>4 DEF Contains
  <2>2. i # k
    BY <2>1, Names
  <2> QED BY <1>3, <2>1, <2>2 DEF Contains
<1>5. ASSUME NEW o, Contains(r, o) PROVE Contains(q, o)
  BY <1>2, <1>5 DEF Contains
<1>6. ASSUME OneWaits(q), NEW i \in 1..Len(r), NEW j \in 1..Len(r),
             r[i] # Interrupt, r[j] # Interrupt
      PROVE  i = j
  BY <1>1, <1>2, <1>6 DEF OneWaits
<1> QED BY <1>4, <1>5, <1>6 DEF OneWaits

-------------------------------------------------------------------------------
(* The two pipes and the child between them.                                 *)

\* the calls that have not written their message
Fresh == {"idle", "checked", "opened", "draining"}

\* Nothing is found of a message before it is written.
Unwritten ==
  \A o \in Openers : op[o].pc \in Fresh =>
    ~Contains(stdin, o) /\ turn # o /\ NoneOf(stdout, o)

PipesInv ==
  /\ child = "none" => stdout = <<>> /\ ending.pc = "read"
  /\ child \in {"none", "gone"} => stdin = <<>>
  /\ child \notin Ending => AllEnd(stdout)
  /\ child \in Running => turn # Old /\ Begun(stdout)
  /\ OldFirst(stdout) /\ Parted(stdout)
  /\ captured => NoneOf(stdout, Old)
  /\ captured /\ child = "idle" => HasEnd(stdout)
  /\ Unwritten

LEMMA PipesNow ==
  ASSUME child' = "none" => stdout' = <<>> /\ ending'.pc = "read",
         child' \in {"none", "gone"} => stdin' = <<>>,
         child' \notin Ending => AllEnd(stdout'),
         child' \in Running => turn' # Old /\ Begun(stdout'),
         OldFirst(stdout'), Parted(stdout'),
         captured' => NoneOf(stdout', Old),
         captured' /\ child' = "idle" => HasEnd(stdout'),
         \A o \in Openers : op'[o].pc \in Fresh =>
           ~Contains(stdin', o) /\ turn' # o /\ NoneOf(stdout', o)
  PROVE  PipesInv'
<1>1. AllEnd(stdout)' <=> AllEnd(stdout')
  BY DEF AllEnd
<1>2. Begun(stdout)' <=> Begun(stdout')
  BY DEF Begun
<1>3. OldFirst(stdout)' <=> OldFirst(stdout')
  BY DEF OldFirst
<1>4. Parted(stdout)' <=> Parted(stdout')
  BY DEF Parted
<1>5. NoneOf(stdout, Old)' <=> NoneOf(stdout', Old)
  BY DEF NoneOf
<1>6. HasEnd(stdout)' <=> HasEnd(stdout')
  BY DEF HasEnd
<1>7. Unwritten'
  <2> SUFFICES ASSUME NEW o \in Openers, op'[o].pc \in Fresh
               PROVE  (~Contains(stdin, o) /\ turn # o /\ NoneOf(stdout, o))'
    BY DEF Unwritten
  <2>1. Contains(stdin, o)' <=> Contains(stdin', o)
    BY DEF Contains
  <2>2. NoneOf(stdout, o)' <=> NoneOf(stdout', o)
    BY DEF NoneOf
  <2> QED BY <2>1, <2>2
<1> QED BY <1>1, <1>2, <1>3, <1>4, <1>5, <1>6, <1>7 DEF PipesInv

\* Steps that read and write nothing, take a message in or let the child die.
LEMMA PipesStay ==
  ASSUME PipesInv, UNCHANGED <<stdout, turn, captured>>,
         ending'.pc \in {ending.pc, "read"},
         child' \in {child, "gone"} \/ {child, child'} \subseteq Running,
         child' \in {"none", "gone"} => stdin' \in {stdin, <<>>},
         child' = "gone" /\ child # "gone" => stdin' = <<>>,
         \A o \in Openers : op'[o].pc \in Fresh => op[o].pc \in Fresh,
         \A o \in Openers : Contains(stdin', o) => Contains(stdin, o)
  PROVE  PipesInv'
<1>1. child' = "none" => stdout' = <<>> /\ ending'.pc = "read"
  BY DEF PipesInv, Running
<1>2. child' \in {"none", "gone"} => stdin' = <<>>
  BY DEF PipesInv, Running
<1>3. child' \notin Ending => AllEnd(stdout')
  BY DEF PipesInv, Ending
<1>4. child' \in Running => turn' # Old /\ Begun(stdout')
  BY DEF PipesInv, Running
<1>5. OldFirst(stdout') /\ Parted(stdout') /\ (captured' => NoneOf(stdout', Old))
  BY DEF PipesInv
<1>6. captured' /\ child' = "idle" => HasEnd(stdout')
  BY DEF PipesInv, Running
<1>7. \A o \in Openers : op'[o].pc \in Fresh =>
        ~Contains(stdin', o) /\ turn' # o /\ NoneOf(stdout', o)
  BY DEF PipesInv, Unwritten
<1> QED BY <1>1, <1>2, <1>3, <1>4, <1>5, <1>6, <1>7, PipesNow

LEMMA SpawnPipes ==
  ASSUME NEW g, Spawn(g), PipesInv,
         \A o \in Openers : op'[o].pc \in Fresh => op[o].pc \in Fresh /\ ~Contains(stdin', o)
  PROVE  PipesInv'
<1>1. child' = "idle" /\ turn' = Old /\ captured' = FALSE
  BY DEF Spawn
<1>2. /\ OldFirst(stdout') /\ AllEnd(stdout') /\ Parted(stdout')
      /\ \A t \in Turns \ {Old} : NoneOf(stdout', t)
  BY HistoryLines
<1>3. \A o \in Openers : op'[o].pc \in Fresh =>
        ~Contains(stdin', o) /\ turn' # o /\ NoneOf(stdout', o)
  BY <1>1, <1>2, Names
<1> QED BY <1>1, <1>2, <1>3, PipesNow DEF Running

LEMMA WritePipes ==
  ASSUME TypeOK, PipesInv, NEW o \in Openers, Write(o),
         \A p \in Openers : op'[p].pc \in Fresh => op[p].pc \in Fresh /\ p # o
  PROVE  PipesInv'
<1>1. CASE Reaches(o) /\ stdin' = Append(stdin, o)
           /\ UNCHANGED <<child, turn, stdout, epoch, interruptSent, pump>>
  <2>1. child \in Alive /\ child' = child /\ UNCHANGED <<turn, stdout, captured, ending>>
    BY <1>1 DEF Reaches, pump
  <2>2. stdin \in Seq(Inputs)
    BY DEF TypeOK, ChildOK, Inputs
  <2>3. \A p : Contains(stdin', p) <=> Contains(stdin, p) \/ p = o
    BY <1>1, <2>2, Sent DEF Inputs
  <2>4. \A p \in Openers : op'[p].pc \in Fresh =>
          ~Contains(stdin', p) /\ turn' # p /\ NoneOf(stdout', p)
    BY <2>1, <2>3 DEF PipesInv, Unwritten
  <2> QED BY <2>1, <2>4, PipesNow DEF PipesInv, Alive, Running
<1>2. CASE Spawn(turnGen) /\ stdin' = <<o>>
  <2>1. \A p : Contains(stdin', p) <=> p = o
    BY <1>2, SentFirst
  <2> QED BY <1>2, <2>1, SpawnPipes
<1> QED BY <1>1, <1>2 DEF Write

\* A line goes out while the turn runs on.
LEMMA EmitPipes ==
  ASSUME TypeOK, PipesInv, NEW k \in {"init", "stream"}, NEW t \in Turns \ {Old},
         Emit(k, t), k = "init" \/ child \in Running,
         child' \in Running, turn' = t, UNCHANGED <<op, captured>>,
         \A o \in Openers : op[o].pc \in Fresh => ~Contains(stdin', o) /\ t # o
  PROVE  PipesInv'
<1> DEFINE e == [kind |-> k, of |-> t]
<1>1. stdout \in Seq(Lines) /\ stdout' = Append(stdout, e) /\ e.kind = k /\ e.of = t
  BY DEF TypeOK, ChildOK, Lines, Emit
<1> HIDE DEF e
<1>2. OldFirst(stdout) /\ Parted(stdout) /\ (child \in Running => Begun(stdout))
  BY DEF PipesInv
<1>3. OldFirst(stdout') /\ Parted(stdout') /\ (NoneOf(stdout, Old) => NoneOf(stdout', Old))
  BY <1>1, <1>2, Emitted
<1>4. Begun(stdout')
  BY <1>1, <1>2, EmittedMore
<1>5. \A o \in Openers : op'[o].pc \in Fresh =>
        ~Contains(stdin', o) /\ turn' # o /\ NoneOf(stdout', o)
  BY <1>1, Emitted DEF PipesInv, Unwritten
<1>6. captured' => NoneOf(stdout', Old)
  BY <1>3 DEF PipesInv
<1> QED BY <1>3, <1>4, <1>5, <1>6, PipesNow DEF Ending, Running

LEMMA BeginsPipes ==
  ASSUME TypeOK, PipesInv, Begins
  PROVE  PipesInv'
<1>1. child' \in Running /\ UNCHANGED <<op, captured>>
  BY DEF Begins, Running, calls, pump
<1>2. stdin \in Seq(Inputs)
  BY DEF TypeOK, ChildOK, Inputs
<1>3. CASE stdin # <<>> /\ Head(stdin) # Interrupt /\ turn' = Head(stdin)
           /\ stdin' = Tail(stdin) /\ Emit("init", Head(stdin))
  <2>1. Contains(stdin, Head(stdin)) /\ Head(stdin) \in Openers
        /\ \A o : Contains(stdin', o) => Contains(stdin, o)
    BY <1>2, <1>3, Taken DEF Inputs
  <2>2. Head(stdin) \in Turns \ {Old}
    BY <2>1, Names
  <2>3. \A o \in Openers : op[o].pc \in Fresh => ~Contains(stdin', o) /\ Head(stdin) # o
    BY <2>1 DEF PipesInv, Unwritten
  <2> QED BY <1>1, <1>3, <2>2, <2>3, EmitPipes
<1>4. CASE turn' = Self /\ Emit("init", Self) /\ UNCHANGED stdin
  <2>1. Self \in Turns \ {Old} /\ \A o \in Openers : Self # o
    BY Names
  <2>2. \A o \in Openers : op[o].pc \in Fresh => ~Contains(stdin', o) /\ Self # o
    BY <1>4, <2>1 DEF PipesInv, Unwritten
  <2> QED BY <1>1, <1>4, <2>1, <2>2, EmitPipes
<1> QED BY <1>3, <1>4 DEF Begins

LEMMA StreamsPipes ==
  ASSUME TypeOK, PipesInv, Streams
  PROVE  PipesInv'
<1>1. /\ child \in Running /\ child' \in Running /\ Emit("stream", turn)
      /\ UNCHANGED <<op, captured, turn, stdin>>
  BY DEF Streams, Running, calls, pump
<1>2. turn \in Turns \ {Old}
  BY <1>1 DEF TypeOK, ChildOK, PipesInv
<1>3. \A o \in Openers : op[o].pc \in Fresh => ~Contains(stdin', o) /\ turn # o
  BY <1>1 DEF PipesInv, Unwritten
<1> QED BY <1>1, <1>2, <1>3, EmitPipes

\* The turn that runs is over.
LEMMA EndPipes ==
  ASSUME TypeOK, PipesInv, child \in Running, child' = "idle", Emit("result", turn),
         UNCHANGED <<op, captured, turn>>,
         \A o \in Openers : Contains(stdin', o) => Contains(stdin, o)
  PROVE  PipesInv'
<1> DEFINE e == [kind |-> "result", of |-> turn]
<1>1. stdout \in Seq(Lines) /\ stdout' = Append(stdout, e) /\ e.kind = "result" /\ e.of = turn
  BY DEF TypeOK, ChildOK, Lines, Emit
<1>2. turn # Old /\ OldFirst(stdout) /\ Parted(stdout) /\ Begun(stdout)
  BY DEF PipesInv
<1> HIDE DEF e
<1>3. OldFirst(stdout') /\ Parted(stdout') /\ (NoneOf(stdout, Old) => NoneOf(stdout', Old))
  BY <1>1, <1>2, Emitted
<1>4. AllEnd(stdout') /\ HasEnd(stdout')
  BY <1>1, <1>2, EmittedEnd DEF EndLine
<1>5. \A o \in Openers : op'[o].pc \in Fresh =>
        ~Contains(stdin', o) /\ turn' # o /\ NoneOf(stdout', o)
  BY <1>1, <1>2, Emitted DEF PipesInv, Unwritten
<1>6. captured' => NoneOf(stdout', Old)
  BY <1>3 DEF PipesInv
<1> QED BY <1>3, <1>4, <1>5, <1>6, PipesNow DEF Running

LEMMA PumpReadsPipes ==
  ASSUME TypeOK, PipesInv, PumpReads
  PROVE  PipesInv'
<1>1. /\ child # "none" /\ stdout # <<>> /\ stdout' = Tail(stdout)
      /\ UNCHANGED <<child, turn, stdin, op>>
      /\ captured' => (captured \/ Head(stdout).kind # "result")
      /\ Head(stdout).kind = "result" => ~captured'
  BY DEF PumpReads, calls
<1>2. stdout \in Seq(Lines) /\ OldFirst(stdout) /\ Parted(stdout)
  BY DEF TypeOK, ChildOK, Lines, PipesInv
<1>3. OldFirst(stdout') /\ Parted(stdout')
  BY <1>1, <1>2, ReadOn
<1>4. child' \in Running => turn' # Old /\ Begun(stdout')
  BY <1>1, <1>2, ReadOn DEF PipesInv
<1>5. child' \notin Ending => AllEnd(stdout')
  BY <1>1, <1>2, ReadOn DEF PipesInv
<1>6. ASSUME captured' PROVE NoneOf(stdout', Old)
  <2>1. Head(stdout).kind # "result" /\ Head(stdout).of # Old
    BY <1>1, <1>2, <1>6, ReadOff
  <2>2. NoneOf(stdout, Old)
    BY <1>1, <1>2, <2>1, ReadOff
  <2> QED BY <1>1, <1>2, <2>2, ReadOn
<1>7. ASSUME captured', child' = "idle" PROVE HasEnd(stdout')
  <2>1. Head(stdout).kind # "result" /\ Head(stdout).of # Old
    BY <1>1, <1>2, <1>7, ReadOff
  <2>2. AllEnd(stdout)
    BY <1>1, <1>7 DEF PipesInv, Ending, Running
  <2> QED BY <1>1, <1>2, <2>1, <2>2, ReadOff
<1>8. \A o \in Openers : op'[o].pc \in Fresh =>
        ~Contains(stdin', o) /\ turn' # o /\ NoneOf(stdout', o)
  BY <1>1, <1>2, ReadOn DEF PipesInv, Unwritten
<1>9. child' \in {"none", "gone"} => stdin' = <<>>
  BY <1>1 DEF PipesInv
<1> QED BY <1>1, <1>3, <1>4, <1>5, <1>6, <1>7, <1>8, <1>9, PipesNow

LEMMA PumpExitsPipes ==
  ASSUME PipesInv, PumpExits
  PROVE  PipesInv'
<1>1. /\ child = "gone" /\ child' = "none" /\ stdin' = <<>> /\ stdout = <<>> /\ ending.pc = "read"
      /\ UNCHANGED <<stdout, ending, captured, turn, op>>
  BY DEF PumpExits, calls
<1>2. AllEnd(stdout')
  BY <1>1 DEF AllEnd
<1>3. \A o \in Openers : op'[o].pc \in Fresh =>
        ~Contains(stdin', o) /\ turn' # o /\ NoneOf(stdout', o)
  BY <1>1 DEF PipesInv, Unwritten, Contains
<1> QED BY <1>1, <1>2, <1>3, PipesNow DEF PipesInv, Running

LEMMA KilledPipes ==
  ASSUME PipesInv, NEW c, Killed(c), UNCHANGED <<stdout, turn, captured, op>>,
         ending'.pc \in {ending.pc, "read"}
  PROVE  PipesInv'
<1>1. (child' = "gone" /\ stdin' = <<>>) \/ UNCHANGED <<child, stdin>>
  BY Zenon DEF Killed, Dead
<1>2. \A o : Contains(<<>>, o) => FALSE
  BY DEF Contains
<1> QED BY <1>1, <1>2, PipesStay

LEMMA PipesInit == Init => PipesInv
<1> SUFFICES ASSUME Init PROVE PipesInv
  OBVIOUS
<1>1. child = "idle" /\ stdin = <<>> /\ stdout = <<>> /\ captured = FALSE /\ turn = Old
  BY DEF Init
<1> QED BY <1>1, Names
     DEF PipesInv, Running, Ending, AllEnd, OldFirst, Parted, Unwritten, Contains, NoneOf

LEMMA PipesStep == TypeOK /\ PipesInv /\ [Next]_vars => PipesInv'
<1> SUFFICES ASSUME TypeOK, PipesInv, [Next]_vars PROVE PipesInv'
  OBVIOUS
<1>0. op \in [Openers -> [pc : {"idle", "checked", "opened", "draining", "written", "done"},
                          epoch : Nat]]
  BY DEF TypeOK, CallsOK
<1>1. ASSUME NEW d \in Desks, Resume(d) PROVE PipesInv'
  <2>1. Spawn(turnGen) /\ stdin' = <<>> /\ UNCHANGED op
    BY <1>1 DEF Resume, calls
  <2> QED BY <2>1, SpawnPipes DEF Contains
<1>2. ASSUME NEW o \in Desks \cup Phones, SendChecks(o) \/ SendOpens(o) \/ SendFails(o)
      PROVE  PipesInv'
  <2>1. UNCHANGED <<child, turn, stdin, stdout, captured, ending>>
    BY <1>2 DEF SendChecks, SendOpens, SendFails, process, pump
  <2>2. \A p \in Openers : op'[p].pc \in Fresh => op[p].pc \in Fresh
    BY <1>0, <1>2 DEF SendChecks, SendOpens, SendFails, Fresh
  <2> QED BY <2>1, <2>2, PipesStay
<1>3. ASSUME NEW o \in Desks \cup Phones, SendWrites(o) PROVE PipesInv'
  <2>1. o \in Openers
    BY Names
  <2>2. \A p \in Openers : op'[p].pc \in Fresh => op[p].pc \in Fresh /\ p # o
    BY <1>0, <1>3 DEF SendWrites, Fresh
  <2> QED BY <1>3, <2>1, <2>2, WritePipes DEF SendWrites
<1>4. ASSUME NEW w \in Wakers, WakeChecks(w) \/ WakeFails(w) \/ WakeOpens(w) PROVE PipesInv'
  <2>1. UNCHANGED <<child, turn, stdin, stdout, captured, ending>>
    BY <1>4 DEF WakeChecks, WakeFails, WakeOpens, process, pump
  <2>2. \A p \in Openers : op'[p].pc \in Fresh => op[p].pc \in Fresh
    BY <1>0, <1>4 DEF WakeChecks, WakeFails, WakeOpens, Fresh
  <2> QED BY <2>1, <2>2, PipesStay
<1>5. ASSUME NEW w \in Wakers, WakeWrites(w) PROVE PipesInv'
  <2>1. w \in Openers
    BY Names
  <2>2. \A p \in Openers : op'[p].pc \in Fresh => op[p].pc \in Fresh /\ p # w
    BY <1>0, <1>5 DEF WakeWrites, Fresh
  <2> QED BY <1>5, <2>1, <2>2, WritePipes DEF WakeWrites
<1>6. ASSUME Folds PROVE PipesInv'
  <2>1. stdin \in Seq(Inputs)
    BY DEF TypeOK, ChildOK, Inputs
  <2>2. \A o : Contains(stdin', o) => Contains(stdin, o)
    BY <1>6, <2>1, Taken DEF Folds
  <2>3. UNCHANGED <<child, turn, stdout, captured, ending, op>> /\ child \in Running
    BY <1>6 DEF Folds, pump, calls, Running
  <2> QED BY <2>2, <2>3, PipesStay DEF Running
<1>7. ASSUME Ends PROVE PipesInv'
  <2>1. /\ child \in Running /\ child' = "idle" /\ Emit("result", turn)
        /\ UNCHANGED <<op, captured, turn, stdin>>
    BY <1>7 DEF Ends, pump, calls
  <2> QED BY <2>1, EndPipes
<1>8. ASSUME TakesInterrupt PROVE PipesInv'
  <2>1. UNCHANGED <<op, captured, turn, ending>>
    BY <1>8 DEF TakesInterrupt, pump, calls
  <2>2. stdin \in Seq(Inputs)
    BY DEF TypeOK, ChildOK, Inputs
  <2>3. \A o \in Openers : Contains(stdin', o) => Contains(stdin, o)
    <3>1. PICK k \in 1..Len(stdin) : stdin[k] = Interrupt /\ stdin' = RemoveAt(stdin, k)
      BY <1>8 DEF TakesInterrupt
    <3> QED BY <2>2, <3>1, Acknowledged
  <2>4. CASE child \in {"begun", "streaming"} /\ child' = "idle" /\ Emit("result", turn)
    BY <2>1, <2>3, <2>4, EndPipes DEF Running
  <2>5. CASE child \in {"idle", "stopping"} /\ UNCHANGED <<child, stdout>>
    BY <2>1, <2>3, <2>5, PipesStay
  <2> QED BY <1>8, <2>4, <2>5 DEF TakesInterrupt
<1>9. ASSUME Dies PROVE PipesInv'
  <2>1. /\ UNCHANGED <<turn, stdout, captured, ending, op>>
        /\ child' = "gone" /\ stdin' = <<>>
    BY <1>9 DEF Dies, Dead, pump, calls
  <2> QED BY <2>1, PipesStay DEF Contains
<1>10. ASSUME StopSettles \/ PumpSettles PROVE PipesInv'
  <2>1. /\ \E c : Killed(c)
        /\ UNCHANGED <<stdout, turn, captured, op>>
        /\ ending'.pc \in {ending.pc, "read"}
    BY <1>10 DEF StopSettles, PumpSettles, NoEnding, pump, calls
  <2> QED BY <2>1, KilledPipes
<1>11. ASSUME CancelFlags \/ CancelFails \/ Sweep \/ UNCHANGED vars PROVE PipesInv'
  <2>1. UNCHANGED <<child, turn, stdin, stdout, captured, ending, op>>
    BY <1>11 DEF CancelFlags, CancelFails, Sweep, process, pump, calls, vars
  <2> QED BY <2>1, PipesStay
<1>12. ASSUME CancelWrites PROVE PipesInv'
  <2>1. /\ UNCHANGED <<child, turn, stdout, captured, ending, op>>
        /\ child \in Alive /\ stdin' = Append(stdin, Interrupt)
    BY <1>12 DEF CancelWrites, pump
  <2>2. stdin \in Seq(Inputs) /\ Interrupt \in Inputs
    BY DEF TypeOK, ChildOK, Inputs
  <2>3. \A o \in Openers : Contains(stdin', o) => Contains(stdin, o)
    BY <2>1, <2>2, Sent, Names
  <2> QED BY <2>1, <2>3, PipesStay DEF Alive, Running
<1>13. CASE Opening
  BY <1>1, <1>2, <1>3, <1>4, <1>5, <1>13 DEF Opening
<1>14. CASE Child
  <2>1. ASSUME OtherHookBlocks \/ CloseStarts \/ CloseConfirms PROVE PipesInv'
    <3>1. /\ UNCHANGED <<turn, stdin, stdout, captured, ending, op>>
          /\ child \in Running /\ child' \in Running
      BY <2>1 DEF OtherHookBlocks, CloseStarts, CloseConfirms, process, pump, calls, Running
    <3> QED BY <3>1, PipesStay DEF Running
  <2>2. ASSUME NEW s \in Status, Reports(s) PROVE PipesInv'
    <3>1. UNCHANGED <<child, turn, stdin, stdout, captured, ending, op>>
      BY <2>2 DEF Reports, process, pump, calls
    <3> QED BY <3>1, PipesStay
  <2>3. ASSUME NEW a \in Verdicts, StopReads(a) PROVE PipesInv'
    <3>1. /\ UNCHANGED <<turn, stdin, stdout, captured, ending, op>>
          /\ child \in Running /\ child' \in Running
      BY <2>3 DEF StopReads, pump, Running
    <3> QED BY <3>1, PipesStay DEF Running
  <2> QED BY <1>6, <1>7, <1>8, <1>9, <1>14, <2>1, <2>2, <2>3, BeginsPipes, StreamsPipes
       DEF Child
<1>15. CASE Daemon
  BY <1>10, <1>11, <1>12, <1>15, PumpReadsPipes, PumpExitsPipes DEF Daemon
<1> QED BY <1>11, <1>13, <1>14, <1>15 DEF Next

-------------------------------------------------------------------------------
(* Generations.                                                              *)

\* The generation of the last turn opened is either pending or the pump's, as long as
\* there is a child to read from; and no Stop hook has seen a later one.
GensInv ==
  /\ pendingGen \in {0, turnGen}
  /\ child \in Alive => turnGen \in {pendingGen, pumpGen}
  /\ stop.gen <= turnGen + 1

LEMMA GensStep == TypeOK /\ GensInv /\ [Next]_vars => GensInv'
<1> SUFFICES ASSUME TypeOK, GensInv, [Next]_vars PROVE GensInv'
  OBVIOUS
<1>0. turnGen \in Nat /\ pendingGen \in 0..turnGen /\ pumpGen \in 0..turnGen /\ stop.gen \in Nat
  BY DEF TypeOK, RowOK, CallsOK
<1>1. ASSUME NEW g, Spawn(g), g = turnGen, UNCHANGED <<turnGen, pendingGen, stop>>
      PROVE  GensInv'
  BY <1>1 DEF Spawn, GensInv
<1>2. ASSUME UNCHANGED <<turnGen, pendingGen, pumpGen, stop>>, child' \in Alive => child \in Alive
      PROVE  GensInv'
  BY <1>2 DEF GensInv
<1>3. ASSUME OpenTurn, UNCHANGED stop PROVE GensInv'
  BY <1>0, <1>3 DEF OpenTurn, GensInv
<1>4. ASSUME NEW o, Write(o), UNCHANGED <<turnGen, pendingGen, stop>> PROVE GensInv'
  BY <1>1, <1>2, <1>4 DEF Write, pump
<1>5. ASSUME NEW c, Finalizes(c), Killed(c), UNCHANGED <<turnGen, pumpGen>>,
             stop' \in {stop, NoStop}
      PROVE  GensInv'
  <2>1. child' \in Alive => child \in Alive /\ ~c
    BY <1>5, Zenon DEF Killed, Dead, Alive, Running
  <2>2. pendingGen' \in {0, turnGen} /\ (~c => pendingGen' = pendingGen)
    BY <1>5 DEF Finalizes, GensInv
  <2>3. stop'.gen <= turnGen + 1
    BY <1>0, <1>5 DEF GensInv, NoStop
  <2> QED BY <1>5, <2>1, <2>2, <2>3 DEF GensInv
<1>6. CASE Opening
  <2>1. ASSUME NEW d \in Desks, Resume(d) PROVE GensInv'
    BY <1>1, <2>1 DEF Resume, calls
  <2>2. ASSUME NEW o \in Desks \cup Phones, SendChecks(o) \/ SendFails(o) PROVE GensInv'
    BY <1>2, <2>2 DEF SendChecks, SendFails, row, process, pump
  <2>3. ASSUME NEW o \in Desks \cup Phones, SendOpens(o) PROVE GensInv'
    BY <1>3, <2>3 DEF SendOpens
  <2>4. ASSUME NEW o \in Desks \cup Phones, SendWrites(o) PROVE GensInv'
    BY <1>4, <2>4 DEF SendWrites, row
  <2>5. ASSUME NEW w \in Wakers, WakeChecks(w) \/ WakeFails(w) PROVE GensInv'
    BY <1>2, <2>5 DEF WakeChecks, WakeFails, row, process, pump
  <2>6. ASSUME NEW w \in Wakers, WakeWrites(w) PROVE GensInv'
    BY <1>4, <2>6 DEF WakeWrites, row
  <2>7. ASSUME NEW w \in Wakers, WakeOpens(w) PROVE GensInv'
    BY <1>3, <2>7 DEF WakeOpens
  <2> QED BY <1>6, <2>1, <2>2, <2>3, <2>4, <2>5, <2>6, <2>7 DEF Opening
<1>7. CASE Child
  <2>1. ASSUME Begins \/ Streams \/ Folds \/ Ends \/ OtherHookBlocks PROVE GensInv'
    BY <1>2, <2>1 DEF Begins, Streams, Folds, Ends, OtherHookBlocks, row, pump, calls,
         Alive, Running
  <2>2. ASSUME TakesInterrupt \/ Dies \/ CloseStarts \/ CloseConfirms PROVE GensInv'
    BY <1>2, <2>2 DEF TakesInterrupt, Dies, Dead, CloseStarts, CloseConfirms, row, process,
         pump, calls, Alive, Running
  <2>3. ASSUME NEW s \in Status, Reports(s) PROVE GensInv'
    BY <1>2, <2>3 DEF Reports, process, pump, calls
  <2>4. ASSUME NEW a \in Verdicts, StopReads(a) PROVE GensInv'
    BY <1>0, <2>4 DEF StopReads, pump, Alive, Running, GensInv
  <2> QED BY <1>7, <2>1, <2>2, <2>3, <2>4 DEF Child
<1>8. CASE Daemon
  <2>1. ASSUME StopSettles PROVE GensInv'
    BY <1>5, <2>1 DEF StopSettles, pump
  <2>2. ASSUME PumpReads PROVE GensInv'
    BY <2>2 DEF PumpReads, Captures, calls, GensInv
  <2>3. ASSUME PumpSettles PROVE GensInv'
    BY <1>5, <2>3 DEF PumpSettles, calls
  <2>4. ASSUME PumpExits PROVE GensInv'
    BY <2>4 DEF PumpExits, Finalizes, calls, Alive, Running, GensInv
  <2>5. ASSUME CancelFlags \/ CancelWrites \/ CancelFails \/ Sweep PROVE GensInv'
    BY <1>2, <2>5 DEF CancelFlags, CancelWrites, CancelFails, Sweep, row, process, pump, calls
  <2> QED BY <1>8, <2>1, <2>2, <2>3, <2>4, <2>5 DEF Daemon
<1>9. CASE UNCHANGED vars
  BY <1>2, <1>9 DEF vars, row, process, pump, calls
<1> QED BY <1>6, <1>7, <1>8, <1>9 DEF Next

-------------------------------------------------------------------------------
(* Who has still to clear busy.                                              *)

\* what LatchesAreKnown names
Latchers == {"late", "folded", "swallowed", "unheard", "failed"}
Known == strayed \cap Latchers # {}

SendOpen == \E o \in Openers : op[o].pc = "opened"
Waiting == \E o \in Openers : Contains(stdin, o)

\* A send that has still to write or fail, a turn that has still to begin or to end, or
\* the end of one that has still to be read or settled.
Settling == ending.pc = "settle" /\ ending.live /\ pumpGen = turnGen
EndAhead == SendOpen \/ Waiting \/ child \in Running \/ HasEnd(stdout) \/ Settling

\* The same, behind the turn that the pump has begun to read.
TurnBehind == SendOpen \/ Waiting \/ (child \in Running /\ HasEnd(stdout)) \/ TwoEnds(stdout)

\* "Quiet implies not busy" is not inductive.  Busy must have somebody who clears it
\* ahead; the turn that the pump reads clears it only if it has the row's generation,
\* otherwise there must be another behind it.
BusyEnds == ~Known /\ child \in Alive /\ busy => EndAhead
PendingIsBehind == ~Known /\ child \in Alive /\ captured /\ pumpGen # turnGen => TurnBehind
OrphanEnds == ~Known /\ child = "none" /\ busy => SendOpen

LatchInv == BusyEnds /\ PendingIsBehind /\ OrphanEnds

LEMMA LatchNow ==
  ASSUME Known' \/
           /\ child' \in Alive /\ busy' =>
                SendOpen' \/ Waiting' \/ child' \in Running \/ HasEnd(stdout') \/ Settling'
           /\ child' \in Alive /\ captured' /\ pumpGen' # turnGen' =>
                \/ SendOpen' \/ Waiting' \/ (child' \in Running /\ HasEnd(stdout'))
                \/ TwoEnds(stdout')
           /\ child' = "none" /\ busy' => SendOpen'
  PROVE  LatchInv'
<1>1. HasEnd(stdout)' <=> HasEnd(stdout')
  BY DEF HasEnd
<1>2. TwoEnds(stdout)' <=> TwoEnds(stdout')
  BY DEF TwoEnds
<1> QED BY <1>1, <1>2
     DEF LatchInv, BusyEnds, PendingIsBehind, OrphanEnds, EndAhead, TurnBehind, Alive, Running

\* Steps that neither open a turn nor end one.
LEMMA LatchStays ==
  ASSUME LatchInv, UNCHANGED <<turnGen, pumpGen, captured, stdout, ending>>,
         busy' => busy, Known => Known', SendOpen => SendOpen',
         child' \in {child, "gone"} \/ {child, child'} \subseteq Running,
         child' # "gone" => (Waiting => Waiting')
  PROVE  LatchInv'
<1>1. Settling' = Settling
  BY DEF Settling
<1>2. child' \in {"gone"} \/ child' = child \/ {child, child'} \subseteq Running
  OBVIOUS
<1>3. CASE child' = "gone"
  BY <1>3, LatchNow DEF Alive, Running
<1>4. CASE child' # "gone"
  BY <1>1, <1>4, LatchNow
     DEF LatchInv, BusyEnds, PendingIsBehind, OrphanEnds, EndAhead, TurnBehind, Alive, Running
<1> QED BY <1>3, <1>4

LEMMA ResumeLatch ==
  ASSUME NEW d \in Desks, Resume(d)
  PROVE  LatchInv'
<1>1. child' = "idle" /\ busy' = FALSE /\ captured' = FALSE
  BY DEF Resume, Spawn
<1> QED BY <1>1, LatchNow

LEMMA SendOpensLatch ==
  ASSUME TypeOK, NEW o \in Desks \cup Phones, SendOpens(o)
  PROVE  LatchInv'
<1>1. o \in Openers
  BY Names
<1>2. op'[o].pc = "opened"
  BY <1>1 DEF SendOpens, TypeOK, CallsOK
<1> QED BY <1>1, <1>2, LatchNow DEF SendOpen

LEMMA WriteLatch ==
  ASSUME TypeOK, NEW o \in Openers, Write(o)
  PROVE  LatchInv'
<1>1. CASE Reaches(o) /\ stdin' = Append(stdin, o) /\ UNCHANGED child
  <2>1. stdin \in Seq(Inputs) /\ o \in Inputs
    BY DEF TypeOK, ChildOK, Inputs
  <2>2. Contains(stdin', o) /\ child' \in Alive
    BY <1>1, <2>1, Sent DEF Reaches
  <2>3. Waiting'
    BY <2>2 DEF Waiting, Contains
  <2> QED BY <2>2, <2>3, LatchNow DEF Alive, Running
<1>2. CASE Spawn(turnGen) /\ stdin' = <<o>>
  <2>1. Contains(stdin', o) /\ child' = "idle"
    BY <1>2, SentFirst DEF Spawn
  <2>2. Waiting'
    BY <2>1 DEF Waiting, Contains
  <2> QED BY <2>1, <2>2, LatchNow
<1> QED BY <1>1, <1>2 DEF Write

\* While the pump reads a turn, the child runs it or has ended it.
LEMMA ReadTurnIsInFlight ==
  ASSUME TypeOK, PipesInv, captured, child \in Alive, NEW o \in Openers, op[o].pc \in Fresh
  PROVE  \E t \in Turns \ {o} : InFlight(t)
<1>1. CASE child \in Running
  <2>1. turn \in Turns \ {o}
    BY DEF TypeOK, ChildOK, PipesInv, Unwritten
  <2>2. InFlight(turn)
    BY <1>1 DEF InFlight, Unread, Works
  <2> QED BY <2>1, <2>2
<1>2. CASE child = "idle"
  <2>1. PICK k \in 1..Len(stdout) : EndLine(stdout[k])
    BY <1>2 DEF PipesInv, HasEnd
  <2>2. stdout[k].of \in Turns
    <3>1. stdout \in Seq(Lines)
      BY DEF TypeOK, ChildOK, Lines
    <3>2. stdout[k] \in Lines
      BY <2>1, <3>1
    <3> QED BY <3>2 DEF Lines
  <2>3. stdout[k].of # o
    BY <2>1 DEF PipesInv, Unwritten, NoneOf
  <2>4. InFlight(stdout[k].of)
    BY <2>1 DEF InFlight, Unread
  <2> QED BY <2>2, <2>3, <2>4
<1> QED BY <1>1, <1>2 DEF Alive

LEMMA SendFailsLatch ==
  ASSUME TypeOK, PipesInv, NEW o \in Desks \cup Phones, SendFails(o)
  PROVE  LatchInv'
<1>1. o \in Openers /\ op[o].pc \in Fresh /\ busy' = FALSE /\ UNCHANGED <<child, captured>>
  BY Names DEF SendFails, Fresh, process, pump
<1>2. ASSUME captured, child \in Alive PROVE Known'
  <2>1. \E t \in Turns \ {o} : InFlight(t)
    BY <1>1, <1>2, ReadTurnIsInFlight
  <2>2. "failed" \in strayed'
    BY <2>1 DEF SendFails
  <2> QED BY <2>2 DEF Known, Latchers
<1> QED BY <1>1, <1>2, LatchNow

LEMMA WakeOpensLatch ==
  ASSUME TypeOK, PipesInv, NEW w \in Wakers, WakeOpens(w)
  PROVE  LatchInv'
<1>1. w \in Openers /\ w # Old
  BY Names
<1>2. UNCHANGED <<child, turn, stdin, stdout, captured>>
  BY DEF WakeOpens, process, pump
<1>3. CASE ~(Unread(w) /\ ~captured)
  <2>1. "late" \in strayed'
    BY <1>3 DEF WakeOpens
  <2> QED BY <2>1, LatchNow DEF Known, Latchers
<1>4. CASE Unread(w) /\ ~captured
  <2>1. child # "none"
    <3> SUFFICES ASSUME child = "none" PROVE FALSE
      OBVIOUS
    <3>1. stdin = <<>> /\ stdout = <<>> /\ child \notin Running
      BY DEF PipesInv, Running
    <3> QED BY <1>4, <3>1 DEF Unread, Works, Contains
  <2>2. CASE Contains(stdin, w)
    <3>1. Waiting'
      BY <1>1, <1>2, <2>2 DEF Waiting, Contains
    <3> QED BY <1>2, <1>4, <2>1, <3>1, LatchNow
  <2>3. CASE child \in Running
    BY <1>2, <1>4, <2>3, LatchNow DEF Running
  <2>4. CASE child \notin Running /\ \E k \in 1..Len(stdout) : stdout[k].of = w
    <3>1. child \in Alive => HasEnd(stdout)
      <4> SUFFICES ASSUME child \in Alive PROVE HasEnd(stdout)
        OBVIOUS
      <4>1. AllEnd(stdout)
        BY <2>4 DEF PipesInv, Ending, Alive, Running
      <4>2. PICK k \in 1..Len(stdout) : stdout[k].of # Old
        BY <1>1, <2>4
      <4>3. PICK j \in k..Len(stdout) : EndLine(stdout[j])
        BY <4>1, <4>2 DEF AllEnd
      <4>4. j \in 1..Len(stdout)
        BY <4>2, <4>3
      <4> QED BY <4>3, <4>4 DEF HasEnd
    <3> QED BY <1>2, <1>4, <2>1, <3>1, LatchNow
  <2> QED BY <1>4, <2>2, <2>3, <2>4 DEF Unread, Works
<1> QED BY <1>3, <1>4

LEMMA BeginsLatch ==
  ASSUME TypeOK, PipesInv, Begins
  PROVE  LatchInv'
<1>1. child = "idle" /\ child' = "begun" /\ UNCHANGED captured
  BY DEF Begins, pump
<1>2. PICK t \in Turns \ {Old} : stdout' = Append(stdout, [kind |-> "init", of |-> t])
  <2>1. CASE stdin # <<>> /\ Head(stdin) # Interrupt /\ Emit("init", Head(stdin))
    <3>1. stdin \in Seq(Inputs)
      BY DEF TypeOK, ChildOK, Inputs
    <3>2. Head(stdin) \in Turns \ {Old}
      BY <2>1, <3>1, Taken, Names DEF Inputs
    <3> QED BY <2>1, <3>2 DEF Emit
  <2>2. CASE Emit("init", Self)
    BY <2>2, Names DEF Emit
  <2> QED BY <2>1, <2>2 DEF Begins
<1>3. stdout \in Seq(Lines)
  BY DEF TypeOK, ChildOK, Lines
<1>4. HasEnd(stdout) => HasEnd(stdout')
  <2> DEFINE e == [kind |-> "init", of |-> t]
  <2>1. e.of # Old /\ stdout' = Append(stdout, e)
    BY <1>2
  <2> HIDE DEF e
  <2> QED BY <1>3, <2>1, Emitted
<1>5. captured' => HasEnd(stdout')
  BY <1>1, <1>4 DEF PipesInv
<1> QED BY <1>1, <1>5, LatchNow DEF Running

LEMMA StreamsLatch ==
  ASSUME TypeOK, PipesInv, LatchInv, Streams
  PROVE  LatchInv'
<1>1. /\ child \in Running /\ child' \in Running /\ Emit("stream", turn)
      /\ UNCHANGED <<op, stdin, captured, pumpGen, turnGen, strayed>>
  BY DEF Streams, Running, row, pump, calls, history
<1>2. stdout \in Seq(Lines) /\ turn # Old
  BY <1>1 DEF TypeOK, ChildOK, Lines, PipesInv
<1>3. (HasEnd(stdout) => HasEnd(stdout')) /\ (TwoEnds(stdout) => TwoEnds(stdout'))
  <2> DEFINE e == [kind |-> "stream", of |-> turn]
  <2>1. e.of # Old /\ stdout' = Append(stdout, e)
    BY <1>1, <1>2 DEF Emit
  <2> HIDE DEF e
  <2> QED BY <1>2, <2>1, Emitted
<1>4. (SendOpen => SendOpen') /\ (Waiting => Waiting') /\ (Known => Known')
  BY <1>1 DEF SendOpen, Waiting, Contains, Known
<1>5. child' # "none" /\ child \in Alive
  BY <1>1 DEF Running, Alive
<1> QED BY <1>1, <1>3, <1>4, <1>5, LatchNow DEF LatchInv, PendingIsBehind, TurnBehind

LEMMA EndLatch ==
  ASSUME TypeOK, PipesInv, LatchInv, child \in Running, child' = "idle", Emit("result", turn),
         UNCHANGED <<op, captured, pumpGen, turnGen, strayed>>,
         \A o \in Openers : Contains(stdin, o) => Contains(stdin', o)
  PROVE  LatchInv'
<1> DEFINE e == [kind |-> "result", of |-> turn]
<1>1. stdout \in Seq(Lines) /\ stdout' = Append(stdout, e) /\ EndLine(e)
  BY DEF TypeOK, ChildOK, Lines, PipesInv, Emit, EndLine
<1> HIDE DEF e
<1>2. HasEnd(stdout') /\ (HasEnd(stdout) => TwoEnds(stdout'))
  BY <1>1, EmittedEnd
<1>3. TwoEnds(stdout) => TwoEnds(stdout')
  BY <1>1, Emitted DEF EndLine
<1>4. (SendOpen => SendOpen') /\ (Known => Known')
  BY DEF SendOpen, Known
<1>5. Waiting => Waiting'
  <2>1. \A o : Contains(stdin, o)' <=> Contains(stdin', o)
    BY DEF Contains
  <2> QED BY <2>1 DEF Waiting
<1>6. child \in Alive
  BY DEF Alive
<1> QED BY <1>2, <1>3, <1>4, <1>5, <1>6, LatchNow DEF LatchInv, PendingIsBehind, TurnBehind

LEMMA TakesInterruptLatch ==
  ASSUME TypeOK, PipesInv, LatchInv, TakesInterrupt
  PROVE  LatchInv'
<1>1. UNCHANGED <<op, captured, pumpGen, turnGen, strayed, busy, ending>>
  BY DEF TakesInterrupt, row, pump, calls, history
<1>2. \A o \in Openers : Contains(stdin, o) => Contains(stdin', o)
  <2>1. PICK k \in 1..Len(stdin) : stdin[k] = Interrupt /\ stdin' = RemoveAt(stdin, k)
    BY DEF TakesInterrupt
  <2>2. stdin \in Seq(Inputs)
    BY DEF TypeOK, ChildOK, Inputs
  <2> QED BY <2>1, <2>2, Acknowledged
<1>3. CASE child \in {"begun", "streaming"} /\ child' = "idle" /\ Emit("result", turn)
  BY <1>1, <1>2, <1>3, EndLatch DEF Running
<1>4. CASE UNCHANGED <<child, stdout>>
  <2>1. \A o : Contains(stdin, o)' <=> Contains(stdin', o)
    BY DEF Contains
  <2>2. (SendOpen => SendOpen') /\ (Waiting => Waiting') /\ (Known => Known')
    BY <1>1, <1>2, <2>1 DEF SendOpen, Waiting, Known
  <2> QED BY <1>1, <1>4, <2>2, LatchStays
<1> QED BY <1>3, <1>4 DEF TakesInterrupt

LEMMA PumpReadsLatch ==
  ASSUME TypeOK, PipesInv, GensInv, LatchInv, PumpReads
  PROVE  LatchInv'
<1> DEFINE line == Head(stdout)
<1>1. /\ child # "none" /\ stdout # <<>> /\ ending.pc = "read" /\ stdout' = Tail(stdout)
      /\ UNCHANGED <<child, turn, stdin, op, turnGen>>
      /\ pumpGen' = IF Captures THEN pendingGen ELSE pumpGen
  BY DEF PumpReads, calls
<1>2. stdout \in Seq(Lines) /\ OldFirst(stdout)
  BY DEF TypeOK, ChildOK, Lines, PipesInv
<1>3. /\ SendOpen' = SendOpen /\ Waiting' = Waiting /\ (Known => Known')
  BY <1>1 DEF SendOpen, Waiting, Contains, Known, PumpReads
<1>4. /\ ~EndLine(line) => (HasEnd(stdout) => HasEnd(stdout'))
                           /\ (TwoEnds(stdout) => TwoEnds(stdout'))
      /\ TwoEnds(stdout) => HasEnd(stdout')
  BY <1>1, <1>2, ReadOn
\* the pump has the row's generation, unless it is in the middle of an older turn
<1>5. child \in Alive /\ ~captured => pumpGen' = turnGen'
  <2>1. CASE pendingGen = 0 /\ child \in Alive
    <3>1. turnGen \in {0, pumpGen} /\ pumpGen \in 0..turnGen /\ turnGen \in Nat
      BY <2>1 DEF GensInv, TypeOK, RowOK
    <3>2. turnGen = pumpGen
      BY <3>1
    <3> QED BY <1>1, <2>1, <3>2 DEF Captures
  <2>2. CASE pendingGen # 0
    BY <1>1, <2>2 DEF GensInv, Captures
  <2> QED BY <2>1, <2>2
<1>6. child \in Alive /\ captured => pumpGen' = pumpGen
  BY <1>1 DEF Captures
<1>7. ~Settling
  BY <1>1 DEF Settling
<1>8. CASE line.kind \in {"init", "stream"}
  <2>1. ~EndLine(line) /\ line.of # Old
    BY <1>1, <1>2, <1>8, ReadOff DEF EndLine
  <2>2. child \in Alive => child' \in Running \/ HasEnd(stdout')
    <3>1. child \in Alive /\ child \notin Running => AllEnd(stdout)
      BY DEF PipesInv, Ending, Alive, Running
    <3> QED BY <1>1, <1>2, <1>8, <2>1, <3>1, ReadOff
  <2>3. ASSUME ~Known', child' \in Alive, captured', pumpGen' # turnGen'
        PROVE  \/ SendOpen' \/ Waiting' \/ (child' \in Running /\ HasEnd(stdout'))
               \/ TwoEnds(stdout')
    <3>1. captured /\ pumpGen # turnGen
      BY <1>1, <1>5, <1>6, <2>3
    <3>2. TurnBehind
      BY <1>1, <1>3, <2>3, <3>1 DEF LatchInv, PendingIsBehind
    <3> QED BY <1>1, <1>3, <1>4, <2>1, <3>2 DEF TurnBehind
  <2> QED BY <1>1, <2>2, <2>3, LatchNow
<1>9. CASE line.kind = "result"
  <2>1. /\ captured' = FALSE /\ UNCHANGED busy
        /\ ending'.pc = "settle" /\ ending'.live = EndsTurn(interruptSent)
    BY <1>9 DEF PumpReads
  <2>2. CASE EndsTurn(interruptSent)
    <3>1. CASE child \in Alive /\ captured /\ pumpGen # turnGen
      <4>1. ~Known' => TurnBehind
        BY <1>3, <3>1 DEF LatchInv, PendingIsBehind
      <4>2. ~Known' => SendOpen' \/ Waiting' \/ child' \in Running \/ HasEnd(stdout')
        BY <1>1, <1>3, <1>4, <4>1 DEF TurnBehind
      <4> QED BY <1>1, <2>1, <3>1, <4>2, LatchNow
    <3>2. CASE child \in Alive /\ ~(captured /\ pumpGen # turnGen)
      <4>1. pumpGen' = turnGen'
        BY <1>1, <1>5, <1>6, <3>2
      <4>2. Settling'
        BY <2>1, <2>2, <4>1 DEF Settling
      <4> QED BY <1>1, <2>1, <3>2, <4>2, LatchNow
    <3>3. CASE child \notin Alive
      BY <1>1, <3>3, LatchNow
    <3> QED BY <3>1, <3>2, <3>3
  <2>3. CASE ~EndsTurn(interruptSent) /\ line.of # Old
    <3>1. "swallowed" \in strayed'
      BY <1>9, <2>3 DEF PumpReads, EndsTurn
    <3> QED BY <3>1, LatchNow DEF Known, Latchers
  <2>4. CASE ~EndsTurn(interruptSent) /\ line.of = Old
    <3>1. ~EndLine(line)
      BY <2>4 DEF EndLine
    <3>2. ~Known' /\ child' \in Alive /\ busy' =>
            SendOpen' \/ Waiting' \/ child' \in Running \/ HasEnd(stdout')
      BY <1>1, <1>3, <1>4, <1>7, <2>1, <3>1 DEF LatchInv, BusyEnds, EndAhead
    <3> QED BY <1>1, <2>1, <3>2, LatchNow
  <2> QED BY <2>2, <2>3, <2>4
<1> QED BY <1>8, <1>9 DEF PumpReads

LEMMA PumpSettlesLatch ==
  ASSUME PipesInv, LatchInv, PumpSettles
  PROVE  LatchInv'
<1>1. /\ ending.pc = "settle" /\ busy' = (busy /\ ~(ending.live /\ turnGen = pumpGen))
      /\ UNCHANGED <<turnGen, pumpGen, captured, stdout, op, strayed>>
      /\ (child' = "gone" \/ UNCHANGED <<child, stdin>>)
  BY Zenon DEF PumpSettles, SameGen, Killed, Dead, calls, history
<1>2. SendOpen' = SendOpen /\ Known' = Known
  BY <1>1 DEF SendOpen, Known
<1>3. CASE child' = "gone"
  BY <1>3, LatchNow DEF Alive, Running
<1>4. CASE UNCHANGED <<child, stdin>>
  <2>1. Waiting' = Waiting
    BY <1>4 DEF Waiting, Contains
  <2>2. busy' => busy /\ ~Settling
    BY <1>1 DEF Settling
  <2>3. child # "none"
    BY <1>1 DEF PipesInv
  <2> QED BY <1>1, <1>2, <1>4, <2>1, <2>2, <2>3, LatchNow
       DEF LatchInv, BusyEnds, PendingIsBehind, EndAhead, TurnBehind
<1> QED BY <1>1, <1>3, <1>4

LEMMA PumpExitsLatch ==
  ASSUME PumpExits
  PROVE  LatchInv'
<1>1. child' = "none" /\ (busy' => "unheard" \in strayed')
  BY DEF PumpExits
<1> QED BY <1>1, LatchNow DEF Known, Latchers, Alive, Running

LEMMA SweepLatch ==
  ASSUME TypeOK, PipesInv, LatchInv, Sweep
  PROVE  LatchInv'
<1>1. UNCHANGED <<child, turn, stdin, stdout, captured, pumpGen, turnGen, ending, op>>
  BY DEF Sweep, process, pump, calls
<1>2. SendOpen' = SendOpen /\ Waiting' = Waiting
  BY <1>1 DEF SendOpen, Waiting, Contains
<1>3. stdout = <<>>
  BY DEF Sweep, Silent
<1>4. CASE busy' = FALSE /\ strayed' = {} /\ ~\E t \in Turns : InFlight(t)
  <2>1. ~(captured /\ child \in Alive)
    <3> SUFFICES ASSUME captured, child \in Alive PROVE FALSE
      OBVIOUS
    <3>1. child \in Running
      BY <1>3 DEF PipesInv, HasEnd, Alive
    <3>2. turn \in Turns /\ InFlight(turn)
      BY <3>1 DEF TypeOK, ChildOK, InFlight, Unread, Works
    <3> QED BY <1>4, <3>2
  <2> QED BY <1>1, <1>4, <2>1, LatchNow
<1>5. CASE strayed \subseteq strayed' /\ (busy' => busy)
  BY <1>1, <1>2, <1>5, LatchStays DEF Known
<1>6. CASE ~\E t \in Turns : InFlight(t)
  <2>1. \/ busy' = FALSE /\ strayed' = {}
        \/ strayed \subseteq strayed' /\ (busy' => busy)
    BY <1>6, Zenon DEF Sweep
  <2> QED BY <1>4, <1>5, <1>6, <2>1
<1>7. CASE \E t \in Turns : InFlight(t)
  <2>1. strayed \subseteq strayed' /\ (busy' => busy)
    BY <1>7 DEF Sweep
  <2> QED BY <1>5, <2>1
<1> QED BY <1>6, <1>7

LEMMA LatchStep ==
  TypeOK /\ PipesInv /\ GensInv /\ LatchInv /\ [Next]_vars => LatchInv'
<1> SUFFICES ASSUME TypeOK, PipesInv, GensInv, LatchInv, [Next]_vars PROVE LatchInv'
  OBVIOUS
<1>0. op \in [Openers -> [pc : {"idle", "checked", "opened", "draining", "written", "done"},
                          epoch : Nat]]
  BY DEF TypeOK, CallsOK
<1>1. ASSUME UNCHANGED <<child, stdin, stdout, captured, pumpGen, turnGen, ending, busy, strayed>>,
             \A o \in Openers : op[o].pc = "opened" => op'[o].pc = "opened"
      PROVE  LatchInv'
  BY <1>1, LatchStays DEF Known, SendOpen, Waiting, Contains
<1>2. CASE Opening
  <2>1. ASSUME NEW o \in Desks \cup Phones, SendChecks(o) PROVE LatchInv'
    BY <1>0, <1>1, <2>1 DEF SendChecks, row, process, pump, history
  <2>2. ASSUME NEW o \in Desks \cup Phones, SendWrites(o) PROVE LatchInv'
    BY <2>2, WriteLatch, Names DEF SendWrites
  <2>3. ASSUME NEW w \in Wakers, WakeChecks(w) \/ WakeFails(w) PROVE LatchInv'
    BY <1>0, <1>1, <2>3 DEF WakeChecks, WakeFails, row, process, pump, history
  <2>4. ASSUME NEW w \in Wakers, WakeWrites(w) PROVE LatchInv'
    BY <2>4, WriteLatch, Names DEF WakeWrites
  <2> QED BY <1>2, <2>1, <2>2, <2>3, <2>4, ResumeLatch, SendOpensLatch, SendFailsLatch,
             WakeOpensLatch DEF Opening
<1>3. CASE Child
  <2>1. ASSUME Folds PROVE LatchInv'
    BY <2>1, LatchNow DEF Folds, Known, Latchers
  <2>2. ASSUME Ends PROVE LatchInv'
    <3>1. /\ child \in Running /\ child' = "idle" /\ Emit("result", turn)
          /\ UNCHANGED <<op, captured, pumpGen, turnGen, strayed, stdin>>
      BY <2>2 DEF Ends, row, pump, calls, history
    <3> QED BY <3>1, EndLatch
  <2>3. ASSUME Dies PROVE LatchInv'
    BY <2>3, LatchNow DEF Dies, Dead, Alive, Running
  <2>4. ASSUME {child, child'} \subseteq Running, UNCHANGED <<op, row, stdin, stdout, pump, strayed>>
        PROVE  LatchInv'
    BY <2>4, LatchStays DEF Known, SendOpen, Waiting, Contains, Running, row, pump
  <2>5. ASSUME OtherHookBlocks PROVE LatchInv'
    BY <2>4, <2>5 DEF OtherHookBlocks, calls, Running
  <2>6. ASSUME CloseStarts \/ CloseConfirms PROVE LatchInv'
    BY <1>1, <2>6 DEF CloseStarts, CloseConfirms, process, pump, calls, history
  <2>7. ASSUME NEW s \in Status, Reports(s) PROVE LatchInv'
    BY <1>1, <2>7 DEF Reports, process, pump, calls, history
  <2>8. ASSUME NEW a \in Verdicts, StopReads(a) PROVE LatchInv'
    <3>1. /\ {child, child'} \subseteq Running
          /\ UNCHANGED <<op, busy, turnGen, pumpGen, captured, stdin, stdout, ending, strayed>>
      BY <2>8 DEF StopReads, pump, history, Running
    <3> QED BY <3>1, LatchStays DEF Known, SendOpen, Waiting, Contains, Running
  <2> QED BY <1>3, <2>1, <2>2, <2>3, <2>5, <2>6, <2>7, <2>8, BeginsLatch, StreamsLatch,
             TakesInterruptLatch DEF Child
<1>4. CASE Daemon
  <2>1. ASSUME StopSettles PROVE LatchInv'
    <3>1. /\ UNCHANGED <<turnGen, pumpGen, captured, stdout, ending, op, strayed>>
          /\ busy' => busy
          /\ (child' = "gone" \/ UNCHANGED <<child, stdin>>)
      BY <2>1, Zenon DEF StopSettles, Killed, Dead, pump
    <3> QED BY <3>1, LatchStays DEF Known, SendOpen, Waiting, Contains
  <2>2. ASSUME CancelFlags \/ CancelFails PROVE LatchInv'
    BY <1>1, <2>2 DEF CancelFlags, CancelFails, row, process, pump, calls, history
  <2>3. ASSUME CancelWrites PROVE LatchInv'
    <3>1. /\ UNCHANGED <<turnGen, pumpGen, captured, stdout, ending, op, strayed, busy, child>>
          /\ stdin' = Append(stdin, Interrupt)
      BY <2>3 DEF CancelWrites, pump, history
    <3>2. stdin \in Seq(Inputs) /\ Interrupt \in Inputs
      BY DEF TypeOK, ChildOK, Inputs
    <3>3. \A o \in Openers : Contains(stdin, o) => Contains(stdin', o)
      BY <3>1, <3>2, Sent
    <3>4. \A o : Contains(stdin, o)' <=> Contains(stdin', o)
      BY DEF Contains
    <3>5. (Waiting => Waiting') /\ SendOpen' = SendOpen /\ Known' = Known
      BY <3>1, <3>3, <3>4 DEF Waiting, SendOpen, Known
    <3> QED BY <3>1, <3>5, LatchStays
  <2> QED BY <1>4, <2>1, <2>2, <2>3, PumpReadsLatch, PumpSettlesLatch, PumpExitsLatch,
             SweepLatch DEF Daemon
<1>5. CASE UNCHANGED vars
  BY <1>1, <1>5 DEF vars, row, process, pump, calls, history
<1> QED BY <1>2, <1>3, <1>4, <1>5 DEF Next

LEMMA GensInit == Init => GensInv /\ LatchInv
<1> SUFFICES ASSUME Init PROVE GensInv /\ LatchInv
  OBVIOUS
<1>1. turnGen = 0 /\ pendingGen = 0 /\ pumpGen = 0 /\ stop.gen = 0 /\ busy = FALSE
      /\ captured = FALSE
  BY DEF Init, NoStop
<1> QED BY <1>1 DEF GensInv, LatchInv, BusyEnds, PendingIsBehind, OrphanEnds

\* Whatever opens, dies, is cancelled, replayed or folded: busy in a chat where nothing
\* runs any more has come of one of the five named ways; in every other case a line on
\* stdout, a call or the exit of the child is still there to clear it (pump.rs,
\* registry_flags.rs).
THEOREM LatchesKnown == Spec => []LatchesAreKnown
<1>1. Init => PipesInv /\ GensInv /\ LatchInv
  BY PipesInit, GensInit
<1>2. TypeOK /\ (PipesInv /\ GensInv /\ LatchInv) /\ [Next]_vars
        => (PipesInv /\ GensInv /\ LatchInv)'
  BY PipesStep, GensStep, LatchStep
<1>3. LatchInv => LatchesAreKnown
  <2> SUFFICES ASSUME LatchInv, Quiet, busy PROVE Known
    BY DEF LatchesAreKnown, Known, Latchers
  <2>1. /\ child \in {"idle", "none"} /\ stdin = <<>> /\ stdout = <<>> /\ ending.pc = "read"
        /\ ~SendOpen
    BY DEF Quiet, SendOpen
  <2>2. ~EndAhead
    BY <2>1 DEF EndAhead, Waiting, Contains, HasEnd, Settling, Running
  <2> QED BY <2>1, <2>2 DEF LatchInv, BusyEnds, OrphanEnds, Alive
<1> QED BY <1>1, <1>2, <1>3, TypeCorrect, PTL DEF Spec

-------------------------------------------------------------------------------
(* Whose turn the row shows.                                                  *)

Clean == ~crossed /\ strayed = {}

Ops == [pc : {"idle", "checked", "opened", "draining", "written", "done"}, epoch : Nat]

\* A message that is about to be written, or waits, and one that is being worked at
Coming(o) == op[o].pc = "opened" \/ Contains(stdin, o)
RunsNow(o) == turn = o /\ child \in Running

\* The turns OpenTurnIsShown speaks of, and those of the calls before they write
Mine(o) ==
  \/ op[o].pc = "opened"
  \/ op[o].pc = "done" /\ o \notin hushed /\ (Contains(stdin, o) \/ RunsNow(o))

\* A turn that comes has at most the rest of one other before it: the pump has begun to
\* read that one and holds its generation, not the one of the turn that comes.
ComesBehind(o) ==
  Coming(o) =>
    /\ child \notin {"begun", "streaming"} /\ NoInit(stdout)
    /\ captured \/ (child \notin Running /\ AllOld(stdout))
    /\ op[o].pc # "written" => (captured => pumpGen # turnGen) /\ stop.gen # turnGen + 1

\* So it is when the child works at it.
RunsBehind(o) ==
  RunsNow(o) /\ o \notin hushed /\ HasEnd(stdout) =>
    captured /\ OneEnd(stdout) /\ (op[o].pc # "written" => pumpGen # turnGen)

\* No line that is still to be settled takes back what the row shows of it.
Shows == busy /\ awaiting \in {"none", "close_failed"} /\ ~Settling
IsShown(o) == Mine(o) => Shows

OneSend ==
  /\ OneWaits(stdin) /\ (\A o, p \in Opened : o = p)
  /\ SendOpen => NoneWaits(stdin)

\* The replayed history does not end a turn.
HistoryIsReplayed == strayed = {} => NoneOf(stdout, Old) \/ (replaying /\ ~live)

ShownInv ==
  /\ HistoryIsReplayed
  /\ Clean => OneSend /\ \A o \in Openers : ComesBehind(o) /\ RunsBehind(o) /\ IsShown(o)

LEMMA Shown ==
  ASSUME ShownInv, Clean
  PROVE  /\ OneSend
         /\ \A o \in Openers : ComesBehind(o) /\ RunsBehind(o) /\ IsShown(o)
BY DEF ShownInv

LEMMA ShownNow ==
  ASSUME strayed' = {} => NoneOf(stdout', Old) \/ (replaying' /\ ~live'),
         Clean' =>
           /\ OneWaits(stdin')
           /\ \A o, p \in Openers : op'[o].pc \in {"opened", "written"}
                                    /\ op'[p].pc \in {"opened", "written"} => o = p
           /\ \A o, p \in Openers : op'[o].pc = "opened" => ~Contains(stdin', p),
         Clean' => \A o \in Openers : op'[o].pc = "opened" \/ Contains(stdin', o) =>
           /\ child' \notin {"begun", "streaming"} /\ NoInit(stdout')
           /\ captured' \/ (child' \notin Running /\ AllOld(stdout'))
           /\ op'[o].pc # "written" =>
                (captured' => pumpGen' # turnGen') /\ stop'.gen # turnGen' + 1,
         Clean' => \A o \in Openers :
           turn' = o /\ child' \in Running /\ o \notin hushed' /\ HasEnd(stdout') =>
             /\ captured' /\ OneEnd(stdout')
             /\ op'[o].pc # "written" => pumpGen' # turnGen',
         Clean' => \A o \in Openers : Mine(o)' => Shows'
  PROVE  ShownInv'
<1>1. \A o : Contains(stdin, o)' <=> Contains(stdin', o)
  BY DEF Contains
<1>2. (HasEnd(stdout)' <=> HasEnd(stdout')) /\ (OneEnd(stdout)' <=> OneEnd(stdout'))
  BY DEF HasEnd, OneEnd
<1>3. (NoInit(stdout)' <=> NoInit(stdout')) /\ (AllOld(stdout)' <=> AllOld(stdout'))
  BY DEF NoInit, AllOld
<1>4. HistoryIsReplayed'
  <2>1. NoneOf(stdout, Old)' <=> NoneOf(stdout', Old)
    BY DEF NoneOf
  <2> QED BY <2>1 DEF HistoryIsReplayed
<1>5. ASSUME Clean' PROVE OneSend'
  <2>1. OneWaits(stdin)' <=> OneWaits(stdin')
    BY DEF OneWaits
  <2>2. (\A o, p \in Opened : o = p)'
    BY <1>5 DEF Opened
  <2>3. (SendOpen => NoneWaits(stdin))'
    BY <1>1, <1>5 DEF SendOpen, NoneWaits
  <2> QED BY <1>5, <2>1, <2>2, <2>3 DEF OneSend
<1>6. ASSUME Clean', NEW o \in Openers PROVE ComesBehind(o)'
  BY <1>1, <1>3, <1>6 DEF ComesBehind, Coming
<1>7. ASSUME Clean', NEW o \in Openers PROVE RunsBehind(o)'
  BY <1>2, <1>7 DEF RunsBehind, RunsNow
<1> QED BY <1>4, <1>5, <1>6, <1>7 DEF ShownInv, IsShown

\* Nothing comes, and no turn runs.
LEMMA ShownNone ==
  ASSUME strayed' = {} => NoneOf(stdout', Old) \/ (replaying' /\ ~live'),
         Clean' =>
           /\ OneWaits(stdin')
           /\ \A o, p \in Openers : op'[o].pc = "written" /\ op'[p].pc = "written" => o = p
           /\ \A o \in Openers : /\ op'[o].pc # "opened" /\ ~Contains(stdin', o)
                                 /\ ~(turn' = o /\ child' \in Running)
  PROVE  ShownInv'
<1>1. \A o : Contains(stdin, o)' <=> Contains(stdin', o)
  BY DEF Contains
<1>2. Clean' => \A o \in Openers : ~Mine(o)'
  BY <1>1 DEF Mine, RunsNow
<1> QED BY <1>2, ShownNow

\* Steps that open nothing, write nothing and read nothing.
LEMMA ShownStays ==
  ASSUME TypeOK, ShownInv, Clean' => Clean, strayed' = {} => strayed = {},
         UNCHANGED <<stdout, turn, captured, pumpGen, turnGen, live, replaying>>,
         stop' \in {stop, NoStop} \/ (Clean' => \A o \in Openers : ~Coming(o)),
         \A o \in Openers : op'[o].pc = op[o].pc \/ {op[o].pc, op'[o].pc} \subseteq Fresh \ {"opened"},
         \/ child' \in {child, "gone"}
         \/ {child, child'} \subseteq Running /\ (Clean' => \A o \in Openers : ~Coming(o)),
         OneWaits(stdin) => OneWaits(stdin'),
         \A o \in Openers : Contains(stdin', o) => Contains(stdin, o),
         hushed \subseteq hushed',
         Clean' => \A o \in Openers :
           Mine(o) /\ (op[o].pc = "opened" \/ o \notin hushed') => Shows'
  PROVE  ShownInv'
<1>0. turnGen \in Nat /\ stop.gen \in Nat
  BY DEF TypeOK, RowOK, CallsOK
<1>1. \A o \in Openers : /\ op'[o].pc = "opened" <=> op[o].pc = "opened"
                         /\ op'[o].pc = "written" <=> op[o].pc = "written"
                         /\ op'[o].pc = "done" <=> op[o].pc = "done"
  BY DEF Fresh
<1>2. \A o \in Openers : op'[o].pc = "opened" \/ Contains(stdin', o) => Coming(o)
  BY <1>1 DEF Coming
<1>3. strayed' = {} => NoneOf(stdout', Old) \/ (replaying' /\ ~live')
  BY DEF ShownInv, HistoryIsReplayed
<1>4. ASSUME Clean'
      PROVE  /\ OneWaits(stdin')
             /\ \A o, p \in Openers : op'[o].pc \in {"opened", "written"}
                                      /\ op'[p].pc \in {"opened", "written"} => o = p
             /\ \A o, p \in Openers : op'[o].pc = "opened" => ~Contains(stdin', p)
  <2>1. OneSend
    BY <1>4, Shown
  <2>2. \A o, p \in Openers : op[o].pc \in {"opened", "written"}
                              /\ op[p].pc \in {"opened", "written"} => o = p
    BY <2>1 DEF OneSend, Opened
  <2> QED BY <1>1, <2>1, <2>2 DEF OneSend, SendOpen, NoneWaits
<1>5. ASSUME Clean', NEW o \in Openers, op'[o].pc = "opened" \/ Contains(stdin', o)
      PROVE  /\ child' \notin {"begun", "streaming"} /\ NoInit(stdout')
             /\ captured' \/ (child' \notin Running /\ AllOld(stdout'))
             /\ op'[o].pc # "written" =>
                  (captured' => pumpGen' # turnGen') /\ stop'.gen # turnGen' + 1
  <2>1. Coming(o) /\ ComesBehind(o)
    BY <1>2, <1>5, Shown
  <2>2. child' \in {child, "gone"} /\ stop' \in {stop, NoStop}
    BY <1>5, <2>1
  <2>3. stop'.gen = stop.gen \/ stop'.gen = 0
    BY <2>2 DEF NoStop
  <2> QED BY <1>0, <1>1, <2>1, <2>2, <2>3 DEF ComesBehind, Running
<1>6. ASSUME Clean', NEW o \in Openers, turn' = o, child' \in Running, o \notin hushed',
             HasEnd(stdout')
      PROVE  /\ captured' /\ OneEnd(stdout')
             /\ op'[o].pc # "written" => pumpGen' # turnGen'
  <2>1. RunsNow(o) /\ RunsBehind(o)
    BY <1>6, Shown DEF RunsNow, Running
  <2> QED BY <1>1, <1>6, <2>1 DEF RunsBehind
<1>7. ASSUME Clean', NEW o \in Openers, Mine(o)' PROVE Shows'
  <2>1. Contains(stdin, o)' <=> Contains(stdin', o)
    BY DEF Contains
  <2>2. Mine(o) /\ (op[o].pc = "opened" \/ o \notin hushed')
    BY <1>1, <1>7, <2>1 DEF Mine, RunsNow, Running
  <2> QED BY <1>7, <2>2
<1> QED BY <1>3, <1>4, <1>5, <1>6, <1>7, ShownNow

LEMMA ResumeShown ==
  ASSUME NEW d \in Desks, Resume(d)
  PROVE  ShownInv'
<1>1. /\ child' = "idle" /\ stdin' = <<>> /\ replaying' = TRUE /\ live' = FALSE
      /\ UNCHANGED op /\ (Clean' => Opened = {})
  BY DEF Resume, Spawn, calls, Clean
<1>2. Clean' => \A o \in Openers : op[o].pc \notin {"opened", "written"}
  BY <1>1 DEF Opened
<1> QED BY <1>1, <1>2, ShownNone DEF OneWaits, Contains, Running

\* What Crosses leaves out.
LEMMA NotCrossed ==
  ASSUME TypeOK, PipesInv, NEW o \in Openers, op[o].pc \in Fresh, ~Crosses(o)
  PROVE  /\ stdin = <<>> /\ NoInit(stdout) /\ child \notin {"begun", "streaming"}
         /\ captured \/ (child \notin Running /\ AllOld(stdout))
         /\ \A p \in Openers : p # o => op[p].pc \notin {"opened", "written"}
<1>1. stdin = <<>> /\ NoInit(stdout) /\ child \notin {"begun", "streaming"}
  BY DEF Crosses, NoInit
<1>2. \A p \in Openers : p # o => op[p].pc \notin {"opened", "written"}
  BY DEF Crosses, Opened
<1>3. ASSUME ~captured PROVE child \notin Running /\ AllOld(stdout)
  <2>1. \A t \in Turns \ {o, Old} : ~Unread(t)
    BY <1>3 DEF Crosses
  <2>2. turn # o /\ NoneOf(stdout, o)
    BY DEF PipesInv, Unwritten
  <2>3. child \notin Running
    <3> SUFFICES ASSUME child \in Running PROVE FALSE
      OBVIOUS
    <3>1. turn \in Turns \ {o, Old}
      BY <2>2 DEF TypeOK, ChildOK, PipesInv
    <3> QED BY <2>1, <3>1 DEF Unread, Works
  <2>4. AllOld(stdout)
    <3> SUFFICES ASSUME NEW k \in 1..Len(stdout), stdout[k].of # Old PROVE FALSE
      BY DEF AllOld
    <3>1. stdout \in Seq(Lines)
      BY DEF TypeOK, ChildOK, Lines
    <3>2. stdout[k] \in Lines
      BY <3>1
    <3>3. stdout[k].of \in Turns \ {o, Old}
      BY <2>2, <3>2 DEF Lines, NoneOf
    <3> QED BY <2>1, <3>3 DEF Unread
  <2> QED BY <2>3, <2>4
<1> QED BY <1>1, <1>2, <1>3

\* A generation of its own sets the new turn apart from whatever is read or settled.
LEMMA Fresher ==
  ASSUME TypeOK, GensInv, OpenTurn, UNCHANGED <<pumpGen, ending, stop>>
  PROVE  pumpGen' # turnGen' /\ stop'.gen # turnGen' + 1 /\ Shows'
<1>1. turnGen \in Nat /\ pumpGen \in 0..turnGen /\ stop.gen \in Nat /\ stop.gen <= turnGen + 1
  BY DEF TypeOK, RowOK, CallsOK, GensInv
<1>2. pumpGen' # turnGen' /\ stop'.gen # turnGen' + 1
  BY <1>1 DEF OpenTurn
<1>3. ~Settling'
  BY <1>2 DEF Settling
<1> QED BY <1>2, <1>3 DEF Shows, OpenTurn

LEMMA SendOpensShown ==
  ASSUME TypeOK, PipesInv, GensInv, ShownInv, NEW o \in Desks \cup Phones, SendOpens(o)
  PROVE  ShownInv'
<1>1. o \in Openers /\ op[o].pc \in Fresh
  BY Names DEF SendOpens, Fresh
<1>2. op' = [op EXCEPT ![o].pc = "opened"] /\ op \in [Openers -> Ops]
  BY DEF SendOpens, TypeOK, CallsOK, Ops
<1>3. UNCHANGED <<child, turn, stdin, stdout, captured, pumpGen, live, replaying, ending, stop,
                  hushed, strayed>>
  BY DEF SendOpens, process, pump
<1>4. pumpGen' # turnGen' /\ stop'.gen # turnGen' + 1 /\ Shows'
  BY <1>3, Fresher DEF SendOpens
<1>5. Clean' => Clean /\ ~Crosses(o)
  BY DEF SendOpens, Clean
<1>6. strayed' = {} => NoneOf(stdout', Old) \/ (replaying' /\ ~live')
  BY <1>3 DEF ShownInv, HistoryIsReplayed
<1>7. ASSUME Clean'
      PROVE  /\ OneWaits(stdin')
             /\ \A p, q \in Openers : op'[p].pc \in {"opened", "written"}
                                      /\ op'[q].pc \in {"opened", "written"} => p = q
             /\ \A p, q \in Openers : op'[p].pc = "opened" => ~Contains(stdin', q)
  <2>1. stdin' = <<>> /\ \A p \in Openers : p # o => op[p].pc \notin {"opened", "written"}
    BY <1>1, <1>3, <1>5, <1>7, NotCrossed
  <2> QED BY <1>2, <2>1 DEF OneWaits, Contains, Ops
<1>8. ASSUME Clean'
      PROVE  /\ child' \notin {"begun", "streaming"} /\ NoInit(stdout')
             /\ captured' \/ (child' \notin Running /\ AllOld(stdout'))
  BY <1>1, <1>3, <1>5, <1>8, NotCrossed
<1>9. ASSUME Clean', NEW p \in Openers,
             turn' = p /\ child' \in Running /\ p \notin hushed' /\ HasEnd(stdout')
      PROVE  captured' /\ OneEnd(stdout')
  <2>1. RunsNow(p) /\ RunsBehind(p)
    BY <1>3, <1>5, <1>9, Shown DEF RunsNow
  <2> QED BY <1>3, <1>9, <2>1 DEF RunsBehind
<1> QED BY <1>4, <1>6, <1>7, <1>8, <1>9, ShownNow

\* A call writes into the pipe of the child it found, or into that of a new one.
LEMMA WriteShown ==
  ASSUME TypeOK, PipesInv, ShownInv, NEW o \in Openers, Write(o),
         op[o].pc \in Fresh, op'[o].pc \in {"done", "written"},
         \A p \in Openers \ {o} : op'[p] = op[p],
         UNCHANGED <<turnGen, stop, hushed, strayed, busy, awaiting>>,
         Clean' => Clean,
         Clean' =>
           /\ NoneWaits(stdin) /\ NoInit(stdout) /\ child \notin {"begun", "streaming"}
           /\ captured \/ (child \notin Running /\ AllOld(stdout))
           /\ \A p \in Openers : p # o => op[p].pc \notin {"opened", "written"},
         Clean' /\ op'[o].pc = "done" =>
           /\ Shows /\ stop.gen # turnGen + 1
           /\ captured => pumpGen # turnGen
  PROVE  ShownInv'
<1>1. CASE /\ Reaches(o) /\ stdin' = Append(stdin, o)
           /\ UNCHANGED <<child, turn, stdout, epoch, interruptSent, pump>>
  <2>1. UNCHANGED <<captured, pumpGen, live, replaying, ending>>
    BY <1>1 DEF pump
  <2>2. stdin \in Seq(Inputs)
    BY DEF TypeOK, ChildOK, Inputs
  <2>3. /\ \A p : Contains(stdin', p) <=> Contains(stdin, p) \/ p = o
        /\ NoneWaits(stdin) => OneWaits(stdin')
    BY <1>1, <2>2, Sent DEF Inputs
  <2>4. strayed' = {} => NoneOf(stdout', Old) \/ (replaying' /\ ~live')
    BY <1>1, <2>1 DEF ShownInv, HistoryIsReplayed
  <2>5. ASSUME Clean', NEW p \in Openers, op'[p].pc = "opened" \/ Contains(stdin', p)
        PROVE  p = o
    BY <2>3, <2>5 DEF NoneWaits
  <2>6. ASSUME Clean', NEW p \in Openers,
               turn' = p /\ child' \in Running /\ p \notin hushed' /\ HasEnd(stdout')
        PROVE  /\ captured' /\ OneEnd(stdout')
               /\ op'[p].pc # "written" => pumpGen' # turnGen'
    <3>1. p # o
      BY <1>1, <2>6 DEF PipesInv, Unwritten
    <3>2. RunsNow(p) /\ RunsBehind(p) /\ op'[p] = op[p]
      BY <1>1, <2>6, <3>1, Shown DEF RunsNow
    <3> QED BY <1>1, <2>1, <2>6, <3>2 DEF RunsBehind
  <2>7. ASSUME Clean', NEW p \in Openers, Mine(p)' PROVE Shows'
    <3>1. Contains(stdin, p)' <=> Contains(stdin', p)
      BY DEF Contains
    <3>2. Shows' <=> Shows
      BY <2>1 DEF Shows, Settling
    <3>3. CASE p = o
      BY <2>7, <3>2, <3>3, Names DEF Mine
    <3>4. CASE p # o
      <4>1. Mine(p)
        BY <1>1, <2>3, <2>7, <3>1, <3>4 DEF Mine, RunsNow
      <4> QED BY <2>7, <3>2, <4>1, Shown DEF IsShown
    <3> QED BY <3>3, <3>4
  <2>8. ASSUME Clean'
        PROVE  /\ OneWaits(stdin')
               /\ \A p, q \in Openers : op'[p].pc \in {"opened", "written"}
                                        /\ op'[q].pc \in {"opened", "written"} => p = q
               /\ \A p, q \in Openers : op'[p].pc = "opened" => ~Contains(stdin', q)
    BY <2>3, <2>5, <2>8
  <2>9. ASSUME Clean', NEW p \in Openers, op'[p].pc = "opened" \/ Contains(stdin', p)
        PROVE  /\ child' \notin {"begun", "streaming"} /\ NoInit(stdout')
               /\ captured' \/ (child' \notin Running /\ AllOld(stdout'))
               /\ op'[p].pc # "written" =>
                    (captured' => pumpGen' # turnGen') /\ stop'.gen # turnGen' + 1
    BY <1>1, <2>1, <2>5, <2>9
  <2> QED BY <2>4, <2>6, <2>7, <2>8, <2>9, ShownNow
<1>2. CASE Spawn(turnGen) /\ stdin' = <<o>>
  <2>1. /\ child' = "idle" /\ captured' = FALSE /\ replaying' = TRUE /\ live' = FALSE
        /\ ending' = NoEnding
    BY <1>2 DEF Spawn
  <2>2. AllOld(stdout') /\ NoInit(stdout')
    BY <1>2, HistoryLines
  <2>3. OneWaits(stdin') /\ \A p : Contains(stdin', p) <=> p = o
    BY <1>2, SentFirst
  <2>4. ASSUME Clean', NEW p \in Openers, Mine(p)' PROVE Shows'
    <3>1. Contains(stdin, p)' <=> Contains(stdin', p)
      BY DEF Contains
    <3>2. p = o
      BY <2>1, <2>3, <2>4, <3>1 DEF Mine, RunsNow, Running
    <3>3. op'[o].pc = "done"
      BY <2>4, <3>2 DEF Mine
    <3> QED BY <2>1, <2>4, <3>3 DEF Shows, Settling, NoEnding
  <2> QED BY <2>1, <2>2, <2>3, <2>4, ShownNow DEF Running
<1> QED BY <1>1, <1>2 DEF Write

LEMMA SendWritesShown ==
  ASSUME TypeOK, PipesInv, ShownInv, NEW o \in Desks \cup Phones, SendWrites(o)
  PROVE  ShownInv'
<1>1. o \in Openers /\ op[o].pc = "opened" /\ Write(o)
  BY Names DEF SendWrites
<1>2. op'[o].pc = "done" /\ \A p \in Openers \ {o} : op'[p] = op[p]
  BY <1>1 DEF SendWrites, TypeOK, CallsOK
<1>3. UNCHANGED <<turnGen, stop, hushed, crossed, strayed, busy, awaiting>>
  BY DEF SendWrites, row, history
<1>4. ASSUME Clean
      PROVE  /\ NoneWaits(stdin) /\ NoInit(stdout) /\ child \notin {"begun", "streaming"}
             /\ captured \/ (child \notin Running /\ AllOld(stdout))
             /\ \A p \in Openers : p # o => op[p].pc \notin {"opened", "written"}
             /\ Shows /\ stop.gen # turnGen + 1
             /\ captured => pumpGen # turnGen
  <2>1. OneSend /\ ComesBehind(o) /\ IsShown(o)
    BY <1>1, <1>4, Shown
  <2>2. Coming(o) /\ Mine(o)
    BY <1>1 DEF Coming, Mine
  <2> QED BY <1>1, <2>1, <2>2 DEF OneSend, SendOpen, Opened, ComesBehind, IsShown
<1> QED BY <1>1, <1>2, <1>3, <1>4, WriteShown DEF Clean, Fresh

LEMMA WakeWritesShown ==
  ASSUME TypeOK, PipesInv, ShownInv, NEW w \in Wakers, WakeWrites(w)
  PROVE  ShownInv'
<1>1. w \in Openers /\ op[w].pc \in Fresh /\ Write(w)
  BY Names DEF WakeWrites, Fresh
<1>2. op'[w].pc = "written" /\ \A p \in Openers \ {w} : op'[p] = op[p]
  BY <1>1 DEF WakeWrites, TypeOK, CallsOK
<1>3. UNCHANGED <<turnGen, stop, hushed, strayed, busy, awaiting>>
  BY DEF WakeWrites, row
<1>4. Clean' => Clean /\ ~Crosses(w)
  BY DEF WakeWrites, Clean
<1>5. Clean' =>
        /\ NoneWaits(stdin) /\ NoInit(stdout) /\ child \notin {"begun", "streaming"}
        /\ captured \/ (child \notin Running /\ AllOld(stdout))
        /\ \A p \in Openers : p # w => op[p].pc \notin {"opened", "written"}
  BY <1>1, <1>4, NotCrossed DEF NoneWaits, Contains
<1> QED BY <1>1, <1>2, <1>3, <1>4, <1>5, WriteShown

LEMMA SendFailsShown ==
  ASSUME TypeOK, PipesInv, ShownInv, NEW o \in Desks \cup Phones, SendFails(o)
  PROVE  ShownInv'
<1>1. o \in Openers /\ op[o].pc \in Fresh
  BY Names DEF SendFails, Fresh
<1>2. op'[o].pc = "done" /\ \A p \in Openers \ {o} : op'[p] = op[p]
  BY <1>1 DEF SendFails, TypeOK, CallsOK
<1>3. UNCHANGED <<child, turn, stdin, stdout, live, replaying>>
  BY DEF SendFails, process, pump
<1>4. strayed \subseteq strayed'
  BY DEF SendFails
<1>5. strayed' = {} => NoneOf(stdout', Old) \/ (replaying' /\ ~live')
  BY <1>3, <1>4 DEF ShownInv, HistoryIsReplayed
<1>6. Clean' => Clean /\ Opened \ {o} = {} /\ \A p \in Turns \ {o} : ~InFlight(p)
  BY <1>4 DEF SendFails, Clean
<1>7. Clean' => OneWaits(stdin')
  BY <1>3, <1>6, Shown DEF OneSend
<1>8. ASSUME Clean', NEW p \in Openers
      PROVE  /\ op'[p].pc \notin {"opened", "written"} /\ ~Contains(stdin', p)
             /\ ~(turn' = p /\ child' \in Running)
  <2>1. CASE p = o
    BY <1>1, <1>2, <1>3, <2>1 DEF PipesInv, Unwritten
  <2>2. CASE p # o
    <3>1. p \in Turns \ {o} /\ op'[p] = op[p] /\ p \notin Opened
      BY <1>2, <1>6, <1>8, <2>2, Names
    <3>2. ~Works(p)
      BY <1>6, <1>8, <3>1 DEF InFlight, Unread
    <3> QED BY <1>3, <3>1, <3>2 DEF Works, Opened
  <2> QED BY <2>1, <2>2
<1> QED BY <1>5, <1>7, <1>8, ShownNone

LEMMA WakeOpensShown ==
  ASSUME TypeOK, GensInv, ShownInv, NEW w \in Wakers, WakeOpens(w)
  PROVE  ShownInv'
<1>1. w \in Openers
  BY Names
<1>2. op'[w].pc = "done" /\ \A p \in Openers \ {w} : op'[p] = op[p]
  BY <1>1 DEF WakeOpens, TypeOK, CallsOK
<1>3. /\ UNCHANGED <<child, turn, stdin, stdout, captured, pumpGen, live, replaying, ending,
                     stop, hushed, crossed>>
      /\ op[w].pc = "written" /\ strayed \subseteq strayed'
  BY DEF WakeOpens, process, pump
<1>4. pumpGen' # turnGen' /\ stop'.gen # turnGen' + 1 /\ Shows'
  BY <1>3, Fresher DEF WakeOpens
<1>5. Clean' => Clean
  BY <1>3 DEF Clean
<1>6. strayed' = {} => NoneOf(stdout', Old) \/ (replaying' /\ ~live')
  BY <1>3 DEF ShownInv, HistoryIsReplayed
<1>7. \A p \in Openers : /\ op'[p].pc \in {"opened", "written"} => op[p].pc \in {"opened", "written"}
                         /\ op'[p].pc = "opened" => op[p].pc = "opened"
  BY <1>2
<1>8. ASSUME Clean'
      PROVE  /\ OneWaits(stdin')
             /\ \A p, q \in Openers : op'[p].pc \in {"opened", "written"}
                                      /\ op'[q].pc \in {"opened", "written"} => p = q
             /\ \A p, q \in Openers : op'[p].pc = "opened" => ~Contains(stdin', q)
  <2>1. OneSend
    BY <1>5, <1>8, Shown
  <2>2. \A p, q \in Openers : op[p].pc \in {"opened", "written"}
                              /\ op[q].pc \in {"opened", "written"} => p = q
    BY <2>1 DEF OneSend, Opened
  <2> QED BY <1>3, <1>7, <2>1, <2>2 DEF OneSend, SendOpen, NoneWaits
<1>9. ASSUME Clean', NEW p \in Openers, op'[p].pc = "opened" \/ Contains(stdin', p)
      PROVE  /\ child' \notin {"begun", "streaming"} /\ NoInit(stdout')
             /\ captured' \/ (child' \notin Running /\ AllOld(stdout'))
  <2>1. Coming(p) /\ ComesBehind(p)
    BY <1>3, <1>5, <1>7, <1>9, Shown DEF Coming
  <2> QED BY <1>3, <2>1 DEF ComesBehind
<1>10. ASSUME Clean', NEW p \in Openers,
              turn' = p /\ child' \in Running /\ p \notin hushed' /\ HasEnd(stdout')
       PROVE  captured' /\ OneEnd(stdout')
  <2>1. RunsNow(p) /\ RunsBehind(p)
    BY <1>3, <1>5, <1>10, Shown DEF RunsNow
  <2> QED BY <1>3, <1>10, <2>1 DEF RunsBehind
<1> QED BY <1>4, <1>6, <1>8, <1>9, <1>10, ShownNow


\* Ends of two turns have an init line between them.
LEMMA OneOfTwo ==
  ASSUME NEW q, Parted(q), NoInit(q)
  PROVE  OneEnd(q)
<1> SUFFICES ASSUME NEW j \in 1..Len(q), NEW k \in 1..Len(q), j < k,
                    EndLine(q[j]), EndLine(q[k])
             PROVE  FALSE
  BY DEF OneEnd
<1>1. PICK i \in j..k : q[i].kind = "init"
  BY DEF Parted
<1> QED BY <1>1 DEF NoInit

LEMMA BeginsShown ==
  ASSUME TypeOK, PipesInv, ShownInv, Begins
  PROVE  ShownInv'
<1>1. /\ child = "idle" /\ child' = "begun"
      /\ UNCHANGED <<op, stop, hushed, strayed, busy, awaiting, turnGen, pumpGen, captured,
                     live, replaying, ending>>
      /\ crossed' \in {crossed, crossed \/ Opened # {}}
  BY DEF Begins, row, pump, calls
<1>0. Clean' => Clean
  BY <1>1 DEF Clean
<1>2. stdout \in Seq(Lines) /\ stdin \in Seq(Inputs)
  BY DEF TypeOK, ChildOK, Lines, Inputs
<1>3. ASSUME NEW t \in Turns \ {Old}, Emit("init", t), strayed' = {}
      PROVE  NoneOf(stdout', Old) \/ (replaying' /\ ~live')
  <2> DEFINE e == [kind |-> "init", of |-> t]
  <2>1. e.of # Old /\ stdout' = Append(stdout, e)
    BY <1>3 DEF Emit
  <2> HIDE DEF e
  <2> QED BY <1>1, <1>2, <1>3, <2>1, Emitted DEF ShownInv, HistoryIsReplayed
<1>4. CASE stdin # <<>> /\ Head(stdin) # Interrupt /\ turn' = Head(stdin)
           /\ stdin' = Tail(stdin) /\ Emit("init", Head(stdin))
  <2> DEFINE o == Head(stdin)
             e == [kind |-> "init", of |-> o]
  <2>1. /\ o \in Openers /\ o # Old /\ Contains(stdin, o)
        /\ \A p : Contains(stdin', p) => Contains(stdin, p)
        /\ OneWaits(stdin) => NoneWaits(stdin')
    BY <1>2, <1>4, Taken, Names DEF Inputs
  <2>2. stdout' = Append(stdout, e) /\ e.kind # "result"
    BY <1>4 DEF Emit
  <2> HIDE DEF o, e
  <2>3. (HasEnd(stdout') => HasEnd(stdout)) /\ (OneEnd(stdout) => OneEnd(stdout'))
    BY <1>2, <2>2, EmittedMore
  <2>4. turn' = o /\ UNCHANGED crossed
    BY <1>4, Names DEF o, Begins
  <2>5. ASSUME Clean' PROVE OneSend /\ ComesBehind(o) /\ IsShown(o) /\ Coming(o)
    BY <1>0, <2>1, <2>5, Shown DEF Coming
  <2>6. ASSUME Clean', NEW p \in Openers PROVE op'[p].pc # "opened" /\ ~Contains(stdin', p)
    BY <1>1, <2>1, <2>5, <2>6 DEF OneSend, SendOpen, NoneWaits
  <2>7. ASSUME Clean', HasEnd(stdout')
        PROVE  captured /\ OneEnd(stdout') /\ (op[o].pc # "written" => pumpGen # turnGen)
    <3>1. HasEnd(stdout) => ~AllOld(stdout)
      BY DEF HasEnd, AllOld, EndLine
    <3>2. captured /\ NoInit(stdout) /\ (op[o].pc # "written" => pumpGen # turnGen)
      BY <2>3, <2>5, <2>7, <3>1 DEF ComesBehind
    <3>3. OneEnd(stdout)
      BY <3>2, OneOfTwo DEF PipesInv
    <3> QED BY <2>3, <3>2, <3>3
  <2>8. ASSUME Clean', NEW p \in Openers, Mine(p)' PROVE Shows'
    <3>1. Contains(stdin, p)' <=> Contains(stdin', p)
      BY DEF Contains
    <3>2. p = o /\ op[o].pc = "done" /\ o \notin hushed
      BY <1>1, <2>4, <2>6, <2>8, <3>1 DEF Mine, RunsNow
    <3>3. Shows
      BY <2>1, <2>5, <2>8, <3>2 DEF IsShown, Mine
    <3> QED BY <1>1, <3>3 DEF Shows, Settling
  <2>9. strayed' = {} => NoneOf(stdout', Old) \/ (replaying' /\ ~live')
    <3>1. o \in Turns \ {Old} /\ Emit("init", o)
      BY <1>4, <2>1, Names DEF o
    <3> QED BY <1>3, <3>1
  <2>10. ASSUME Clean' PROVE OneWaits(stdin')
    <3>1. stdin' \in Seq(Inputs)
      BY <1>2, <1>4
    <3>2. \A k \in 1..Len(stdin') : stdin'[k] = Interrupt
      BY <2>6, <2>10, <3>1 DEF Contains, Inputs
    <3> QED BY <3>2 DEF OneWaits
  <2>11. ASSUME Clean' PROVE \A p, q \in Openers : op'[p].pc \in {"opened", "written"}
                                      /\ op'[q].pc \in {"opened", "written"} => p = q
    BY <1>1, <2>5, <2>11 DEF OneSend, Opened
  <2> QED BY <1>1, <2>4, <2>6, <2>7, <2>8, <2>9, <2>10, <2>11, ShownNow
<1>5. CASE /\ stdin = <<>> /\ turn' = Self /\ Emit("init", Self) /\ UNCHANGED stdin
           /\ crossed' = (crossed \/ Opened # {})
  <2>1. Self \in Turns \ {Old} /\ \A o \in Openers : turn' # o
    BY <1>5, Names
  <2>2. Clean' => \A o \in Openers : op[o].pc \notin {"opened", "written"}
    BY <1>5 DEF Clean, Opened
  <2> QED BY <1>1, <1>3, <1>5, <2>1, <2>2, ShownNone DEF OneWaits, Contains
<1> QED BY <1>4, <1>5 DEF Begins

LEMMA StreamsShown ==
  ASSUME TypeOK, PipesInv, ShownInv, Streams
  PROVE  ShownInv'
<1> DEFINE e == [kind |-> "stream", of |-> turn]
<1>1. /\ child = "begun" /\ child' = "streaming" /\ stdout' = Append(stdout, e)
      /\ UNCHANGED <<turn, stdin, op, stop, hushed, strayed, crossed, busy, awaiting, turnGen,
                     pumpGen, captured, live, replaying, ending>>
  BY DEF Streams, Emit, row, pump, calls, history
<1>2. stdout \in Seq(Lines) /\ e.kind # "result" /\ e.of # Old
  BY <1>1 DEF TypeOK, ChildOK, Lines, PipesInv, Running
<1> HIDE DEF e
<1>3. (HasEnd(stdout') => HasEnd(stdout)) /\ (OneEnd(stdout) => OneEnd(stdout'))
  BY <1>1, <1>2, EmittedMore
<1>4. strayed' = {} => NoneOf(stdout', Old) \/ (replaying' /\ ~live')
  BY <1>1, <1>2, Emitted DEF ShownInv, HistoryIsReplayed
<1>5. Clean' => Clean
  BY <1>1 DEF Clean
<1>6. ASSUME Clean', NEW o \in Openers PROVE op'[o].pc # "opened" /\ ~Contains(stdin', o)
  <2>1. ComesBehind(o)
    BY <1>5, <1>6, Shown
  <2> QED BY <1>1, <2>1 DEF ComesBehind, Coming
<1>7. ASSUME Clean', NEW o \in Openers, turn' = o /\ o \notin hushed' /\ HasEnd(stdout')
      PROVE  /\ captured' /\ OneEnd(stdout')
             /\ op'[o].pc # "written" => pumpGen' # turnGen'
  <2>1. RunsNow(o) /\ RunsBehind(o)
    BY <1>1, <1>5, <1>7, Shown DEF RunsNow, Running
  <2> QED BY <1>1, <1>3, <1>7, <2>1 DEF RunsBehind
<1>8. ASSUME Clean', NEW o \in Openers, Mine(o)' PROVE Shows'
  <2>1. Contains(stdin, o)' <=> Contains(stdin', o)
    BY DEF Contains
  <2>2. Mine(o)
    BY <1>1, <1>8, <2>1 DEF Mine, RunsNow, Running
  <2>3. Shows
    BY <1>5, <1>8, <2>2, Shown DEF IsShown
  <2> QED BY <1>1, <2>3 DEF Shows, Settling
<1>9. ASSUME Clean'
      PROVE  OneWaits(stdin') /\ \A p, q \in Openers :
               op'[p].pc \in {"opened", "written"} /\ op'[q].pc \in {"opened", "written"} => p = q
  BY <1>1, <1>5, <1>9, Shown DEF OneSend, Opened
<1> QED BY <1>1, <1>4, <1>6, <1>7, <1>8, <1>9, ShownNow

LEMMA EndShown ==
  ASSUME TypeOK, PipesInv, ShownInv, child \in Running, child' = "idle", Emit("result", turn),
         UNCHANGED <<op, stop, hushed, strayed, crossed, busy, awaiting, turnGen, pumpGen,
                     captured, live, replaying, ending>>,
         OneWaits(stdin) => OneWaits(stdin'),
         \A o \in Openers : Contains(stdin', o) => Contains(stdin, o)
  PROVE  ShownInv'
<1> DEFINE e == [kind |-> "result", of |-> turn]
<1>1. stdout \in Seq(Lines) /\ stdout' = Append(stdout, e) /\ e.kind # "init" /\ e.of # Old
  BY DEF TypeOK, ChildOK, Lines, Emit, PipesInv
<1> HIDE DEF e
<1>2. NoInit(stdout) => NoInit(stdout')
  BY <1>1, Emitted
<1>3. strayed' = {} => NoneOf(stdout', Old) \/ (replaying' /\ ~live')
  BY <1>1, Emitted DEF ShownInv, HistoryIsReplayed
<1>4. Clean' => Clean
  BY DEF Clean
<1>5. ASSUME Clean'
      PROVE  /\ OneWaits(stdin')
             /\ \A p, q \in Openers : op'[p].pc \in {"opened", "written"}
                                      /\ op'[q].pc \in {"opened", "written"} => p = q
             /\ \A p, q \in Openers : op'[p].pc = "opened" => ~Contains(stdin', q)
  <2>1. OneSend
    BY <1>4, <1>5, Shown
  <2> QED BY <2>1 DEF OneSend, Opened, SendOpen, NoneWaits
<1>6. ASSUME Clean', NEW o \in Openers, op'[o].pc = "opened" \/ Contains(stdin', o)
      PROVE  /\ NoInit(stdout') /\ captured'
             /\ op'[o].pc # "written" =>
                  (captured' => pumpGen' # turnGen') /\ stop'.gen # turnGen' + 1
  <2>1. Coming(o) /\ ComesBehind(o)
    BY <1>4, <1>6, Shown DEF Coming
  <2> QED BY <1>2, <2>1 DEF ComesBehind
<1>7. ASSUME Clean', NEW o \in Openers, Mine(o)' PROVE Shows'
  <2>1. Contains(stdin, o)' <=> Contains(stdin', o)
    BY DEF Contains
  <2>2. Mine(o)
    BY <1>7, <2>1 DEF Mine, RunsNow, Running
  <2>3. Shows
    BY <1>4, <1>7, <2>2, Shown DEF IsShown
  <2> QED BY <2>3 DEF Shows, Settling
<1> QED BY <1>3, <1>5, <1>6, <1>7, ShownNow DEF Running

LEMMA TakesInterruptShown ==
  ASSUME TypeOK, PipesInv, ShownInv, TakesInterrupt
  PROVE  ShownInv'
<1>1. UNCHANGED <<turn, op, stop, hushed, strayed, crossed, busy, awaiting, turnGen, pumpGen,
                  captured, live, replaying, ending>>
  BY DEF TakesInterrupt, row, pump, calls, history
<1>2. /\ \A o \in Openers : Contains(stdin', o) => Contains(stdin, o)
      /\ OneWaits(stdin) => OneWaits(stdin')
  <2>1. PICK k \in 1..Len(stdin) : stdin[k] = Interrupt /\ stdin' = RemoveAt(stdin, k)
    BY DEF TakesInterrupt
  <2>2. stdin \in Seq(Inputs)
    BY DEF TypeOK, ChildOK, Inputs
  <2> QED BY <2>1, <2>2, Acknowledged
<1>3. CASE child \in {"begun", "streaming"} /\ child' = "idle" /\ Emit("result", turn)
  BY <1>1, <1>2, <1>3, EndShown DEF Running
<1>4. CASE UNCHANGED <<child, stdout>>
  <2>1. Clean' => Clean
    BY <1>1 DEF Clean
  <2>2. \A o \in Openers : Clean' /\ Mine(o) => Shows'
    BY <1>1, <2>1, Shown DEF IsShown, Shows, Settling
  <2> QED BY <1>1, <1>2, <1>4, <2>1, <2>2, ShownStays
<1> QED BY <1>3, <1>4 DEF TakesInterrupt


LEMMA PumpReadsShown ==
  ASSUME TypeOK, PipesInv, GensInv, ShownInv, PumpReads
  PROVE  ShownInv'
<1> DEFINE line == Head(stdout)
<1>1. /\ stdout # <<>> /\ stdout' = Tail(stdout) /\ ending.pc = "read"
      /\ UNCHANGED <<child, turn, stdin, op, stop, turnGen, hushed, crossed>>
      /\ pumpGen' = IF Captures THEN pendingGen ELSE pumpGen
      /\ strayed \subseteq strayed'
  BY DEF PumpReads, calls
<1>2. stdout \in Seq(Lines) /\ OldFirst(stdout) /\ Parted(stdout)
  BY DEF TypeOK, ChildOK, Lines, PipesInv
<1>3. /\ NoInit(stdout) => NoInit(stdout')
      /\ AllOld(stdout) => AllOld(stdout')
      /\ NoneOf(stdout, Old) => NoneOf(stdout', Old)
      /\ OneEnd(stdout) => OneEnd(stdout')
      /\ HasEnd(stdout') => HasEnd(stdout)
  BY <1>1, <1>2, ReadOn
<1>4. Clean' => Clean
  BY <1>1 DEF Clean
<1>5. captured => pumpGen' = pumpGen
  BY <1>1 DEF Captures
<1>6. ASSUME Clean'
      PROVE  /\ OneWaits(stdin')
             /\ \A p, q \in Openers : op'[p].pc \in {"opened", "written"}
                                      /\ op'[q].pc \in {"opened", "written"} => p = q
             /\ \A p, q \in Openers : op'[p].pc = "opened" => ~Contains(stdin', q)
  <2>1. OneSend
    BY <1>4, <1>6, Shown
  <2> QED BY <1>1, <2>1 DEF OneSend, Opened, SendOpen, NoneWaits
<1>7. ASSUME NEW o \in Openers, op'[o].pc = "opened" \/ Contains(stdin', o), Clean'
      PROVE  Coming(o) /\ ComesBehind(o)
  BY <1>1, <1>4, <1>7, Shown DEF Coming
<1>8. ASSUME NEW o \in Openers, turn' = o, child' \in Running, o \notin hushed',
             HasEnd(stdout), Clean'
      PROVE  captured /\ OneEnd(stdout) /\ (op[o].pc # "written" => pumpGen # turnGen)
  BY <1>1, <1>4, <1>8, Shown DEF RunsNow, RunsBehind
<1>9. ASSUME NEW o \in Openers, Mine(o)', Clean'
      PROVE  Mine(o) /\ Shows
  <2>1. Contains(stdin, o)' <=> Contains(stdin', o)
    BY DEF Contains
  <2>2. Mine(o)
    BY <1>1, <1>9, <2>1 DEF Mine, RunsNow
  <2> QED BY <1>4, <1>9, <2>2, Shown DEF IsShown
\* a line of a turn that goes on
<1>10. CASE line.kind \in {"init", "stream"}
  <2>1. line.of # Old /\ ~EndLine(line)
    BY <1>1, <1>2, <1>10, ReadOff DEF EndLine
  <2>2. NoneOf(stdout, Old) /\ ~AllOld(stdout)
    <3>1. 1 \in 1..Len(stdout) /\ line = stdout[1]
      BY <1>1, <1>2, TailAt
    <3> QED BY <1>1, <1>2, <2>1, <3>1, ReadOff DEF AllOld
  <2>3. captured => captured'
    BY <1>10 DEF PumpReads
  <2>4. line.kind = "init" => ~NoInit(stdout)
    <3>1. 1 \in 1..Len(stdout) /\ line = stdout[1]
      BY <1>1, <1>2, TailAt
    <3> QED BY <3>1 DEF NoInit
  <2>5. ASSUME NEW o \in Openers, op'[o].pc = "opened" \/ Contains(stdin', o), Clean'
        PROVE  /\ child' \notin {"begun", "streaming"} /\ NoInit(stdout')
               /\ captured' \/ (child' \notin Running /\ AllOld(stdout'))
               /\ op'[o].pc # "written" =>
                    (captured' => pumpGen' # turnGen') /\ stop'.gen # turnGen' + 1
    BY <1>1, <1>3, <1>5, <1>7, <2>2, <2>3, <2>5 DEF ComesBehind
  <2>6. ASSUME NEW o \in Openers, turn' = o, child' \in Running, o \notin hushed',
               HasEnd(stdout'), Clean'
        PROVE  /\ captured' /\ OneEnd(stdout')
               /\ op'[o].pc # "written" => pumpGen' # turnGen'
    BY <1>1, <1>3, <1>5, <1>8, <2>3, <2>6
  <2>7. ASSUME NEW o \in Openers, Mine(o)', Clean' PROVE Shows'
    <3>1. UNCHANGED ending /\ ((UNCHANGED <<busy, awaiting>>) \/ (busy' = TRUE /\ awaiting' = "none"))
      BY <1>10 DEF PumpReads
    <3>2. ~Settling'
      BY <1>1, <3>1 DEF Settling
    <3> QED BY <1>9, <2>7, <3>1, <3>2 DEF Shows
  <2> QED BY <1>3, <1>6, <2>2, <2>5, <2>6, <2>7, ShownNow
\* the result of a turn, or of the history
<1>11. CASE line.kind = "result"
  <2>1. /\ captured' = FALSE /\ live' = FALSE /\ UNCHANGED <<busy, awaiting>>
        /\ ending'.live = EndsTurn(interruptSent)
        /\ replaying' = (replaying /\ ~EndsTurn(interruptSent))
    BY <1>11 DEF PumpReads
  \* an old one ends nothing
  <2>2. ASSUME line.of = Old, strayed' = {} PROVE ~ending'.live /\ replaying'
    <3>1. ~NoneOf(stdout, Old)
      <4>1. 1 \in 1..Len(stdout) /\ line = stdout[1]
        BY <1>1, <1>2, TailAt
      <4> QED BY <2>2, <4>1 DEF NoneOf
    <3>2. replaying /\ ~live
      BY <1>1, <2>2, <3>1 DEF ShownInv, HistoryIsReplayed
    <3>3. ~(EndsTurn(interruptSent) /\ interruptSent)
      BY <1>11, <2>2 DEF PumpReads
    <3> QED BY <2>1, <3>2, <3>3 DEF EndsTurn
  <2>3. strayed' = {} => NoneOf(stdout', Old) \/ (replaying' /\ ~live')
    BY <1>1, <1>2, <1>3, <2>1, <2>2, ReadOff
  <2>4. ASSUME line.of # Old PROVE EndLine(line) /\ HasEnd(stdout) /\ ~AllOld(stdout)
    <3>1. 1 \in 1..Len(stdout) /\ line = stdout[1]
      BY <1>1, <1>2, TailAt
    <3> QED BY <1>11, <2>4, <3>1 DEF EndLine, HasEnd, AllOld
  <2>5. captured => line.of # Old
    <3>1. 1 \in 1..Len(stdout) /\ line = stdout[1]
      BY <1>1, <1>2, TailAt
    <3> QED BY <3>1 DEF PipesInv, NoneOf
  <2>6. ASSUME NEW o \in Openers, op'[o].pc = "opened" \/ Contains(stdin', o), Clean'
        PROVE  /\ child' \notin Running /\ NoInit(stdout') /\ AllOld(stdout')
               /\ op'[o].pc # "written" => stop'.gen # turnGen' + 1
    <3>1. /\ child \notin {"begun", "streaming"} /\ NoInit(stdout)
          /\ captured \/ (child \notin Running /\ AllOld(stdout))
          /\ op[o].pc # "written" => stop.gen # turnGen + 1
      BY <1>7, <2>6 DEF ComesBehind
    <3>2. CASE line.of = Old
      BY <1>1, <1>3, <2>5, <3>1, <3>2
    <3>3. CASE line.of # Old
      <4>1. stdout' = <<>>
        BY <1>1, <1>2, <2>4, <3>1, <3>3, ReadOff
      <4>2. child \notin Running
        <5> SUFFICES ASSUME child \in Running PROVE FALSE
          OBVIOUS
        <5>1. Begun(stdout) /\ 1 \in 1..Len(stdout) /\ line = stdout[1]
          BY <1>1, <1>2, TailAt DEF PipesInv
        <5>2. PICK i \in 1..Len(stdout) : stdout[i].kind = "init"
          BY <2>4, <3>3, <5>1 DEF Begun
        <5> QED BY <3>1, <5>2 DEF NoInit
      <4> QED BY <1>1, <1>3, <3>1, <4>1, <4>2 DEF AllOld
    <3> QED BY <3>2, <3>3
  <2>7. ASSUME NEW o \in Openers, turn' = o, child' \in Running, o \notin hushed', Clean'
        PROVE  ~HasEnd(stdout')
    <3> SUFFICES ASSUME HasEnd(stdout') PROVE FALSE
      OBVIOUS
    <3>1. captured /\ OneEnd(stdout)
      BY <1>3, <1>8, <2>7
    <3> QED BY <1>1, <1>2, <2>4, <2>5, <3>1, ReadOff
  <2>8. ASSUME NEW o \in Openers, Mine(o)', Clean' PROVE Shows'
    <3>1. Mine(o) /\ Shows
      BY <1>9, <2>8
    <3>2. ~Settling'
      <4> SUFFICES ASSUME ending'.live, pumpGen' = turnGen' PROVE FALSE
        BY DEF Settling
      <4>1. line.of # Old
        BY <2>2, <2>8 DEF Clean
      <4>2. captured /\ pumpGen # turnGen
        <5>1. CASE Coming(o)
          <6>1. ComesBehind(o) /\ op[o].pc # "written"
            BY <1>4, <2>8, <3>1, Shown DEF Mine
          <6> QED BY <2>4, <4>1, <5>1, <6>1 DEF ComesBehind
        <5>2. CASE ~Coming(o)
          <6>1. op[o].pc = "done" /\ o \notin hushed /\ turn = o /\ child \in Running
            BY <3>1, <5>2 DEF Mine, Coming, RunsNow
          <6> QED BY <1>1, <1>8, <2>4, <2>8, <4>1, <6>1
        <5> QED BY <5>1, <5>2
      <4> QED BY <1>1, <1>5, <4>2
    <3> QED BY <2>1, <3>1, <3>2 DEF Shows
  <2> QED BY <1>6, <2>1, <2>3, <2>6, <2>7, <2>8, ShownNow DEF Running
<1> QED BY <1>10, <1>11 DEF PumpReads

LEMMA PumpExitsShown ==
  ASSUME TypeOK, ShownInv, PumpExits
  PROVE  ShownInv'
<1>1. /\ child' = "none" /\ stdin' = <<>> /\ stdout' = <<>> /\ UNCHANGED <<op, crossed>>
      /\ strayed \subseteq strayed' /\ (busy' => strayed' # {})
      /\ busy /\ ~busy' /\ Opened # {} => strayed' # {}
  BY DEF PumpExits, calls
<1>2. Clean' => Clean
  BY <1>1 DEF Clean
<1>3. ASSUME Clean', NEW o \in Openers PROVE op'[o].pc # "opened"
  <2> SUFFICES ASSUME op[o].pc = "opened" PROVE FALSE
    BY <1>1
  <2>1. busy /\ o \in Opened
    BY <1>2, <1>3, Shown DEF IsShown, Mine, Shows, Opened
  <2> QED BY <1>1, <1>3, <2>1 DEF Clean
<1>4. Clean' => \A p, q \in Openers : op'[p].pc = "written" /\ op'[q].pc = "written" => p = q
  BY <1>1, <1>2, Shown DEF OneSend, Opened
<1>5. NoneOf(stdout', Old)
  BY <1>1 DEF NoneOf
<1> QED BY <1>1, <1>3, <1>4, <1>5, ShownNone DEF OneWaits, Contains, Running

LEMMA SweepShown ==
  ASSUME TypeOK, ShownInv, Sweep
  PROVE  ShownInv'
<1>1. /\ UNCHANGED <<child, turn, stdin, stdout, op, hushed, crossed, captured, pumpGen, turnGen,
                     live, replaying, ending, stop>>
      /\ stdout = <<>> /\ Opened = {}
  BY DEF Sweep, Silent, process, pump, calls
<1>2. NoneOf(stdout', Old)
  BY <1>1 DEF NoneOf
<1>3. CASE ~\E t \in Turns : InFlight(t)
  <2>1. \A o \in Openers : ~Contains(stdin, o) /\ ~(turn = o /\ child \in Running)
    BY <1>3, Names DEF InFlight, Unread, Works
  <2>2. OneWaits(stdin')
    <3>1. stdin \in Seq(Inputs)
      BY DEF TypeOK, ChildOK, Inputs
    <3>2. \A k \in 1..Len(stdin) : stdin[k] = Interrupt
      BY <2>1, <3>1 DEF Contains, Inputs
    <3> QED BY <1>1, <3>2 DEF OneWaits
  <2>3. \A o \in Openers : op'[o].pc \notin {"opened", "written"}
    BY <1>1 DEF Opened
  <2>4. \A o \in Openers : ~Contains(stdin', o) /\ ~(turn' = o /\ child' \in Running)
    BY <1>1, <2>1
  <2> QED BY <1>2, <2>2, <2>3, <2>4, ShownNone
<1>4. CASE \E t \in Turns : InFlight(t)
  <2>1. \/ strayed' # {}
        \/ ~busy /\ UNCHANGED <<busy, strayed>>
    BY <1>4 DEF Sweep
  <2>2. CASE strayed' # {}
    BY <1>1, <1>2, <2>2, ShownNow DEF Clean
  <2>3. CASE ~busy /\ UNCHANGED <<busy, strayed>>
    <3>1. Clean' => Clean
      BY <1>1, <2>3 DEF Clean
    <3>2. Clean' => \A o \in Openers : ~Mine(o)
      BY <2>3, <3>1, Shown DEF IsShown, Shows
    <3> QED BY <1>1, <2>3, <3>1, <3>2, ShownStays
  <2> QED BY <2>1, <2>2, <2>3
<1> QED BY <1>3, <1>4


\* A Stop hook settles what ran, and a turn that comes is not what it has seen.
LEMMA StopSettlesShown ==
  ASSUME TypeOK, PipesInv, ShownInv, StopSettles
  PROVE  ShownInv'
<1>1. /\ UNCHANGED <<turnGen, turn, stdout, pumpGen, captured, live, replaying, ending, op,
                     crossed, strayed>>
      /\ stop' = NoStop /\ hushed \subseteq hushed'
      /\ (child' = "gone" /\ stdin' = <<>>) \/ UNCHANGED <<child, stdin>>
  BY Zenon DEF StopSettles, Killed, Dead, pump
<1>2. Clean' => Clean
  BY <1>1 DEF Clean
<1>3. child' \in {child, "gone"}
  BY <1>1
<1>4. \A o \in Openers : Contains(stdin', o) => Contains(stdin, o)
  BY <1>1 DEF Contains
<1>5. OneWaits(stdin) => OneWaits(stdin')
  BY <1>1 DEF OneWaits
<1>6. ASSUME Clean', NEW o \in Openers, Mine(o), op[o].pc = "opened" \/ o \notin hushed'
      PROVE  Shows'
  <2>1. Shows
    BY <1>2, <1>6, Shown DEF IsShown
  <2>2. CASE stop.reported /\ SameGen(stop.gen - 1)
    <3>1. stop.gen = turnGen + 1
      BY <2>2 DEF SameGen, TypeOK, RowOK, CallsOK
    <3>2. ~Coming(o)
      <4> SUFFICES ASSUME Coming(o) PROVE FALSE
        OBVIOUS
      <4>1. ComesBehind(o) /\ op[o].pc # "written"
        BY <1>2, <1>6, Shown DEF Mine
      <4> QED BY <3>1, <4>1 DEF ComesBehind
    <3>3. o = turn
      BY <1>6, <3>2 DEF Mine, Coming, RunsNow
    <3>4. turn \in hushed'
      BY <2>2 DEF StopSettles
    <3> QED BY <1>6, <3>2, <3>3, <3>4 DEF Coming
  <2>3. CASE ~(stop.reported /\ SameGen(stop.gen - 1))
    <3>1. awaiting' = awaiting /\ (busy => busy')
      BY <2>3 DEF StopSettles
    <3> QED BY <1>1, <2>1, <3>1 DEF Shows, Settling
  <2> QED BY <2>2, <2>3
<1> QED BY <1>1, <1>2, <1>3, <1>4, <1>5, <1>6, ShownStays

LEMMA PumpSettlesShown ==
  ASSUME TypeOK, PipesInv, ShownInv, PumpSettles
  PROVE  ShownInv'
<1>1. /\ UNCHANGED <<turnGen, turn, stdout, pumpGen, captured, live, replaying, op, stop,
                     hushed, crossed, strayed>>
      /\ ending.pc = "settle" /\ ending' = NoEnding
      /\ (child' = "gone" /\ stdin' = <<>>) \/ UNCHANGED <<child, stdin>>
      /\ busy' = (busy /\ ~(ending.live /\ turnGen = pumpGen))
      /\ awaiting' \in {"close_failed", awaiting} \/ (ending.live /\ turnGen = pumpGen)
  BY Zenon DEF PumpSettles, Killed, Dead, SameGen, calls, history
<1>2. Clean' => Clean
  BY <1>1 DEF Clean
<1>3. child' \in {child, "gone"}
  BY <1>1
<1>4. \A o \in Openers : Contains(stdin', o) => Contains(stdin, o)
  BY <1>1 DEF Contains
<1>5. OneWaits(stdin) => OneWaits(stdin')
  BY <1>1 DEF OneWaits
<1>6. ASSUME Clean', NEW o \in Openers, Mine(o) PROVE Shows'
  <2>1. Shows
    BY <1>2, <1>6, Shown DEF IsShown
  <2> QED BY <1>1, <2>1 DEF Shows, Settling, NoEnding
<1> QED BY <1>1, <1>2, <1>3, <1>4, <1>5, <1>6, ShownStays

LEMMA ShownStep ==
  TypeOK /\ PipesInv /\ GensInv /\ ShownInv /\ [Next]_vars => ShownInv'
<1> SUFFICES ASSUME TypeOK, PipesInv, GensInv, ShownInv, [Next]_vars PROVE ShownInv'
  OBVIOUS
<1>0. op \in [Openers -> Ops]
  BY DEF TypeOK, CallsOK, Ops
\* nothing that the row shows or that the pump reads is touched
<1>1. ASSUME UNCHANGED <<turn, stdout, captured, pumpGen, turnGen, live, replaying, ending, busy,
                         hushed, strayed>>,
             awaiting' \in {awaiting, "none"},
             crossed' \in {crossed, crossed \/ stdin # <<>> \/ Opened # {}},
             stop' = stop \/ (Clean' => \A o \in Openers : ~Coming(o)),
             \A o \in Openers : op'[o].pc = op[o].pc
                                \/ {op[o].pc, op'[o].pc} \subseteq Fresh \ {"opened"},
             \/ child' \in {child, "gone"}
             \/ {child, child'} \subseteq Running /\ (Clean' => \A o \in Openers : ~Coming(o)),
             OneWaits(stdin) => OneWaits(stdin'),
             \A o \in Openers : Contains(stdin', o) => Contains(stdin, o)
      PROVE  ShownInv'
  <2>1. Clean' => Clean
    BY <1>1 DEF Clean
  <2>2. \A o \in Openers : Clean' /\ Mine(o) => Shows'
    BY <1>1, <2>1, Shown DEF IsShown, Shows, Settling
  <2> QED BY <1>1, <2>1, <2>2, ShownStays
<1>2. CASE Opening
  <2>1. ASSUME NEW o \in Desks \cup Phones, SendChecks(o) PROVE ShownInv'
    <3>1. \A p \in Openers : op'[p].pc = op[p].pc
                             \/ {op[p].pc, op'[p].pc} \subseteq Fresh \ {"opened"}
      BY <1>0, <2>1 DEF SendChecks, Fresh, Ops
    <3> QED BY <1>1, <2>1, <3>1 DEF SendChecks, row, process, pump, history
  <2>2. ASSUME NEW w \in Wakers, WakeChecks(w) \/ WakeFails(w) PROVE ShownInv'
    <3>1. \A p \in Openers : op'[p].pc = op[p].pc
                             \/ {op[p].pc, op'[p].pc} \subseteq Fresh \ {"opened"}
      BY <1>0, <2>2 DEF WakeChecks, WakeFails, Fresh, Ops
    <3> QED BY <1>1, <2>2, <3>1 DEF WakeChecks, WakeFails, row, process, pump, history
  <2> QED BY <1>2, <2>1, <2>2, ResumeShown, SendOpensShown, SendWritesShown, SendFailsShown,
             WakeWritesShown, WakeOpensShown DEF Opening
<1>3. CASE Child
  <2>1. ASSUME child = "streaming", Clean', UNCHANGED <<strayed, crossed>>, NEW o \in Openers
        PROVE  ~Coming(o)
    BY <2>1, Shown DEF Clean, ComesBehind
  <2>2. ASSUME Folds PROVE ShownInv'
    <3>1. strayed' # {}
      BY <2>2 DEF Folds
    <3> QED BY <3>1, ShownNow DEF Clean
  <2>3. ASSUME Ends PROVE ShownInv'
    <3>1. /\ child \in Running /\ child' = "idle" /\ Emit("result", turn)
          /\ UNCHANGED <<op, stop, hushed, strayed, crossed, busy, awaiting, turnGen, pumpGen,
                         captured, live, replaying, ending, stdin>>
      BY <2>3 DEF Ends, row, pump, calls, history
    <3> QED BY <3>1, EndShown
  <2>4. ASSUME Dies PROVE ShownInv'
    <3>1. stdin' = <<>> /\ child' = "gone"
      BY <2>4 DEF Dies, Dead
    <3>2. OneWaits(stdin') /\ \A o \in Openers : ~Contains(stdin', o)
      BY <3>1 DEF OneWaits, Contains
    <3> QED BY <1>1, <2>4, <3>1, <3>2 DEF Dies, row, pump, calls, history
  <2>5. ASSUME OtherHookBlocks PROVE ShownInv'
    <3>1. Clean' => \A o \in Openers : ~Coming(o)
      <4>1. Clean' => stdin = <<>> /\ Opened = {}
        BY <2>5 DEF OtherHookBlocks, Clean
      <4>2. \A o : ~Contains(<<>>, o)
        BY DEF Contains
      <4> QED BY <4>1, <4>2 DEF Opened, Coming
    <3>2. crossed' = (crossed \/ stdin # <<>> \/ Opened # {})
      BY <2>5 DEF OtherHookBlocks
    <3> QED BY <1>1, <2>5, <3>1, <3>2 DEF OtherHookBlocks, row, pump, calls, Running
  <2>6. ASSUME CloseStarts \/ CloseConfirms PROVE ShownInv'
    BY <1>1, <2>6 DEF CloseStarts, CloseConfirms, process, pump, calls, history
  <2>7. ASSUME NEW s \in Status, Reports(s) PROVE ShownInv'
    BY <1>1, <2>7 DEF Reports, process, pump, calls, history
  <2>8. ASSUME NEW a \in Verdicts, StopReads(a) PROVE ShownInv'
    <3>1. /\ child = "streaming" /\ {child, child'} \subseteq Running
          /\ UNCHANGED <<turn, stdin, stdout, captured, pumpGen, turnGen, live, replaying, ending,
                         busy, awaiting, hushed, strayed, crossed, op>>
      BY <2>8 DEF StopReads, pump, history, Running
    <3>2. Clean' => \A o \in Openers : ~Coming(o)
      BY <2>1, <3>1
    <3> QED BY <1>1, <3>1, <3>2
  <2> QED BY <1>3, <2>2, <2>3, <2>4, <2>5, <2>6, <2>7, <2>8, BeginsShown, StreamsShown,
             TakesInterruptShown DEF Child
<1>4. CASE Daemon
  <2>1. ASSUME CancelFlags \/ CancelFails PROVE ShownInv'
    BY <1>1, <2>1 DEF CancelFlags, CancelFails, row, process, pump, calls, history
  <2>2. ASSUME CancelWrites PROVE ShownInv'
    <3>1. stdin' = Append(stdin, Interrupt)
      BY <2>2 DEF CancelWrites
    <3>2. stdin \in Seq(Inputs) /\ Interrupt \in Inputs
      BY DEF TypeOK, ChildOK, Inputs
    <3>3. /\ \A o \in Openers : Contains(stdin', o) => Contains(stdin, o)
          /\ OneWaits(stdin) => OneWaits(stdin')
      BY <3>1, <3>2, Sent, Names
    <3> QED BY <1>1, <2>2, <3>3 DEF CancelWrites, pump, history
  <2> QED BY <1>4, <2>1, <2>2, StopSettlesShown, PumpReadsShown, PumpSettlesShown,
             PumpExitsShown, SweepShown DEF Daemon
<1>5. CASE UNCHANGED vars
  BY <1>1, <1>5 DEF vars, row, process, pump, calls, history
<1> QED BY <1>2, <1>3, <1>4, <1>5 DEF Next

LEMMA ShownInit == Init => ShownInv
<1> SUFFICES ASSUME Init PROVE ShownInv
  OBVIOUS
<1>1. /\ child = "idle" /\ stdin = <<>> /\ stdout = <<>>
      /\ \A o \in Openers : op[o].pc = "idle"
  BY DEF Init
<1>2. OneSend
  BY <1>1 DEF OneSend, OneWaits, Opened, SendOpen
<1>3. \A o \in Openers : ~Coming(o) /\ ~RunsNow(o) /\ ~Mine(o)
  BY <1>1 DEF Coming, RunsNow, Mine, Contains, Running
<1>4. NoneOf(stdout, Old)
  BY <1>1 DEF NoneOf
<1> QED BY <1>2, <1>3, <1>4
     DEF ShownInv, HistoryIsReplayed, ComesBehind, RunsBehind, IsShown

\* Between the write that opens a turn and its own end nothing takes back what the row
\* shows of it: no end of an earlier turn, no Stop hook that was waiting, no replayed
\* line and no watchdog (pump.rs, hooks_stop.rs, registry_flags.rs).
THEOREM TurnShown == Spec => []OpenTurnIsShown
<1>1. Init => PipesInv /\ GensInv /\ ShownInv
  BY PipesInit, GensInit, ShownInit
<1>2. TypeOK /\ (PipesInv /\ GensInv /\ ShownInv) /\ [Next]_vars
        => (PipesInv /\ GensInv /\ ShownInv)'
  BY PipesStep, GensStep, ShownStep
<1>3. ShownInv => OpenTurnIsShown
  <2> SUFFICES ASSUME ShownInv, ~crossed, strayed = {}, NEW o \in Openers,
                      op[o].pc = "done", Works(o), o \notin hushed
               PROVE  busy /\ awaiting \in {"none", "close_failed"}
    BY DEF OpenTurnIsShown
  <2>1. Mine(o)
    BY DEF Mine, Works, RunsNow
  <2> QED BY <2>1, Shown DEF Clean, IsShown, Shows
<1> QED BY <1>1, <1>2, <1>3, TypeCorrect, PTL DEF Spec

===============================================================================
