------------------------- MODULE TurnLifecycle_proofs -------------------------
(***************************************************************************)
(* Proofs about TurnLifecycle, for any openers and bounds.                 *)
(***************************************************************************)
EXTENDS TurnLifecycle, TLAPS

USE TurnConstants DEF Openers, Turns, Awaiting, Running, Alive, Settled

-------------------------------------------------------------------------------
(* What the model's helpers return.                                         *)

Lines == [kind : {"init", "stream", "result"}, of : Turns]

LEMMA HeadAndTail ==
  ASSUME NEW S, NEW q \in Seq(S), q # <<>>
  PROVE  Head(q) \in S /\ Tail(q) \in Seq(S)
  OBVIOUS

LEMMA Appended ==
  ASSUME NEW S, NEW q \in Seq(S), NEW e \in S
  PROVE  Append(q, e) \in Seq(S)
  OBVIOUS

LEMMA Removed ==
  ASSUME NEW S, NEW q \in Seq(S), NEW k \in 1..Len(q)
  PROVE  RemoveAt(q, k) \in Seq(S)
<1>1. SubSeq(q, 1, k - 1) \in Seq(S) OBVIOUS
<1>2. SubSeq(q, k + 1, Len(q)) \in Seq(S) OBVIOUS
<1> QED BY <1>1, <1>2 DEF RemoveAt

LEMMA ReplayType ==
  ASSUME NEW n \in Nat
  PROVE  [k \in 1..n |-> [kind |-> "result", of |-> Old]] \in Seq(Lines)
  BY DEF Lines

LEMMA CorrectType ==
  ASSUME NEW a \in {"unknown", "idle", "working", "waiting"}, NEW s \in Settled
  PROVE  Correct(a, s) \in Settled
  BY DEF Correct

LEMMA StatusSettles == Status \cup {"none"} \subseteq Settled
  OBVIOUS

\* A respawn types the child, whoever asked for it.
LEMMA SpawnTypes ==
  ASSUME TypeOK, NEW g, Spawn(g)
  PROVE  /\ stdout' \in Seq(Lines) /\ epoch' \in 0..MaxSpawns
         /\ child' \in Alive \cup {"gone", "none"} /\ turn' \in Turns
<1>1. PICK n \in 0..MaxReplay :
        stdout' = [k \in 1..n |-> [kind |-> "result", of |-> Old]]
  BY DEF Spawn
<1>2. stdout' \in Seq(Lines)
  BY <1>1, ReplayType
<1>3. epoch' \in 0..MaxSpawns
  BY DEF Spawn, TypeOK, ChildOK
<1> QED BY <1>2, <1>3 DEF Spawn

\* A write types both pipes.
LEMMA WriteTypes ==
  ASSUME TypeOK, NEW o \in Openers, Write(o)
  PROVE  ChildOK'
<1>1. prompt' \in Turns
  BY DEF Write
<1>2. CASE Reaches(o) /\ stdin' = Append(stdin, o)
           /\ UNCHANGED <<child, turn, stdout, epoch, interruptSent, pump>>
  <2>1. stdin' \in Seq(Openers \cup {Interrupt})
    BY <1>2, Appended DEF TypeOK, ChildOK
  <2> QED BY <1>1, <1>2, <2>1 DEF TypeOK, ChildOK
<1>3. CASE Respawns(o) /\ Spawn(turnGen) /\ stdin' = <<o>>
  <2>1. stdin' \in Seq(Openers \cup {Interrupt})
    BY <1>3
  <2> QED BY <1>1, <1>3, <2>1, SpawnTypes DEF ChildOK, Lines
<1> QED BY <1>2, <1>3 DEF Write

Endings == [pc : {"read", "settle"}, live : BOOLEAN, of : Turns, status : Settled]

LEMMA NoEndingType == NoEnding \in Endings
  BY DEF NoEnding, Endings

LEMMA WriteEnds ==
  ASSUME TypeOK, NEW o \in Openers, Write(o)
  PROVE  ending' \in [pc : {"read", "settle"}, live : BOOLEAN, of : Turns, status : Settled]
<1>1. ending' = ending \/ ending' = NoEnding
  BY Zenon DEF Write, Spawn, pump
<1>2. ending \in Endings
  BY DEF TypeOK, CallsOK, Endings
<1> QED BY <1>1, <1>2, NoEndingType DEF Endings

\* The end of a chat types what it drops.
LEMMA FinalizesTypes ==
  ASSUME TypeOK, NEW c, Finalizes(c)
  PROVE  /\ activity' \in {"unknown", "idle", "working", "waiting"}
         /\ pendingGen' \in 0..turnGen
         /\ report' \in [gen : 0..turnGen, status : Status \cup {"none"}]
  BY DEF Finalizes, TypeOK, RowOK, NoReport

LEMMA KilledTypes ==
  ASSUME TypeOK, NEW c, Killed(c)
  PROVE  /\ child' \in Alive \cup {"gone", "none"}
         /\ stdin' \in Seq(Openers \cup {Interrupt})
<1>1. (child' = "gone" /\ stdin' = <<>>) \/ UNCHANGED <<child, stdin>>
  BY Zenon DEF Killed, Dead
<1>2. child' \in Alive \cup {"gone", "none"}
  BY <1>1 DEF TypeOK, ChildOK
<1>3. stdin' \in Seq(Openers \cup {Interrupt})
  <2>1. <<>> \in Seq(Openers \cup {Interrupt})
    OBVIOUS
  <2> QED BY <1>1, <2>1 DEF TypeOK, ChildOK
<1> QED BY <1>2, <1>3

-------------------------------------------------------------------------------
(* Each action keeps the types.                                             *)

LEMMA ResumeTypes ==
  ASSUME TypeOK, NEW d \in Desks, Resume(d)
  PROVE  TypeOK'
<1>1. FlagsOK'
  BY DEF TypeOK, FlagsOK, Resume, Spawn, calls, history, NoEnding
<1>2. RowOK'
  BY DEF TypeOK, RowOK, Resume, Spawn, calls, history, NoEnding
<1>3. ChildOK'
  BY DEF TypeOK, ChildOK, Resume, Spawn, calls, history, NoEnding
<1>4. CallsOK'
  BY DEF TypeOK, CallsOK, Resume, Spawn, calls, history, NoEnding
<1>5. CountsOK'
  BY DEF TypeOK, CountsOK, Resume, Spawn, calls, history, NoEnding
<1>q. QED BY <1>1, <1>2, <1>3, <1>4, <1>5 DEF TypeOK

LEMMA SendChecksTypes ==
  ASSUME TypeOK, NEW o \in Desks \cup Phones, SendChecks(o)
  PROVE  TypeOK'
<1>1. FlagsOK'
  BY DEF TypeOK, FlagsOK, SendChecks, row, process, pump, bounds, history
<1>2. RowOK'
  BY DEF TypeOK, RowOK, SendChecks, row, process, pump, bounds, history
<1>3. ChildOK'
  BY DEF TypeOK, ChildOK, SendChecks, row, process, pump, bounds, history
<1>4. CallsOK'
  BY DEF TypeOK, ChildOK, CallsOK, SendChecks, row, process, pump, bounds, history
<1>5. CountsOK'
  BY DEF TypeOK, CountsOK, SendChecks, row, process, pump, bounds, history
<1>q. QED BY <1>1, <1>2, <1>3, <1>4, <1>5 DEF TypeOK

LEMMA SendOpensTypes ==
  ASSUME TypeOK, NEW o \in Desks \cup Phones, SendOpens(o)
  PROVE  TypeOK'
<1>1. FlagsOK'
  BY DEF TypeOK, FlagsOK, SendOpens, OpenTurn, process, pump, bounds
<1>2. RowOK'
  BY DEF TypeOK, RowOK, SendOpens, OpenTurn, process, pump, bounds
<1>3. ChildOK'
  BY DEF TypeOK, ChildOK, SendOpens, OpenTurn, process, pump, bounds
<1>4. CallsOK'
  BY DEF TypeOK, CallsOK, SendOpens, OpenTurn, process, pump, bounds
<1>5. CountsOK'
  BY DEF TypeOK, CountsOK, SendOpens, OpenTurn, process, pump, bounds
<1>q. QED BY <1>1, <1>2, <1>3, <1>4, <1>5 DEF TypeOK

LEMMA SendWritesTypes ==
  ASSUME TypeOK, NEW o \in Desks \cup Phones, SendWrites(o)
  PROVE  TypeOK'
<1>1. FlagsOK'
  BY DEF TypeOK, FlagsOK, SendWrites, Write, Reaches, Respawns, Spawn, row, pump, history, NoEnding
<1>2. RowOK'
  BY DEF TypeOK, RowOK, SendWrites, Write, Reaches, Respawns, Spawn, row, pump, history, NoEnding
<1>3. ChildOK'
  BY WriteTypes DEF SendWrites
<1>4. CallsOK'
  <2>1. ending' \in [pc : {"read", "settle"}, live : BOOLEAN, of : Turns, status : Settled]
    BY WriteEnds DEF SendWrites
  <2> QED BY <2>1 DEF TypeOK, CallsOK, SendWrites
<1>5. CountsOK'
  BY DEF TypeOK, CountsOK, SendWrites, Write, Reaches, Respawns, Spawn, row, pump, history, NoEnding
<1>q. QED BY <1>1, <1>2, <1>3, <1>4, <1>5 DEF TypeOK

LEMMA SendFailsTypes ==
  ASSUME TypeOK, NEW o \in Desks \cup Phones, SendFails(o)
  PROVE  TypeOK'
<1>1. FlagsOK'
  BY DEF TypeOK, FlagsOK, SendFails, CannotWrite, process, pump, bounds
<1>2. RowOK'
  BY DEF TypeOK, RowOK, SendFails, CannotWrite, process, pump, bounds
<1>3. ChildOK'
  BY DEF TypeOK, ChildOK, SendFails, CannotWrite, process, pump, bounds
<1>4. CallsOK'
  BY DEF TypeOK, CallsOK, SendFails, CannotWrite, process, pump, bounds
<1>5. CountsOK'
  BY DEF TypeOK, CountsOK, SendFails, CannotWrite, process, pump, bounds
<1>q. QED BY <1>1, <1>2, <1>3, <1>4, <1>5 DEF TypeOK

LEMMA WakeChecksTypes ==
  ASSUME TypeOK, NEW w \in Wakers, WakeChecks(w)
  PROVE  TypeOK'
<1>1. FlagsOK'
  BY DEF TypeOK, FlagsOK, WakeChecks, row, process, pump, bounds, history
<1>2. RowOK'
  BY DEF TypeOK, RowOK, WakeChecks, row, process, pump, bounds, history
<1>3. ChildOK'
  BY DEF TypeOK, ChildOK, WakeChecks, row, process, pump, bounds, history
<1>4. CallsOK'
  BY DEF TypeOK, CallsOK, WakeChecks, row, process, pump, bounds, history
<1>5. CountsOK'
  BY DEF TypeOK, CountsOK, WakeChecks, row, process, pump, bounds, history
<1>q. QED BY <1>1, <1>2, <1>3, <1>4, <1>5 DEF TypeOK

LEMMA WakeWritesTypes ==
  ASSUME TypeOK, NEW w \in Wakers, WakeWrites(w)
  PROVE  TypeOK'
<1>1. FlagsOK'
  BY DEF TypeOK, FlagsOK, WakeWrites, Write, Reaches, Respawns, Spawn, row, pump, NoEnding
<1>2. RowOK'
  BY DEF TypeOK, RowOK, WakeWrites, Write, Reaches, Respawns, Spawn, row, pump, NoEnding
<1>3. ChildOK'
  BY WriteTypes DEF WakeWrites
<1>4. CallsOK'
  <2>1. ending' \in [pc : {"read", "settle"}, live : BOOLEAN, of : Turns, status : Settled]
    BY WriteEnds DEF WakeWrites
  <2> QED BY <2>1 DEF TypeOK, CallsOK, WakeWrites
<1>5. CountsOK'
  BY DEF TypeOK, CountsOK, WakeWrites, Write, Reaches, Respawns, Spawn, row, pump, NoEnding
<1>q. QED BY <1>1, <1>2, <1>3, <1>4, <1>5 DEF TypeOK

LEMMA WakeFailsTypes ==
  ASSUME TypeOK, NEW w \in Wakers, WakeFails(w)
  PROVE  TypeOK'
<1>1. FlagsOK'
  BY DEF TypeOK, FlagsOK, WakeFails, row, process, pump, bounds, history
<1>2. RowOK'
  BY DEF TypeOK, RowOK, WakeFails, row, process, pump, bounds, history
<1>3. ChildOK'
  BY DEF TypeOK, ChildOK, WakeFails, row, process, pump, bounds, history
<1>4. CallsOK'
  BY DEF TypeOK, CallsOK, WakeFails, row, process, pump, bounds, history
<1>5. CountsOK'
  BY DEF TypeOK, CountsOK, WakeFails, row, process, pump, bounds, history
<1>q. QED BY <1>1, <1>2, <1>3, <1>4, <1>5 DEF TypeOK

LEMMA WakeOpensTypes ==
  ASSUME TypeOK, NEW w \in Wakers, WakeOpens(w)
  PROVE  TypeOK'
<1>1. FlagsOK'
  BY DEF TypeOK, FlagsOK, WakeOpens, OpenTurn, process, pump, bounds
<1>2. RowOK'
  BY DEF TypeOK, RowOK, WakeOpens, OpenTurn, process, pump, bounds
<1>3. ChildOK'
  BY DEF TypeOK, ChildOK, WakeOpens, OpenTurn, process, pump, bounds
<1>4. CallsOK'
  BY DEF TypeOK, CallsOK, WakeOpens, OpenTurn, process, pump, bounds
<1>5. CountsOK'
  BY DEF TypeOK, CountsOK, WakeOpens, OpenTurn, process, pump, bounds
<1>q. QED BY <1>1, <1>2, <1>3, <1>4, <1>5 DEF TypeOK

LEMMA ReportsTypes ==
  ASSUME TypeOK, NEW s \in Status, Reports(s)
  PROVE  TypeOK'
<1>1. FlagsOK'
  BY DEF TypeOK, FlagsOK, Reports, process, pump, calls, bounds, history
<1>2. RowOK'
  BY DEF TypeOK, RowOK, Reports, process, pump, calls, bounds, history
<1>3. ChildOK'
  BY DEF TypeOK, ChildOK, Reports, process, pump, calls, bounds, history
<1>4. CallsOK'
  BY DEF TypeOK, CallsOK, Reports, process, pump, calls, bounds, history
<1>5. CountsOK'
  BY DEF TypeOK, CountsOK, Reports, process, pump, calls, bounds, history
<1>q. QED BY <1>1, <1>2, <1>3, <1>4, <1>5 DEF TypeOK

LEMMA StopReadsTypes ==
  ASSUME TypeOK, NEW a \in Verdicts, StopReads(a)
  PROVE  TypeOK'
<1>1. FlagsOK'
  <2>1. UNCHANGED <<busy, closing, closeReq, ended, interruptSent, history>>
    BY Zenon DEF StopReads
  <2>2. UNCHANGED pump
    BY Zenon DEF StopReads
  <2> QED BY <2>1, <2>2 DEF TypeOK, FlagsOK, history, pump
<1>2. RowOK'
  <2>1. activity' = a /\ UNCHANGED <<awaiting, turnGen, pendingGen, report, pump>>
    BY Zenon DEF StopReads
  <2> QED BY <2>1 DEF TypeOK, RowOK, pump
<1>3. ChildOK'
  BY DEF TypeOK, ChildOK, StopReads, Correct, bounds, history, NoStop
<1>4. CallsOK'
  <2> DEFINE reported == report.gen = turnGen /\ report.status # "none"
  <2>1. report.status \in Settled /\ turnGen + 1 \in Nat
    <3>1. report.status \in Status \cup {"none"} /\ turnGen + 1 \in Nat
      BY DEF TypeOK, RowOK
    <3> HIDE DEF Settled
    <3> QED BY <3>1, StatusSettles
  <2>5. reported \in BOOLEAN
    BY Zenon
  <2>2. (IF reported THEN Correct(a, report.status) ELSE "none") \in Settled
    <3>1. Correct(a, report.status) \in Settled
      BY <2>1, CorrectType
    <3> QED BY <3>1
  <2>3. stop' = stop \/ stop' = [gen |-> turnGen + 1, reported |-> reported,
                     status |-> IF reported THEN Correct(a, report.status) ELSE "none"]
    BY DEF StopReads
  <2>4. stop' \in [gen : Nat, reported : BOOLEAN, status : Settled]
    <3> HIDE DEF reported
    <3> QED BY <2>1, <2>2, <2>3, <2>5 DEF TypeOK, CallsOK
  <2>6. UNCHANGED <<op, cancel, pump>>
    BY Zenon DEF StopReads
  <2> QED BY <2>4, <2>6 DEF TypeOK, CallsOK, pump
<1>5. CountsOK'
  BY DEF TypeOK, CountsOK, StopReads, Correct, bounds, history, NoStop
<1>q. QED BY <1>1, <1>2, <1>3, <1>4, <1>5 DEF TypeOK

LEMMA BeginsTypes ==
  ASSUME TypeOK, Begins
  PROVE  TypeOK'
<1>1. FlagsOK'
  BY DEF TypeOK, FlagsOK, Begins, Emit, row, pump, calls
<1>2. RowOK'
  BY DEF TypeOK, RowOK, Begins, Emit, row, pump, calls
<1>3. ChildOK'
  <2>1. CASE stdin # <<>> /\ turn' = Head(stdin) /\ stdin' = Tail(stdin)
             /\ Head(stdin) # Interrupt /\ Emit("init", Head(stdin))
    <3>1. Head(stdin) \in Openers /\ stdin' \in Seq(Openers \cup {Interrupt})
      BY <2>1, HeadAndTail DEF TypeOK, ChildOK
    <3>2. stdout' \in Seq(Lines)
      BY <2>1, <3>1, Appended DEF TypeOK, ChildOK, Emit, Lines
    <3> QED BY <2>1, <3>1, <3>2 DEF TypeOK, ChildOK, Begins, Lines
  <2>2. CASE turn' = Self /\ Emit("init", Self) /\ UNCHANGED stdin
    <3>1. stdout' \in Seq(Lines)
      BY <2>2, Appended DEF TypeOK, ChildOK, Emit, Lines
    <3> QED BY <2>2, <3>1 DEF TypeOK, ChildOK, Begins, Lines
  <2> QED BY <2>1, <2>2 DEF Begins
<1>4. CallsOK'
  BY DEF TypeOK, CallsOK, Begins, Emit, row, pump, calls
<1>5. CountsOK'
  BY DEF TypeOK, CountsOK, Begins, Emit, row, pump, calls
<1>q. QED BY <1>1, <1>2, <1>3, <1>4, <1>5 DEF TypeOK

LEMMA StreamsTypes ==
  ASSUME TypeOK, Streams
  PROVE  TypeOK'
<1>1. FlagsOK'
  BY DEF TypeOK, FlagsOK, Streams, Emit, row, pump, calls, bounds, history
<1>2. RowOK'
  BY DEF TypeOK, RowOK, Streams, Emit, row, pump, calls, bounds, history
<1>3. ChildOK'
  BY DEF TypeOK, ChildOK, Streams, Emit, row, pump, calls, bounds, history
<1>4. CallsOK'
  BY DEF TypeOK, CallsOK, Streams, Emit, row, pump, calls, bounds, history
<1>5. CountsOK'
  BY DEF TypeOK, CountsOK, Streams, Emit, row, pump, calls, bounds, history
<1>q. QED BY <1>1, <1>2, <1>3, <1>4, <1>5 DEF TypeOK

LEMMA FoldsTypes ==
  ASSUME TypeOK, Folds
  PROVE  TypeOK'
<1>1. FlagsOK'
  BY DEF TypeOK, FlagsOK, Folds, row, pump, calls, bounds
<1>2. RowOK'
  BY DEF TypeOK, RowOK, Folds, row, pump, calls, bounds
<1>3. ChildOK'
  BY DEF TypeOK, ChildOK, Folds, row, pump, calls, bounds
<1>4. CallsOK'
  BY DEF TypeOK, CallsOK, Folds, row, pump, calls, bounds
<1>5. CountsOK'
  BY DEF TypeOK, CountsOK, Folds, row, pump, calls, bounds
<1>q. QED BY <1>1, <1>2, <1>3, <1>4, <1>5 DEF TypeOK

LEMMA EndsTypes ==
  ASSUME TypeOK, Ends
  PROVE  TypeOK'
<1>1. FlagsOK'
  BY DEF TypeOK, FlagsOK, Ends, Emit, row, pump, calls, bounds, history
<1>2. RowOK'
  BY DEF TypeOK, RowOK, Ends, Emit, row, pump, calls, bounds, history
<1>3. ChildOK'
  BY DEF TypeOK, ChildOK, Ends, Emit, row, pump, calls, bounds, history
<1>4. CallsOK'
  BY DEF TypeOK, CallsOK, Ends, Emit, row, pump, calls, bounds, history
<1>5. CountsOK'
  BY DEF TypeOK, CountsOK, Ends, Emit, row, pump, calls, bounds, history
<1>q. QED BY <1>1, <1>2, <1>3, <1>4, <1>5 DEF TypeOK

LEMMA TakesInterruptTypes ==
  ASSUME TypeOK, TakesInterrupt
  PROVE  TypeOK'
<1>1. FlagsOK'
  BY DEF TypeOK, FlagsOK, TakesInterrupt, Emit, RemoveAt, row, pump, calls, bounds, history
<1>2. RowOK'
  BY DEF TypeOK, RowOK, TakesInterrupt, Emit, RemoveAt, row, pump, calls, bounds, history
<1>3. ChildOK'
  <2>1. stdin' \in Seq(Openers \cup {Interrupt})
    BY Removed DEF TypeOK, ChildOK, TakesInterrupt
  <2>2. stdout' = stdout \/ stdout' = Append(stdout, [kind |-> "result", of |-> turn])
    BY Zenon DEF TakesInterrupt, Emit
  <2>3. stdout' \in Seq(Lines)
    <3>1. stdout \in Seq(Lines) /\ [kind |-> "result", of |-> turn] \in Lines
      BY DEF TypeOK, ChildOK, Lines
    <3> QED BY <2>2, <3>1, Appended
  <2> QED BY <2>1, <2>3 DEF TypeOK, ChildOK, TakesInterrupt, Lines
<1>4. CallsOK'
  BY DEF TypeOK, CallsOK, TakesInterrupt, Emit, RemoveAt, row, pump, calls, bounds, history
<1>5. CountsOK'
  BY DEF TypeOK, CountsOK, TakesInterrupt, Emit, RemoveAt, row, pump, calls, bounds, history
<1>q. QED BY <1>1, <1>2, <1>3, <1>4, <1>5 DEF TypeOK

LEMMA OtherHookBlocksTypes ==
  ASSUME TypeOK, OtherHookBlocks
  PROVE  TypeOK'
<1>1. FlagsOK'
  BY DEF TypeOK, FlagsOK, OtherHookBlocks, row, pump, calls, bounds
<1>2. RowOK'
  BY DEF TypeOK, RowOK, OtherHookBlocks, row, pump, calls, bounds
<1>3. ChildOK'
  BY DEF TypeOK, ChildOK, OtherHookBlocks, row, pump, calls, bounds
<1>4. CallsOK'
  BY DEF TypeOK, CallsOK, OtherHookBlocks, row, pump, calls, bounds
<1>5. CountsOK'
  BY DEF TypeOK, CountsOK, OtherHookBlocks, row, pump, calls, bounds
<1>q. QED BY <1>1, <1>2, <1>3, <1>4, <1>5 DEF TypeOK

LEMMA DiesTypes ==
  ASSUME TypeOK, Dies
  PROVE  TypeOK'
<1>1. FlagsOK'
  BY DEF TypeOK, FlagsOK, Dies, Dead, row, pump, calls, bounds, history
<1>2. RowOK'
  BY DEF TypeOK, RowOK, Dies, Dead, row, pump, calls, bounds, history
<1>3. ChildOK'
  BY DEF TypeOK, ChildOK, Dies, Dead, row, pump, calls, bounds, history
<1>4. CallsOK'
  BY DEF TypeOK, CallsOK, Dies, Dead, row, pump, calls, bounds, history
<1>5. CountsOK'
  BY DEF TypeOK, CountsOK, Dies, Dead, row, pump, calls, bounds, history
<1>q. QED BY <1>1, <1>2, <1>3, <1>4, <1>5 DEF TypeOK

LEMMA CloseStartsTypes ==
  ASSUME TypeOK, CloseStarts
  PROVE  TypeOK'
<1>1. FlagsOK'
  BY DEF TypeOK, FlagsOK, CloseStarts, process, pump, calls, bounds, history
<1>2. RowOK'
  BY DEF TypeOK, RowOK, CloseStarts, process, pump, calls, bounds, history
<1>3. ChildOK'
  BY DEF TypeOK, ChildOK, CloseStarts, process, pump, calls, bounds, history
<1>4. CallsOK'
  BY DEF TypeOK, CallsOK, CloseStarts, process, pump, calls, bounds, history
<1>5. CountsOK'
  BY DEF TypeOK, CountsOK, CloseStarts, process, pump, calls, bounds, history
<1>q. QED BY <1>1, <1>2, <1>3, <1>4, <1>5 DEF TypeOK

LEMMA CloseConfirmsTypes ==
  ASSUME TypeOK, CloseConfirms
  PROVE  TypeOK'
<1>1. FlagsOK'
  BY DEF TypeOK, FlagsOK, CloseConfirms, process, pump, calls, bounds, history
<1>2. RowOK'
  BY DEF TypeOK, RowOK, CloseConfirms, process, pump, calls, bounds, history
<1>3. ChildOK'
  BY DEF TypeOK, ChildOK, CloseConfirms, process, pump, calls, bounds, history
<1>4. CallsOK'
  BY DEF TypeOK, CallsOK, CloseConfirms, process, pump, calls, bounds, history
<1>5. CountsOK'
  BY DEF TypeOK, CountsOK, CloseConfirms, process, pump, calls, bounds, history
<1>q. QED BY <1>1, <1>2, <1>3, <1>4, <1>5 DEF TypeOK

LEMMA StopSettlesTypes ==
  ASSUME TypeOK, StopSettles
  PROVE  TypeOK'
<1>1. FlagsOK'
  BY DEF TypeOK, FlagsOK, StopSettles, Finalizes, Killed, Dead, SameGen, NoStop, NoReport, pump, bounds
<1>2. RowOK'
  <2>1. awaiting' \in Awaiting
    BY DEF TypeOK, RowOK, CallsOK, StopSettles
  <2>2. PICK c : Finalizes(c)
    BY DEF StopSettles
  <2> QED BY <2>1, <2>2, FinalizesTypes DEF TypeOK, RowOK, StopSettles, pump
<1>3. ChildOK'
  <2>1. PICK c : Killed(c)
    BY DEF StopSettles
  <2> QED BY <2>1, KilledTypes DEF TypeOK, ChildOK, StopSettles
<1>4. CallsOK'
  BY DEF TypeOK, CallsOK, StopSettles, Finalizes, Killed, Dead, SameGen, NoStop, NoReport, pump, bounds
<1>5. CountsOK'
  <2>1. turn \in Turns
    BY DEF TypeOK, ChildOK
  <2> QED BY <2>1 DEF TypeOK, CountsOK, StopSettles, bounds
<1>q. QED BY <1>1, <1>2, <1>3, <1>4, <1>5 DEF TypeOK

LEMMA PumpReadsTypes ==
  ASSUME TypeOK, PumpReads
  PROVE  TypeOK'
<1>1. FlagsOK'
  BY DEF TypeOK, FlagsOK, PumpReads, Captures, EndsTurn, Correct, NoReport, calls, bounds
<1>2. RowOK'
  BY DEF TypeOK, RowOK, PumpReads, Captures, EndsTurn, Correct, NoReport, calls, bounds
<1>3. ChildOK'
  BY DEF TypeOK, ChildOK, PumpReads, Captures, EndsTurn, Correct, NoReport, calls, bounds
<1>4. CallsOK'
  <2> DEFINE line == Head(stdout)
             gen == IF Captures THEN pendingGen ELSE pumpGen
             ends == EndsTurn(interruptSent)
             said == IF ends /\ report.gen = gen THEN report.status ELSE "none"
             end == [pc |-> "settle", live |-> ends, of |-> line.of,
                     status |-> Correct(activity, said)]
  <2>1. ending' = ending \/ ending' = end
    BY DEF PumpReads
  <2>2. line.of \in Turns
    <3>1. stdout \in Seq(Lines) /\ stdout # <<>>
      BY DEF TypeOK, ChildOK, PumpReads, Lines
    <3>2. line \in Lines
      BY <3>1, HeadAndTail
    <3> QED BY <3>2 DEF Lines
  <2>3. said \in Settled
    BY StatusSettles DEF TypeOK, RowOK
  <2>4. Correct(activity, said) \in Settled
    BY <2>3, CorrectType DEF TypeOK, RowOK
  <2>5. ends \in BOOLEAN
    BY DEF EndsTurn
  <2>6. ending' \in [pc : {"read", "settle"}, live : BOOLEAN, of : Turns, status : Settled]
    <3> HIDE DEF line, ends, said
    <3> QED BY <2>1, <2>2, <2>4, <2>5 DEF TypeOK, CallsOK
  <2> QED BY <2>6 DEF TypeOK, CallsOK, PumpReads, calls
<1>5. CountsOK'
  BY DEF TypeOK, CountsOK, PumpReads, Captures, EndsTurn, Correct, NoReport, calls, bounds
<1>q. QED BY <1>1, <1>2, <1>3, <1>4, <1>5 DEF TypeOK

LEMMA PumpSettlesTypes ==
  ASSUME TypeOK, PumpSettles
  PROVE  TypeOK'
<1>1. FlagsOK'
  BY DEF TypeOK, FlagsOK, PumpSettles, Finalizes, Killed, Dead, StandsDown, SameGen, NoEnding, NoReport, calls, bounds, history
<1>2. RowOK'
  <2>1. awaiting' \in Awaiting
    BY DEF TypeOK, RowOK, CallsOK, PumpSettles
  <2> QED BY <2>1, FinalizesTypes DEF TypeOK, RowOK, PumpSettles
<1>3. ChildOK'
  BY KilledTypes DEF TypeOK, ChildOK, PumpSettles
<1>4. CallsOK'
  BY DEF TypeOK, CallsOK, PumpSettles, Finalizes, Killed, Dead, StandsDown, SameGen, NoEnding, NoReport, calls, bounds, history
<1>5. CountsOK'
  BY DEF TypeOK, CountsOK, PumpSettles, Finalizes, Killed, Dead, StandsDown, SameGen, NoEnding, NoReport, calls, bounds, history
<1>q. QED BY <1>1, <1>2, <1>3, <1>4, <1>5 DEF TypeOK

LEMMA PumpExitsTypes ==
  ASSUME TypeOK, PumpExits
  PROVE  TypeOK'
<1>1. FlagsOK'
  BY DEF TypeOK, FlagsOK, PumpExits, Finalizes, StandsDown, SameGen, NoReport, calls, bounds
<1>2. RowOK'
  BY DEF TypeOK, RowOK, PumpExits, Finalizes, StandsDown, SameGen, NoReport, calls, bounds
<1>3. ChildOK'
  BY DEF TypeOK, ChildOK, PumpExits, Finalizes, StandsDown, SameGen, NoReport, calls, bounds
<1>4. CallsOK'
  BY DEF TypeOK, CallsOK, PumpExits, Finalizes, StandsDown, SameGen, NoReport, calls, bounds
<1>5. CountsOK'
  BY DEF TypeOK, CountsOK, PumpExits, Finalizes, StandsDown, SameGen, NoReport, calls, bounds
<1>q. QED BY <1>1, <1>2, <1>3, <1>4, <1>5 DEF TypeOK

LEMMA CancelFlagsTypes ==
  ASSUME TypeOK, CancelFlags
  PROVE  TypeOK'
<1>1. FlagsOK'
  BY DEF TypeOK, FlagsOK, CancelFlags, row, pump, history
<1>2. RowOK'
  BY DEF TypeOK, RowOK, CancelFlags, row, pump, history
<1>3. ChildOK'
  BY DEF TypeOK, ChildOK, CancelFlags, row, pump, history
<1>4. CallsOK'
  BY DEF TypeOK, ChildOK, CallsOK, CancelFlags, row, pump, history
<1>5. CountsOK'
  BY DEF TypeOK, CountsOK, CancelFlags, row, pump, history
<1>q. QED BY <1>1, <1>2, <1>3, <1>4, <1>5 DEF TypeOK

LEMMA CancelWritesTypes ==
  ASSUME TypeOK, CancelWrites
  PROVE  TypeOK'
<1>1. FlagsOK'
  BY DEF TypeOK, FlagsOK, CancelWrites, pump, bounds, history
<1>2. RowOK'
  BY DEF TypeOK, RowOK, CancelWrites, pump, bounds, history
<1>3. ChildOK'
  BY DEF TypeOK, ChildOK, CancelWrites, pump, bounds, history
<1>4. CallsOK'
  BY DEF TypeOK, CallsOK, CancelWrites, pump, bounds, history
<1>5. CountsOK'
  BY DEF TypeOK, CountsOK, CancelWrites, pump, bounds, history
<1>q. QED BY <1>1, <1>2, <1>3, <1>4, <1>5 DEF TypeOK

LEMMA CancelFailsTypes ==
  ASSUME TypeOK, CancelFails
  PROVE  TypeOK'
<1>1. FlagsOK'
  BY DEF TypeOK, FlagsOK, CancelFails, row, pump, bounds, history
<1>2. RowOK'
  BY DEF TypeOK, RowOK, CancelFails, row, pump, bounds, history
<1>3. ChildOK'
  BY DEF TypeOK, ChildOK, CancelFails, row, pump, bounds, history
<1>4. CallsOK'
  BY DEF TypeOK, CallsOK, CancelFails, row, pump, bounds, history
<1>5. CountsOK'
  BY DEF TypeOK, CountsOK, CancelFails, row, pump, bounds, history
<1>q. QED BY <1>1, <1>2, <1>3, <1>4, <1>5 DEF TypeOK

LEMMA SweepTypes ==
  ASSUME TypeOK, Sweep
  PROVE  TypeOK'
<1>1. FlagsOK'
  BY DEF TypeOK, FlagsOK, Sweep, process, pump, calls, bounds, Silent, SweepsBusy
<1>2. RowOK'
  BY DEF TypeOK, RowOK, Sweep, process, pump, calls, bounds, Silent, SweepsBusy
<1>3. ChildOK'
  BY DEF TypeOK, ChildOK, Sweep, process, pump, calls, bounds, Silent, SweepsBusy
<1>4. CallsOK'
  BY DEF TypeOK, CallsOK, Sweep, process, pump, calls, bounds, Silent, SweepsBusy
<1>5. CountsOK'
  BY DEF TypeOK, CountsOK, Sweep, process, pump, calls, bounds, Silent, SweepsBusy
<1>q. QED BY <1>1, <1>2, <1>3, <1>4, <1>5 DEF TypeOK

-------------------------------------------------------------------------------
LEMMA InitTypes == Init => TypeOK
<1> SUFFICES ASSUME Init PROVE TypeOK
  OBVIOUS
<1>1. FlagsOK
  BY DEF Init, FlagsOK
<1>2. RowOK
  BY DEF Init, RowOK, NoReport
<1>3. ChildOK
  <2>1. stdin \in Seq(Openers \cup {Interrupt}) /\ stdout \in Seq(Lines)
    BY DEF Init
  <2> QED BY <2>1 DEF Init, ChildOK, Lines
<1>4. CallsOK
  <2>1. ending \in Endings
    BY NoEndingType DEF Init
  <2>2. op \in [Openers -> [pc : {"idle", "checked", "opened", "draining", "written", "done"},
                           epoch : Nat]]
    BY DEF Init
  <2> QED BY <2>1, <2>2 DEF Init, CallsOK, NoStop, Endings
<1>5. CountsOK
  BY DEF Init, CountsOK
<1> QED BY <1>1, <1>2, <1>3, <1>4, <1>5 DEF TypeOK

LEMMA StutterTypes == TypeOK /\ UNCHANGED vars => TypeOK'
<1> SUFFICES ASSUME TypeOK, UNCHANGED vars PROVE TypeOK'
  OBVIOUS
<1>1. FlagsOK'
  BY DEF TypeOK, FlagsOK, vars, row, process, pump, history
<1>2. RowOK'
  BY DEF TypeOK, RowOK, vars, row, pump
<1>3. ChildOK'
  BY DEF TypeOK, ChildOK, vars, process
<1>4. CallsOK'
  BY DEF TypeOK, CallsOK, vars, pump, calls
<1>5. CountsOK'
  BY DEF TypeOK, CountsOK, vars, bounds, history
<1> QED BY <1>1, <1>2, <1>3, <1>4, <1>5 DEF TypeOK

LEMMA TypeStep == TypeOK /\ [Next]_vars => TypeOK'
<1> SUFFICES ASSUME TypeOK, [Next]_vars PROVE TypeOK'
  OBVIOUS
<1>1. CASE Opening
  <2>1. \A d \in Desks : Resume(d) => TypeOK'
    BY ResumeTypes
  <2>2. \A o \in Desks \cup Phones :
          SendChecks(o) \/ SendOpens(o) \/ SendWrites(o) \/ SendFails(o) => TypeOK'
    BY SendChecksTypes, SendOpensTypes, SendWritesTypes, SendFailsTypes
  <2>3. \A w \in Wakers :
          WakeChecks(w) \/ WakeWrites(w) \/ WakeFails(w) \/ WakeOpens(w) => TypeOK'
    BY WakeChecksTypes, WakeWritesTypes, WakeFailsTypes, WakeOpensTypes
  <2> QED BY <1>1, <2>1, <2>2, <2>3 DEF Opening
<1>2. CASE Child
  <2>1. \A s \in Status : Reports(s) => TypeOK'
    BY ReportsTypes
  <2>2. \A a \in Verdicts : StopReads(a) => TypeOK'
    BY StopReadsTypes
  <2> QED BY <1>2, <2>1, <2>2, BeginsTypes, StreamsTypes, FoldsTypes, EndsTypes,
             TakesInterruptTypes, OtherHookBlocksTypes, DiesTypes, CloseStartsTypes,
             CloseConfirmsTypes DEF Child
<1>3. CASE Daemon
  BY <1>3, StopSettlesTypes, PumpReadsTypes, PumpSettlesTypes, PumpExitsTypes,
     CancelFlagsTypes, CancelWritesTypes, CancelFailsTypes, SweepTypes DEF Daemon
<1>4. CASE UNCHANGED vars
  BY <1>4, StutterTypes
<1> QED BY <1>1, <1>2, <1>3, <1>4 DEF Next

\* Every variable keeps its type, whatever the openers, the child and the bounds:
\* registry_flags.rs hands out generations, none is ahead of the row's.
THEOREM TypeCorrect == Spec => []TypeOK
  BY InitTypes, TypeStep, PTL DEF Spec

-------------------------------------------------------------------------------
(* Closing.  "Quiet implies not Closing" is not inductive: a close that is  *)
(* in flight must have an end ahead of it.  It has one while the child      *)
(* still runs a turn or has died and is not reaped, while a result line is  *)
(* unread or being handled; and because the pump raises Closing at a stream *)
(* line, that line must have such an end behind it too.                     *)

Ending == Running \cup {"gone"}

HasResult(q) == \E k \in 1..Len(q) : q[k].kind = "result"

\* every stream line has a result line behind it
Answered(q) ==
  \A k \in 1..Len(q) : q[k].kind = "stream" =>
    \E j \in 1..Len(q) : k < j /\ q[j].kind = "result"

\* a child out of the map has nothing left to read
ReapedIsRead == child = "none" => stdout = <<>> /\ ending.pc = "read"

StreamsEnd == child \in Ending \/ Answered(stdout)

ClosesEnd ==
  closing \/ closeReq => child \in Ending \/ ending.pc = "settle" \/ HasResult(stdout)

CloseInv == ReapedIsRead /\ StreamsEnd /\ ClosesEnd

LEMMA ResultAnswers ==
  ASSUME NEW q \in Seq(Lines), NEW t \in Turns
  PROVE  LET r == Append(q, [kind |-> "result", of |-> t])
         IN HasResult(r) /\ Answered(r)
<1> DEFINE r == Append(q, [kind |-> "result", of |-> t])
<1>1. Len(r) = Len(q) + 1 /\ r[Len(q) + 1].kind = "result"
  OBVIOUS
<1>2. HasResult(r)
  BY <1>1 DEF HasResult
<1>3. \A k \in 1..Len(r) : r[k].kind = "stream" => k < Len(q) + 1
  BY <1>1
<1>4. Answered(r)
  <2> HIDE DEF r
  <2> QED BY <1>1, <1>3 DEF Answered
<1> QED BY <1>2, <1>4

LEMMA TailKeeps ==
  ASSUME NEW q \in Seq(Lines), q # <<>>
  PROVE  /\ Head(q).kind # "result" /\ HasResult(q) => HasResult(Tail(q))
         /\ Answered(q) => Answered(Tail(q))
         /\ Answered(q) /\ Head(q).kind = "stream" => HasResult(Tail(q))
<1>1. Len(Tail(q)) = Len(q) - 1 /\ Len(q) \in Nat /\ Head(q) = q[1]
  OBVIOUS
<1>2. \A k \in 1..Len(q) - 1 : Tail(q)[k] = q[k + 1]
  OBVIOUS
<1>3. \A k \in 2..Len(q) : k - 1 \in 1..Len(q) - 1 /\ Tail(q)[k - 1] = q[k]
  BY <1>1, <1>2
<1>4. ASSUME Head(q).kind # "result", HasResult(q) PROVE HasResult(Tail(q))
  <2>1. PICK k \in 1..Len(q) : q[k].kind = "result"
    BY <1>4 DEF HasResult
  <2>2. k \in 2..Len(q)
    BY <1>1, <1>4, <2>1
  <2> QED BY <1>1, <1>3, <2>1, <2>2 DEF HasResult
<1>5. ASSUME Answered(q) PROVE Answered(Tail(q))
  <2> SUFFICES ASSUME NEW k \in 1..Len(Tail(q)), Tail(q)[k].kind = "stream"
               PROVE  \E j \in 1..Len(Tail(q)) : k < j /\ Tail(q)[j].kind = "result"
    BY DEF Answered
  <2>1. k + 1 \in 1..Len(q) /\ q[k + 1].kind = "stream"
    BY <1>1, <1>2
  <2>2. PICK j \in 1..Len(q) : k + 1 < j /\ q[j].kind = "result"
    BY <1>5, <2>1 DEF Answered
  <2>3. j \in 2..Len(q) /\ k < j - 1
    BY <2>2
  <2>4. j - 1 \in 1..Len(Tail(q)) /\ Tail(q)[j - 1].kind = "result"
    BY <1>1, <1>3, <2>2, <2>3
  <2> QED BY <2>3, <2>4
<1>6. ASSUME Answered(q), Head(q).kind = "stream" PROVE HasResult(Tail(q))
  <2>1. 1 \in 1..Len(q) /\ q[1].kind = "stream"
    BY <1>1, <1>6
  <2>2. PICK j \in 1..Len(q) : 1 < j /\ q[j].kind = "result"
    BY <1>6, <2>1 DEF Answered
  <2>3. j \in 2..Len(q)
    BY <2>2
  <2> QED BY <1>1, <1>3, <2>2, <2>3 DEF HasResult
<1> QED BY <1>4, <1>5, <1>6

\* A running or dying child is an end of its own.
LEMMA RunningCloses ==
  ASSUME child' \in Ending
  PROVE  CloseInv'
  BY DEF CloseInv, ReapedIsRead, StreamsEnd, ClosesEnd, Ending

\* Steps that leave the pump and stdout alone and start no close.
LEMMA FrameCloses ==
  ASSUME CloseInv, UNCHANGED <<stdout, ending>>,
         closing' => closing, closeReq' => closeReq,
         child' = child \/ child' \in Ending
  PROVE  CloseInv'
<1>1. CASE child' \in Ending
  BY <1>1, RunningCloses
<1>2. CASE child' = child
  <2>1. ReapedIsRead'
    BY <1>2 DEF CloseInv, ReapedIsRead
  <2>2. StreamsEnd'
    BY <1>2 DEF CloseInv, StreamsEnd, Answered
  <2>3. HasResult(stdout)' <=> HasResult(stdout)
    BY DEF HasResult
  <2>4. ClosesEnd'
    BY <1>2, <2>3, Zenon DEF CloseInv, ClosesEnd
  <2> QED BY <2>1, <2>2, <2>4 DEF CloseInv
<1> QED BY <1>1, <1>2

LEMMA ReplayAnswered ==
  ASSUME NEW g, Spawn(g)
  PROVE  Answered(stdout') /\ child' = "idle" /\ ending'.pc = "read"
<1>1. PICK n \in 0..MaxReplay :
        stdout' = [k \in 1..n |-> [kind |-> "result", of |-> Old]]
  BY DEF Spawn
<1>2. \A k \in 1..Len(stdout') : stdout'[k].kind = "result"
  BY <1>1
<1>3. Answered(stdout')
  BY <1>2 DEF Answered
<1> QED BY <1>3 DEF Spawn, NoEnding

LEMMA SpawnCloses ==
  ASSUME TypeOK, CloseInv, NEW g, Spawn(g), UNCHANGED <<closing, closeReq>>
  PROVE  CloseInv'
<1>1. child = "none" /\ ~closing /\ ~closeReq
  <2>1. child = "none"
    BY DEF Spawn
  <2>2. ~HasResult(stdout) /\ ending.pc = "read"
    BY <2>1 DEF CloseInv, ReapedIsRead, HasResult
  <2> QED BY <2>1, <2>2 DEF CloseInv, ClosesEnd, Ending
<1> QED BY <1>1, ReplayAnswered DEF CloseInv, ReapedIsRead, StreamsEnd, ClosesEnd, Answered

\* An end of the running turn that the pump has still to read.
LEMMA ResultCloses ==
  ASSUME TypeOK, CloseInv, child' = "idle", Emit("result", turn),
         UNCHANGED <<ending, closing, closeReq>>
  PROVE  CloseInv'
<1>1. stdout \in Seq(Lines) /\ turn \in Turns
  BY DEF TypeOK, ChildOK, Lines
<1>2. HasResult(stdout') /\ Answered(stdout')
  BY <1>1, ResultAnswers DEF Emit
<1> QED BY <1>2 DEF CloseInv, ReapedIsRead, StreamsEnd, ClosesEnd, HasResult, Answered

-------------------------------------------------------------------------------
(* Each action keeps an end ahead of a close.                               *)

LEMMA SendChecksCloses ==
  ASSUME TypeOK, CloseInv, NEW o \in Desks \cup Phones, SendChecks(o)
  PROVE  CloseInv'
<1>1. UNCHANGED <<stdout, ending, child, closing, closeReq>>
  BY Zenon DEF SendChecks, row, process, pump
<1> QED BY <1>1, FrameCloses

LEMMA SendOpensCloses ==
  ASSUME TypeOK, CloseInv, NEW o \in Desks \cup Phones, SendOpens(o)
  PROVE  CloseInv'
<1>1. UNCHANGED <<stdout, ending, child, closing, closeReq>>
  BY Zenon DEF SendOpens, OpenTurn, process, pump
<1> QED BY <1>1, FrameCloses

LEMMA SendFailsCloses ==
  ASSUME TypeOK, CloseInv, NEW o \in Desks \cup Phones, SendFails(o)
  PROVE  CloseInv'
<1>1. UNCHANGED <<stdout, ending, child, closing, closeReq>>
  BY Zenon DEF SendFails, process, pump
<1> QED BY <1>1, FrameCloses

LEMMA WakeChecksCloses ==
  ASSUME TypeOK, CloseInv, NEW o \in Wakers, WakeChecks(o)
  PROVE  CloseInv'
<1>1. UNCHANGED <<stdout, ending, child, closing, closeReq>>
  BY Zenon DEF WakeChecks, row, process, pump
<1> QED BY <1>1, FrameCloses

LEMMA WakeFailsCloses ==
  ASSUME TypeOK, CloseInv, NEW o \in Wakers, WakeFails(o)
  PROVE  CloseInv'
<1>1. UNCHANGED <<stdout, ending, child, closing, closeReq>>
  BY Zenon DEF WakeFails, row, process, pump
<1> QED BY <1>1, FrameCloses

LEMMA WakeOpensCloses ==
  ASSUME TypeOK, CloseInv, NEW o \in Wakers, WakeOpens(o)
  PROVE  CloseInv'
<1>1. UNCHANGED <<stdout, ending, child, closing, closeReq>>
  BY Zenon DEF WakeOpens, OpenTurn, process, pump
<1> QED BY <1>1, FrameCloses

LEMMA SendWritesCloses ==
  ASSUME TypeOK, CloseInv, NEW o \in Desks \cup Phones, SendWrites(o)
  PROVE  CloseInv'
<1>1. UNCHANGED <<closing, closeReq>> /\ Write(o)
  BY Zenon DEF SendWrites, row
<1>2. CASE UNCHANGED <<child, stdout, ending>>
  BY <1>1, <1>2, FrameCloses
<1>3. CASE Spawn(turnGen)
  BY <1>1, <1>3, SpawnCloses
<1> QED
  <2>1. UNCHANGED <<child, stdout, ending>> \/ Spawn(turnGen)
    BY <1>1, Zenon DEF Write, pump
  <2> QED BY <2>1, <1>2, <1>3

LEMMA WakeWritesCloses ==
  ASSUME TypeOK, CloseInv, NEW o \in Wakers, WakeWrites(o)
  PROVE  CloseInv'
<1>1. UNCHANGED <<closing, closeReq>> /\ Write(o)
  BY Zenon DEF WakeWrites, row
<1>2. CASE UNCHANGED <<child, stdout, ending>>
  BY <1>1, <1>2, FrameCloses
<1>3. CASE Spawn(turnGen)
  BY <1>1, <1>3, SpawnCloses
<1> QED
  <2>1. UNCHANGED <<child, stdout, ending>> \/ Spawn(turnGen)
    BY <1>1, Zenon DEF Write, pump
  <2> QED BY <2>1, <1>2, <1>3

LEMMA ResumeCloses ==
  ASSUME TypeOK, CloseInv, NEW o \in Desks, Resume(o)
  PROVE  CloseInv'
<1>1. Spawn(turnGen) /\ UNCHANGED <<closing, closeReq>>
  BY Zenon DEF Resume
<1> QED BY <1>1, SpawnCloses

LEMMA FoldsCloses ==
  ASSUME TypeOK, CloseInv, Folds
  PROVE  CloseInv'
<1>1. UNCHANGED <<stdout, ending, child, closing, closeReq>>
  BY Zenon DEF Folds, row, pump
<1> QED BY <1>1, FrameCloses

LEMMA ReportsCloses ==
  ASSUME TypeOK, CloseInv, NEW o, Reports(o)
  PROVE  CloseInv'
<1>1. UNCHANGED <<stdout, ending, child, closing, closeReq>>
  BY Zenon DEF Reports, process, pump
<1> QED BY <1>1, FrameCloses

LEMMA CancelFlagsCloses ==
  ASSUME TypeOK, CloseInv, CancelFlags
  PROVE  CloseInv'
<1>1. UNCHANGED <<stdout, ending, child, closing, closeReq>>
  BY Zenon DEF CancelFlags, row, pump
<1> QED BY <1>1, FrameCloses

LEMMA CancelWritesCloses ==
  ASSUME TypeOK, CloseInv, CancelWrites
  PROVE  CloseInv'
<1>1. UNCHANGED <<stdout, ending, child, closing, closeReq>>
  BY Zenon DEF CancelWrites, row, pump
<1> QED BY <1>1, FrameCloses

LEMMA CancelFailsCloses ==
  ASSUME TypeOK, CloseInv, CancelFails
  PROVE  CloseInv'
<1>1. UNCHANGED <<stdout, ending, child, closing, closeReq>>
  BY Zenon DEF CancelFails, row, pump
<1> QED BY <1>1, FrameCloses

LEMMA SweepCloses ==
  ASSUME TypeOK, CloseInv, Sweep
  PROVE  CloseInv'
<1>1. UNCHANGED <<stdout, ending, child, closing, closeReq>>
  BY Zenon DEF Sweep, process, pump
<1> QED BY <1>1, FrameCloses

LEMMA BeginsCloses ==
  ASSUME Begins
  PROVE  CloseInv'
<1>1. child' \in Ending
  BY DEF Begins, Ending
<1> QED BY <1>1, RunningCloses

LEMMA StreamsCloses ==
  ASSUME Streams
  PROVE  CloseInv'
<1>1. child' \in Ending
  BY DEF Streams, Ending
<1> QED BY <1>1, RunningCloses

LEMMA OtherHookBlocksCloses ==
  ASSUME OtherHookBlocks
  PROVE  CloseInv'
<1>1. child' \in Ending
  BY DEF OtherHookBlocks, Ending
<1> QED BY <1>1, RunningCloses

LEMMA DiesCloses ==
  ASSUME Dies
  PROVE  CloseInv'
<1>1. child' \in Ending
  BY DEF Dies, Ending, Dead
<1> QED BY <1>1, RunningCloses

LEMMA CloseStartsCloses ==
  ASSUME CloseStarts
  PROVE  CloseInv'
<1>1. child' \in Ending
  BY DEF CloseStarts, Ending, process
<1> QED BY <1>1, RunningCloses

LEMMA CloseConfirmsCloses ==
  ASSUME CloseConfirms
  PROVE  CloseInv'
<1>1. child' \in Ending
  BY DEF CloseConfirms, Ending, process
<1> QED BY <1>1, RunningCloses

LEMMA StopReadsCloses ==
  ASSUME NEW o, StopReads(o)
  PROVE  CloseInv'
<1>1. child' \in Ending
  BY DEF StopReads, Ending
<1> QED BY <1>1, RunningCloses

LEMMA EndsCloses ==
  ASSUME TypeOK, CloseInv, Ends
  PROVE  CloseInv'
<1>1. /\ child' = "idle" /\ Emit("result", turn)
      /\ UNCHANGED <<ending, closing, closeReq>>
  BY Zenon DEF Ends, row, pump
<1> QED BY <1>1, ResultCloses

LEMMA TakesInterruptCloses ==
  ASSUME TypeOK, CloseInv, TakesInterrupt
  PROVE  CloseInv'
<1>1. UNCHANGED <<ending, closing, closeReq>>
  BY Zenon DEF TakesInterrupt, row, pump
<1>2. (child' = "idle" /\ Emit("result", turn)) \/ UNCHANGED <<child, stdout>>
  BY Zenon DEF TakesInterrupt
<1> QED BY <1>1, <1>2, ResultCloses, FrameCloses

LEMMA StopSettlesCloses ==
  ASSUME TypeOK, CloseInv, StopSettles
  PROVE  CloseInv'
<1>1. UNCHANGED <<stdout, ending, closing>> /\ (closeReq' => closeReq)
  BY Zenon DEF StopSettles, pump
<1>2. child' = child \/ child' = "gone"
  BY Zenon DEF StopSettles, Killed, Dead
<1> QED BY <1>1, <1>2, FrameCloses DEF Ending

LEMMA PumpReadsCloses ==
  ASSUME TypeOK, CloseInv, PumpReads
  PROVE  CloseInv'
<1>1. /\ child # "none" /\ stdout # <<>> /\ ending.pc = "read"
      /\ stdout' = Tail(stdout) /\ child' = child /\ closeReq' = closeReq
  BY Zenon DEF PumpReads
<1>2. stdout \in Seq(Lines)
  BY DEF TypeOK, ChildOK, Lines
<1>3. CASE child \in Ending
  BY <1>1, <1>3, RunningCloses
<1>4. CASE child \notin Ending
  <2>1. Answered(stdout) /\ (closing \/ closeReq => HasResult(stdout))
    BY <1>1, <1>4, Zenon DEF CloseInv, StreamsEnd, ClosesEnd
  <2>2. Answered(stdout')
    BY <1>1, <1>2, <2>1, TailKeeps DEF Answered
  <2>3. \/ Head(stdout).kind = "init" /\ UNCHANGED <<closing, ending>>
        \/ Head(stdout).kind = "stream" /\ UNCHANGED ending
        \/ Head(stdout).kind = "result" /\ ending'.pc = "settle"
    BY DEF PumpReads
  <2>4. Head(stdout).kind # "result" => (closing' \/ closeReq' => HasResult(stdout)')
    <3>1. HasResult(stdout)' <=> HasResult(Tail(stdout))
      BY <1>1 DEF HasResult
    <3>2. CASE Head(stdout).kind = "init"
      <4>1. HasResult(stdout) => HasResult(Tail(stdout))
        BY <1>1, <1>2, <3>2, TailKeeps
      <4>2. closing' = closing
        BY <2>3, <3>2
      <4> QED BY <1>1, <2>1, <3>1, <4>1, <4>2
    <3>3. CASE Head(stdout).kind = "stream"
      BY <1>1, <1>2, <2>1, <3>1, <3>3, TailKeeps
    <3> QED BY <2>3, <3>2, <3>3
  <2>5. ClosesEnd'
    BY <2>3, <2>4 DEF ClosesEnd
  <2> QED BY <1>1, <2>2, <2>5 DEF CloseInv, ReapedIsRead, StreamsEnd, Answered
<1> QED BY <1>3, <1>4

LEMMA PumpSettlesCloses ==
  ASSUME TypeOK, CloseInv, PumpSettles
  PROVE  CloseInv'
<1>1. UNCHANGED stdout /\ ending' = NoEnding /\ ~closing' /\ ~closeReq'
  BY Zenon DEF PumpSettles, StandsDown
<1>2. child' = child \/ child' = "gone"
  BY Zenon DEF PumpSettles, Killed, Dead
<1>3. CASE child' = "gone"
  BY <1>3, RunningCloses DEF Ending
<1>4. CASE child' = child
  <2>1. ReapedIsRead'
    BY <1>1, <1>4 DEF CloseInv, ReapedIsRead, NoEnding
  <2>2. StreamsEnd'
    BY <1>1, <1>4 DEF CloseInv, StreamsEnd, Answered
  <2> QED BY <1>1, <2>1, <2>2 DEF CloseInv, ClosesEnd
<1> QED BY <1>2, <1>3, <1>4

LEMMA PumpExitsCloses ==
  ASSUME TypeOK, CloseInv, PumpExits
  PROVE  CloseInv'
<1>1. UNCHANGED <<stdout, ending>> /\ ~closing' /\ ~closeReq'
  BY Zenon DEF PumpExits, StandsDown
<1>2. stdout = <<>> /\ ending.pc = "read"
  BY Zenon DEF PumpExits
<1>3. Answered(stdout')
  BY <1>1, <1>2 DEF Answered
<1> QED BY <1>1, <1>2, <1>3 DEF CloseInv, ReapedIsRead, StreamsEnd, ClosesEnd, Answered

LEMMA CloseInit == Init => CloseInv
<1> SUFFICES ASSUME Init PROVE CloseInv
  OBVIOUS
<1>1. child = "idle" /\ stdout = <<>> /\ ~closing /\ ~closeReq
  BY DEF Init
<1> QED BY <1>1 DEF CloseInv, ReapedIsRead, StreamsEnd, ClosesEnd, Answered

LEMMA CloseStep == TypeOK /\ CloseInv /\ [Next]_vars => CloseInv'
<1> SUFFICES ASSUME TypeOK, CloseInv, [Next]_vars PROVE CloseInv'
  OBVIOUS
<1>1. CASE Opening
  BY <1>1, ResumeCloses, SendChecksCloses, SendOpensCloses, SendWritesCloses,
     SendFailsCloses, WakeChecksCloses, WakeWritesCloses, WakeFailsCloses,
     WakeOpensCloses DEF Opening
<1>2. CASE Child
  BY <1>2, BeginsCloses, StreamsCloses, FoldsCloses, EndsCloses, TakesInterruptCloses,
     OtherHookBlocksCloses, DiesCloses, CloseStartsCloses, CloseConfirmsCloses,
     ReportsCloses, StopReadsCloses DEF Child
<1>3. CASE Daemon
  BY <1>3, StopSettlesCloses, PumpReadsCloses, PumpSettlesCloses, PumpExitsCloses,
     CancelFlagsCloses, CancelWritesCloses, CancelFailsCloses, SweepCloses DEF Daemon
<1>4. CASE UNCHANGED vars
  <2>1. UNCHANGED <<stdout, ending, child, closing, closeReq>>
    BY <1>4, Zenon DEF vars, row, process, pump
  <2> QED BY <2>1, FrameCloses
<1> QED BY <1>1, <1>2, <1>3, <1>4 DEF Next

LEMMA CloseSettles == CloseInv => CloseIsSettled
<1> SUFFICES ASSUME CloseInv, Quiet PROVE ~closing /\ ~closeReq
  BY DEF CloseIsSettled
<1>1. child \notin Ending /\ stdout = <<>> /\ ending.pc = "read"
  BY DEF Quiet, Ending
<1>2. ~HasResult(stdout)
  BY <1>1 DEF HasResult
<1> QED BY <1>1, <1>2, Zenon DEF CloseInv, ClosesEnd

\* No chat stays Closing, or keeps a confirmed close for a later turn, once nothing of
\* it runs: whatever the sends, deaths and Stop hooks did to the turn that asked, its
\* result line or its exit is still ahead (pump.rs, pump/exit.rs).
THEOREM CloseSettled == Spec => []CloseIsSettled
<1>1. Init => CloseInv
  BY CloseInit
<1>2. CloseInv => CloseIsSettled
  BY CloseSettles
<1> QED BY TypeCorrect, <1>1, CloseStep, <1>2, PTL DEF Spec

LEMMA CloseKept ==
  ASSUME [Next]_vars, closeReq, ~closeReq'
  PROVE  StopSettles \/ PumpSettles \/ PumpExits
<1>1. CASE Opening
  BY <1>1, Zenon DEF Opening, Resume, SendChecks, SendOpens, SendWrites, SendFails,
     WakeChecks, WakeWrites, WakeFails, WakeOpens, OpenTurn, row
<1>2. CASE Child
  BY <1>2, Zenon DEF Child, Begins, Streams, Folds, Ends, TakesInterrupt,
     OtherHookBlocks, Dies, CloseStarts, CloseConfirms, Reports, StopReads, row
<1>3. CASE Daemon
  BY <1>3, Zenon DEF Daemon, PumpReads, CancelFlags, CancelWrites, CancelFails, Sweep, row
<1>4. CASE UNCHANGED vars
  BY <1>4, Zenon DEF vars, row
<1> QED BY <1>1, <1>2, <1>3, <1>4 DEF Next

\* A confirmed close is only ever consumed by ending the chat, by whichever of the
\* Stop hook, the result line and the exit comes first (close.rs finalize_close).
THEOREM ConfirmedCloseKept == Spec => ConfirmedCloseEnds
<1>1. ASSUME TypeOK, [Next]_vars, closeReq, ~closeReq'
      PROVE  ended'
  <2>1. ended \in BOOLEAN
    BY <1>1 DEF TypeOK, FlagsOK
  <2>2. CASE StopSettles
    BY <1>1, <2>2, Zenon DEF StopSettles, Finalizes
  <2>3. CASE PumpSettles
    <3>1. Finalizes(closeReq)
      BY <2>3, Zenon DEF PumpSettles
    <3>2. CASE ended
      BY <3>1, <3>2, Zenon DEF Finalizes
    <3>3. CASE ~ended
      BY <1>1, <3>1, <3>3, Zenon DEF Finalizes
    <3> QED BY <3>2, <3>3
  <2>4. CASE PumpExits
    <3>1. Finalizes(closeReq)
      BY <2>4, Zenon DEF PumpExits
    <3>2. CASE ended
      BY <3>1, <3>2, Zenon DEF Finalizes
    <3>3. CASE ~ended
      BY <1>1, <3>1, <3>3, Zenon DEF Finalizes
    <3> QED BY <3>2, <3>3
  <2> QED BY <1>1, <2>2, <2>3, <2>4, CloseKept
<1>2. TypeOK /\ [Next]_vars => [closeReq /\ ~closeReq' => ended']_vars
  BY <1>1
<1> QED BY TypeCorrect, <1>2, PTL DEF Spec, ConfirmedCloseEnds
================================================================================
