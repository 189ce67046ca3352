--------------------------- MODULE Schedule_proofs ---------------------------
(***************************************************************************)
(* Proofs about Schedule, for any items, callers, guards, clock and bounds. *)
(*                                                                         *)
(* "A prompt is sent once per arming" is not inductive: it needs to know   *)
(* who may still send.  A firing in flight carries the number of the       *)
(* arming it claimed; the invariant says that an arming that is carried or *)
(* spent, and whose claim was saved, is no longer Pending in the file, that *)
(* two firings never carry the same one, and that one which has not sent   *)
(* yet does not carry a spent one.                                         *)
(***************************************************************************)
EXTENDS Schedule, TLAPS

InFlight(f) == job[f].pc \in {"guard", "check", "sending", "finish"}
Arming(f) == <<job[f].item, job[f].arm>>

\* What a job holds depends on where it is.
JobShape ==
  \A f \in Firers :
    /\ job[f].pc = "idle" <=> job[f].item = NoItem
    /\ job[f].pc = "finish" <=> job[f].outcome # "none"

\* Armings are numbered upwards.
ArmingsPast ==
  /\ \A f \in Firers : InFlight(f) => job[f].arm <= arm[job[f].item]
  /\ \A a \in spent : a[2] <= arm[a[1]]

\* A carried or spent arming is not Pending any more.
TakenNotPending ==
  /\ \A f \in Firers :
       /\ InFlight(f) /\ Arming(f) \notin unsaved
       /\ job[f].arm = arm[job[f].item]
       => file[job[f].item].status # "pending"
  /\ \A i \in Items :
       <<i, arm[i]>> \in spent \ unsaved => file[i].status # "pending"

\* No two firings carry the same arming, and none that still has to send carries a
\* spent one.
CarriedOnce ==
  /\ \A f, h \in Firers :
       f # h /\ InFlight(f) /\ InFlight(h) /\ Arming(f) = Arming(h)
         => Arming(f) \in unsaved
  /\ \A f \in Firers :
       job[f].pc \in {"guard", "check", "sending"} /\ Arming(f) \in spent
         => Arming(f) \in unsaved

\* Only an item that has a guard can be skipped.
SkipsAreGuarded == \A d \in due : d.skip => d.guard # NoGuard

Inv == TypeOK /\ JobShape /\ ArmingsPast /\ TakenNotPending /\ CarriedOnce

USE ScheduleConstants DEF Firers, Commands, Later, Statuses

-------------------------------------------------------------------------------
LEMMA NoJobType == NoJob \in Jobs
  BY DEF NoJob, Jobs

LEMMA EditJobType ==
  ASSUME NEW i \in Items, NEW t \in Nat, NEW g \in Commands
  PROVE  [NoJob EXCEPT !.pc = "edit", !.item = i, !.at = t, !.guard = g] \in Jobs
  BY DEF NoJob, Jobs

\* Every step keeps every variable in its type.
LEMMA TypeStep == TypeOK /\ JobShape /\ [Next]_vars => TypeOK'
<1> SUFFICES ASSUME TypeOK /\ JobShape, [Next]_vars PROVE TypeOK'
  OBVIOUS
<1> USE DEF TypeOK, JobShape, Jobs, Absent, bounds, history
<1>1. ASSUME NEW i \in Items, NEW t \in 1..MaxTime, NEW g \in Commands, Create(i, t, g) PROVE TypeOK'
  BY <1>1, SMTT(60) DEF Create, Rewrite
<1>2. ASSUME NEW c \in Callers, NEW i \in Items, NEW t \in 1..MaxTime, NEW g \in Commands, UpdateRead(c, i, t, g) PROVE TypeOK'
  <2>1. job' \in [Firers -> Jobs]
    <3>1. [NoJob EXCEPT !.pc = "edit", !.item = i, !.at = t, !.guard = g] \in Jobs
      <4>1. t \in Nat
        BY DEF ScheduleConstants
      <4> QED
        BY <4>1 DEF NoJob
    <3> QED
      BY <1>2, <3>1 DEF UpdateRead
  <2> QED
    BY <1>2, <2>1 DEF UpdateRead
<1>3. ASSUME NEW c \in Callers, UpdateWrite(c) PROVE TypeOK'
  <2>1. job' \in [Firers -> Jobs]
    BY <1>3, NoJobType DEF UpdateWrite
  <2> QED
    BY <1>3, <2>1 DEF UpdateWrite, Rewrite
<1>4. ASSUME NEW i \in Items, Delete(i) PROVE TypeOK'
  BY <1>4 DEF Delete, Rewrite
<1>5. ASSUME NEW c \in Callers, NEW i \in Items, FireNow(c, i) PROVE TypeOK'
  BY <1>5 DEF FireNow, Claim, Rewrite, Claimable
<1>6. ASSUME NEW f \in Firers, Refuse(f) PROVE TypeOK'
  BY <1>6 DEF Refuse
<1>7. ASSUME NEW f \in Firers, StartSend(f) PROVE TypeOK'
  BY <1>7 DEF StartSend
<1>8. ASSUME NEW f \in Firers, Deliver(f) PROVE TypeOK'
  BY <1>8 DEF Deliver
<1>9. ASSUME NEW f \in Firers, SendFails(f) PROVE TypeOK'
  BY <1>9 DEF SendFails
<1>10. ASSUME NEW f \in Firers, Finish(f) PROVE TypeOK'
  <2>1. job' \in [Firers -> Jobs]
    BY <1>10, NoJobType DEF Finish
  <2> QED
    BY <1>10, <2>1 DEF Finish, Rewrite, WritesBack, Outcomes, NextOccurrences
<1>11. ASSUME NEW f \in Firers, DropOutcome(f) PROVE TypeOK'
  <2>1. job' \in [Firers -> Jobs]
    BY <1>11, NoJobType DEF DropOutcome
  <2> QED
    BY <1>11, <2>1 DEF DropOutcome
<1>12. CASE TickStart
  <2>1. ASSUME NEW e \in due' PROVE e \in [item : Items, guard : Guards \cup {NoGuard}, past : BOOLEAN, skip : BOOLEAN]
    <3>1. PICK seen \in 0..now, j \in Items :
            e = [item |-> j, guard |-> file[j].guard, past |-> Lateness(j, seen) >= Grace, skip |-> FALSE]
      BY <1>12 DEF TickStart
    <3>2. (Lateness(j, seen) >= Grace) \in BOOLEAN
      OBVIOUS
    <3> QED
      BY <3>1, <3>2
  <2> QED
    BY <1>12, <2>1 DEF TickStart
<1>13. CASE GuardsDone
  <2>1. PICK skips \in SUBSET due : due' = (due \ skips) \cup {[d EXCEPT !.skip = TRUE] : d \in skips}
    BY <1>13 DEF GuardsDone
  <2>2. ASSUME NEW d \in due
        PROVE [d EXCEPT !.skip = TRUE] \in [item : Items, guard : Guards \cup {NoGuard}, past : BOOLEAN, skip : BOOLEAN]
    <3>1. d \in [item : Items, guard : Guards \cup {NoGuard}, past : BOOLEAN, skip : BOOLEAN]
      OBVIOUS
    <3> QED
      BY <3>1
  <2>3. due' \subseteq [item : Items, guard : Guards \cup {NoGuard}, past : BOOLEAN, skip : BOOLEAN]
    BY <2>1, <2>2
  <2> QED
    BY <1>13, <2>3 DEF GuardsDone
<1>14. CASE GuardAgain
  BY <1>14 DEF GuardAgain
<1>15. ASSUME NEW d \in due, TickPasses(d) PROVE TypeOK'
  BY <1>15 DEF TickPasses
<1>16. ASSUME NEW d \in due, TickClaims(d) PROVE TypeOK'
  BY <1>16, SMTT(60) DEF TickClaims, Claim, Rewrite, Claimable
<1>17. ASSUME NEW x \in Sessions, UserTurn(x) PROVE TypeOK'
  BY <1>17 DEF UserTurn
<1>18. ASSUME NEW x \in Sessions, TurnEnds(x) PROVE TypeOK'
  BY <1>18 DEF TurnEnds
<1>19. CASE Tock
  BY <1>19 DEF Tock
<1>20. CASE Crash
  <2>1. job' \in [Firers -> Jobs]
    BY <1>20, NoJobType DEF Crash
  <2>2. busy' \in [Sessions -> {"none", "user"} \cup Firers]
    BY <1>20 DEF Crash
  <2> QED
    <3>1. /\ due' = {} /\ guarding' = FALSE /\ up' = FALSE /\ crashes' = crashes + 1
          /\ UNCHANGED <<now, startedAt, file, requests, failedWrites, known, arm, unsaved, spent, repeated>>
      BY <1>20 DEF Crash
    <3> HIDE DEF Jobs
    <3>2. up' \in BOOLEAN /\ guarding' \in BOOLEAN
      BY <3>1, Zenon
    <3>3. crashes' \in Nat
      BY <3>1
    <3> QED
      BY <2>1, <2>2, <3>1, <3>2, <3>3
<1>21. CASE Boot
  BY <1>21, SMTT(60) DEF Boot, SweptTo
<1>22. CASE UNCHANGED vars
  BY <1>22 DEF vars
<1> QED
  BY <1>1, <1>2, <1>3, <1>4, <1>5, <1>6, <1>7, <1>8, <1>9, <1>10, <1>11, <1>12, <1>13, <1>14, <1>15, <1>16, <1>17, <1>18, <1>19, <1>20, <1>21, <1>22 DEF Next, Requests, FirerStep, TickStep
LEMMA ShapeStep == TypeOK /\ JobShape /\ [Next]_vars => JobShape'
<1> SUFFICES ASSUME TypeOK /\ JobShape, [Next]_vars PROVE JobShape'
  OBVIOUS
<1> USE DEF TypeOK, JobShape, Jobs, NoJob
<1>1. ASSUME NEW i \in Items, NEW t \in 1..MaxTime, NEW g \in Commands, Create(i, t, g) PROVE JobShape'
  BY <1>1 DEF Create, Rewrite
<1>2. ASSUME NEW c \in Callers, NEW i \in Items, NEW t \in 1..MaxTime, NEW g \in Commands, UpdateRead(c, i, t, g) PROVE JobShape'
  BY <1>2 DEF UpdateRead
<1>3. ASSUME NEW c \in Callers, UpdateWrite(c) PROVE JobShape'
  BY <1>3 DEF UpdateWrite, Rewrite
<1>4. ASSUME NEW i \in Items, Delete(i) PROVE JobShape'
  BY <1>4 DEF Delete, Rewrite
<1>5. ASSUME NEW c \in Callers, NEW i \in Items, FireNow(c, i) PROVE JobShape'
  BY <1>5 DEF FireNow, Claim, Rewrite, Claimable
<1>6. ASSUME NEW f \in Firers, Refuse(f) PROVE JobShape'
  BY <1>6 DEF Refuse
<1>7. ASSUME NEW f \in Firers, StartSend(f) PROVE JobShape'
  BY <1>7 DEF StartSend
<1>8. ASSUME NEW f \in Firers, Deliver(f) PROVE JobShape'
  BY <1>8 DEF Deliver
<1>9. ASSUME NEW f \in Firers, SendFails(f) PROVE JobShape'
  BY <1>9 DEF SendFails
<1>10. ASSUME NEW f \in Firers, Finish(f) PROVE JobShape'
  BY <1>10 DEF Finish, Rewrite, WritesBack, Outcomes, NextOccurrences
<1>11. ASSUME NEW f \in Firers, DropOutcome(f) PROVE JobShape'
  BY <1>11 DEF DropOutcome, WritesBack
<1>12. CASE TickStart
  BY <1>12 DEF TickStart, Lateness, Latest
<1>13. CASE GuardsDone
  BY <1>13 DEF GuardsDone
<1>14. CASE GuardAgain
  BY <1>14 DEF GuardAgain
<1>15. ASSUME NEW d \in due, TickPasses(d) PROVE JobShape'
  BY <1>15 DEF TickPasses
<1>16. ASSUME NEW d \in due, TickClaims(d) PROVE JobShape'
  BY <1>16 DEF TickClaims, Claim, Rewrite, Claimable
<1>17. ASSUME NEW x \in Sessions, UserTurn(x) PROVE JobShape'
  BY <1>17 DEF UserTurn
<1>18. ASSUME NEW x \in Sessions, TurnEnds(x) PROVE JobShape'
  BY <1>18 DEF TurnEnds
<1>19. CASE Tock
  BY <1>19 DEF Tock
<1>20. CASE Crash
  BY <1>20 DEF Crash
<1>21. CASE Boot
  BY <1>21 DEF Boot, SweptTo
<1>22. CASE UNCHANGED vars
  BY <1>22 DEF vars
<1> QED
  BY <1>1, <1>2, <1>3, <1>4, <1>5, <1>6, <1>7, <1>8, <1>9, <1>10, <1>11, <1>12, <1>13, <1>14, <1>15, <1>16, <1>17, <1>18, <1>19, <1>20, <1>21, <1>22 DEF Next, Requests, FirerStep, TickStep
LEMMA PastStep == Inv /\ [Next]_vars => ArmingsPast'
<1> SUFFICES ASSUME Inv, [Next]_vars PROVE ArmingsPast'
  OBVIOUS
<1> USE DEF Inv, TypeOK, JobShape, ArmingsPast, Jobs, NoJob, InFlight, Arming, Absent, bounds, history
<1>1. ASSUME NEW i \in Items, NEW t \in 1..MaxTime, NEW g \in Commands, Create(i, t, g) PROVE ArmingsPast'
  BY <1>1 DEF Create, Rewrite
<1>2. ASSUME NEW c \in Callers, NEW i \in Items, NEW t \in 1..MaxTime, NEW g \in Commands, UpdateRead(c, i, t, g) PROVE ArmingsPast'
  BY <1>2 DEF UpdateRead
<1>3. ASSUME NEW c \in Callers, UpdateWrite(c) PROVE ArmingsPast'
  <2>1. \A i \in Items : arm'[i] >= arm[i] /\ arm'[i] \in Nat
    BY <1>3 DEF UpdateWrite, Rewrite
  <2>2. UNCHANGED spent /\ \A f \in Firers : InFlight(f)' => job'[f] = job[f] /\ InFlight(f)
    BY <1>3 DEF UpdateWrite
  <2> QED
    BY <2>1, <2>2
<1>4. ASSUME NEW i \in Items, Delete(i) PROVE ArmingsPast'
  BY <1>4 DEF Delete, Rewrite
<1>5. ASSUME NEW c \in Callers, NEW i \in Items, FireNow(c, i) PROVE ArmingsPast'
  BY <1>5 DEF FireNow, Claim, Rewrite, Claimable
<1>6. ASSUME NEW f \in Firers, Refuse(f) PROVE ArmingsPast'
  BY <1>6 DEF Refuse
<1>7. ASSUME NEW f \in Firers, StartSend(f) PROVE ArmingsPast'
  BY <1>7 DEF StartSend
<1>8. ASSUME NEW f \in Firers, Deliver(f) PROVE ArmingsPast'
  BY <1>8 DEF Deliver
<1>9. ASSUME NEW f \in Firers, SendFails(f) PROVE ArmingsPast'
  BY <1>9 DEF SendFails
<1>10. ASSUME NEW f \in Firers, Finish(f) PROVE ArmingsPast'
  BY <1>10 DEF Finish, Rewrite, WritesBack, Outcomes, NextOccurrences
<1>11. ASSUME NEW f \in Firers, DropOutcome(f) PROVE ArmingsPast'
  BY <1>11 DEF DropOutcome, WritesBack
<1>12. CASE TickStart
  BY <1>12 DEF TickStart, Lateness, Latest
<1>13. CASE GuardsDone
  BY <1>13 DEF GuardsDone
<1>14. CASE GuardAgain
  BY <1>14 DEF GuardAgain
<1>15. ASSUME NEW d \in due, TickPasses(d) PROVE ArmingsPast'
  BY <1>15 DEF TickPasses
<1>16. ASSUME NEW d \in due, TickClaims(d) PROVE ArmingsPast'
  BY <1>16 DEF TickClaims, Claim, Rewrite, Claimable
<1>17. ASSUME NEW x \in Sessions, UserTurn(x) PROVE ArmingsPast'
  BY <1>17 DEF UserTurn
<1>18. ASSUME NEW x \in Sessions, TurnEnds(x) PROVE ArmingsPast'
  BY <1>18 DEF TurnEnds
<1>19. CASE Tock
  BY <1>19 DEF Tock
<1>20. CASE Crash
  BY <1>20 DEF Crash
<1>21. CASE Boot
  BY <1>21 DEF Boot, SweptTo
<1>22. CASE UNCHANGED vars
  BY <1>22 DEF vars
<1> QED
  BY <1>1, <1>2, <1>3, <1>4, <1>5, <1>6, <1>7, <1>8, <1>9, <1>10, <1>11, <1>12, <1>13, <1>14, <1>15, <1>16, <1>17, <1>18, <1>19, <1>20, <1>21, <1>22 DEF Next, Requests, FirerStep, TickStep
LEMMA TakenStep == Inv /\ [Next]_vars => TakenNotPending'
<1> SUFFICES ASSUME Inv, [Next]_vars PROVE TakenNotPending'
  OBVIOUS
<1> USE DEF Inv, TypeOK, JobShape, ArmingsPast, Jobs, NoJob, InFlight, Arming, Absent, bounds, history, TakenNotPending
<1>1. ASSUME NEW i \in Items, NEW t \in 1..MaxTime, NEW g \in Commands, Create(i, t, g) PROVE TakenNotPending'
  BY <1>1 DEF Create, Rewrite
<1>2. ASSUME NEW c \in Callers, NEW i \in Items, NEW t \in 1..MaxTime, NEW g \in Commands, UpdateRead(c, i, t, g) PROVE TakenNotPending'
  BY <1>2 DEF UpdateRead
<1>3. ASSUME NEW c \in Callers, UpdateWrite(c) PROVE TakenNotPending'
  BY <1>3 DEF UpdateWrite, Rewrite
<1>4. ASSUME NEW i \in Items, Delete(i) PROVE TakenNotPending'
  BY <1>4 DEF Delete, Rewrite
<1>5. ASSUME NEW c \in Callers, NEW i \in Items, FireNow(c, i) PROVE TakenNotPending'
  BY <1>5 DEF FireNow, Claim, Rewrite, Claimable
<1>6. ASSUME NEW f \in Firers, Refuse(f) PROVE TakenNotPending'
  BY <1>6 DEF Refuse
<1>7. ASSUME NEW f \in Firers, StartSend(f) PROVE TakenNotPending'
  BY <1>7 DEF StartSend
<1>8. ASSUME NEW f \in Firers, Deliver(f) PROVE TakenNotPending'
  BY <1>8 DEF Deliver
<1>9. ASSUME NEW f \in Firers, SendFails(f) PROVE TakenNotPending'
  BY <1>9 DEF SendFails
<1>10. ASSUME NEW f \in Firers, Finish(f) PROVE TakenNotPending'
  BY <1>10 DEF Finish, Rewrite, WritesBack, Outcomes, NextOccurrences
<1>11. ASSUME NEW f \in Firers, DropOutcome(f) PROVE TakenNotPending'
  BY <1>11 DEF DropOutcome, WritesBack
<1>12. CASE TickStart
  BY <1>12 DEF TickStart, Lateness, Latest
<1>13. CASE GuardsDone
  BY <1>13 DEF GuardsDone
<1>14. CASE GuardAgain
  BY <1>14 DEF GuardAgain
<1>15. ASSUME NEW d \in due, TickPasses(d) PROVE TakenNotPending'
  BY <1>15 DEF TickPasses
<1>16. ASSUME NEW d \in due, TickClaims(d) PROVE TakenNotPending'
  BY <1>16 DEF TickClaims, Claim, Rewrite, Claimable
<1>17. ASSUME NEW x \in Sessions, UserTurn(x) PROVE TakenNotPending'
  BY <1>17 DEF UserTurn
<1>18. ASSUME NEW x \in Sessions, TurnEnds(x) PROVE TakenNotPending'
  BY <1>18 DEF TurnEnds
<1>19. CASE Tock
  BY <1>19 DEF Tock
<1>20. CASE Crash
  BY <1>20 DEF Crash
<1>21. CASE Boot
  BY <1>21 DEF Boot, SweptTo
<1>22. CASE UNCHANGED vars
  BY <1>22 DEF vars
<1> QED
  BY <1>1, <1>2, <1>3, <1>4, <1>5, <1>6, <1>7, <1>8, <1>9, <1>10, <1>11, <1>12, <1>13, <1>14, <1>15, <1>16, <1>17, <1>18, <1>19, <1>20, <1>21, <1>22 DEF Next, Requests, FirerStep, TickStep
LEMMA CarriedStep == Inv /\ [Next]_vars => CarriedOnce'
<1> SUFFICES ASSUME Inv, [Next]_vars PROVE CarriedOnce'
  OBVIOUS
<1> USE DEF Inv, TypeOK, JobShape, ArmingsPast, Jobs, NoJob, InFlight, Arming, Absent, bounds, history, TakenNotPending, CarriedOnce
<1>1. ASSUME NEW i \in Items, NEW t \in 1..MaxTime, NEW g \in Commands, Create(i, t, g) PROVE CarriedOnce'
  BY <1>1 DEF Create, Rewrite
<1>2. ASSUME NEW c \in Callers, NEW i \in Items, NEW t \in 1..MaxTime, NEW g \in Commands, UpdateRead(c, i, t, g) PROVE CarriedOnce'
  BY <1>2 DEF UpdateRead
<1>3. ASSUME NEW c \in Callers, UpdateWrite(c) PROVE CarriedOnce'
  BY <1>3 DEF UpdateWrite, Rewrite
<1>4. ASSUME NEW i \in Items, Delete(i) PROVE CarriedOnce'
  BY <1>4 DEF Delete, Rewrite
<1>5. ASSUME NEW c \in Callers, NEW i \in Items, FireNow(c, i) PROVE CarriedOnce'
  BY <1>5 DEF FireNow, Claim, Rewrite, Claimable
<1>6. ASSUME NEW f \in Firers, Refuse(f) PROVE CarriedOnce'
  BY <1>6 DEF Refuse
<1>7. ASSUME NEW f \in Firers, StartSend(f) PROVE CarriedOnce'
  BY <1>7 DEF StartSend
<1>8. ASSUME NEW f \in Firers, Deliver(f) PROVE CarriedOnce'
  BY <1>8 DEF Deliver
<1>9. ASSUME NEW f \in Firers, SendFails(f) PROVE CarriedOnce'
  BY <1>9 DEF SendFails
<1>10. ASSUME NEW f \in Firers, Finish(f) PROVE CarriedOnce'
  BY <1>10 DEF Finish, Rewrite, WritesBack, Outcomes, NextOccurrences
<1>11. ASSUME NEW f \in Firers, DropOutcome(f) PROVE CarriedOnce'
  BY <1>11 DEF DropOutcome, WritesBack
<1>12. CASE TickStart
  BY <1>12 DEF TickStart, Lateness, Latest
<1>13. CASE GuardsDone
  BY <1>13 DEF GuardsDone
<1>14. CASE GuardAgain
  BY <1>14 DEF GuardAgain
<1>15. ASSUME NEW d \in due, TickPasses(d) PROVE CarriedOnce'
  BY <1>15 DEF TickPasses
<1>16. ASSUME NEW d \in due, TickClaims(d) PROVE CarriedOnce'
  BY <1>16 DEF TickClaims, Claim, Rewrite, Claimable
<1>17. ASSUME NEW x \in Sessions, UserTurn(x) PROVE CarriedOnce'
  BY <1>17 DEF UserTurn
<1>18. ASSUME NEW x \in Sessions, TurnEnds(x) PROVE CarriedOnce'
  BY <1>18 DEF TurnEnds
<1>19. CASE Tock
  BY <1>19 DEF Tock
<1>20. CASE Crash
  BY <1>20 DEF Crash
<1>21. CASE Boot
  BY <1>21 DEF Boot, SweptTo
<1>22. CASE UNCHANGED vars
  BY <1>22 DEF vars
<1> QED
  BY <1>1, <1>2, <1>3, <1>4, <1>5, <1>6, <1>7, <1>8, <1>9, <1>10, <1>11, <1>12, <1>13, <1>14, <1>15, <1>16, <1>17, <1>18, <1>19, <1>20, <1>21, <1>22 DEF Next, Requests, FirerStep, TickStep
LEMMA OwnerStep == Inv /\ FiringHasOwner /\ [Next]_vars => FiringHasOwner'
<1> SUFFICES ASSUME Inv /\ FiringHasOwner, [Next]_vars PROVE FiringHasOwner'
  OBVIOUS
<1> USE DEF Inv, TypeOK, JobShape, Jobs, NoJob, Absent, bounds, history, FiringHasOwner
<1>1. ASSUME NEW i \in Items, NEW t \in 1..MaxTime, NEW g \in Commands, Create(i, t, g) PROVE FiringHasOwner'
  BY <1>1 DEF Create, Rewrite
<1>2. ASSUME NEW c \in Callers, NEW i \in Items, NEW t \in 1..MaxTime, NEW g \in Commands, UpdateRead(c, i, t, g) PROVE FiringHasOwner'
  BY <1>2 DEF UpdateRead
<1>3. ASSUME NEW c \in Callers, UpdateWrite(c) PROVE FiringHasOwner'
  BY <1>3 DEF UpdateWrite, Rewrite
<1>4. ASSUME NEW i \in Items, Delete(i) PROVE FiringHasOwner'
  BY <1>4 DEF Delete, Rewrite
<1>5. ASSUME NEW c \in Callers, NEW i \in Items, FireNow(c, i) PROVE FiringHasOwner'
  BY <1>5 DEF FireNow, Claim, Rewrite, Claimable
<1>6. ASSUME NEW f \in Firers, Refuse(f) PROVE FiringHasOwner'
  BY <1>6 DEF Refuse
<1>7. ASSUME NEW f \in Firers, StartSend(f) PROVE FiringHasOwner'
  BY <1>7 DEF StartSend
<1>8. ASSUME NEW f \in Firers, Deliver(f) PROVE FiringHasOwner'
  BY <1>8 DEF Deliver
<1>9. ASSUME NEW f \in Firers, SendFails(f) PROVE FiringHasOwner'
  BY <1>9 DEF SendFails
<1>10. ASSUME NEW f \in Firers, Finish(f) PROVE FiringHasOwner'
  BY <1>10 DEF Finish, Rewrite, WritesBack, Outcomes, NextOccurrences
<1>11. ASSUME NEW f \in Firers, DropOutcome(f) PROVE FiringHasOwner'
  BY <1>11 DEF DropOutcome, WritesBack
<1>12. CASE TickStart
  BY <1>12 DEF TickStart, Lateness, Latest
<1>13. CASE GuardsDone
  BY <1>13 DEF GuardsDone
<1>14. CASE GuardAgain
  BY <1>14 DEF GuardAgain
<1>15. ASSUME NEW d \in due, TickPasses(d) PROVE FiringHasOwner'
  BY <1>15 DEF TickPasses
<1>16. ASSUME NEW d \in due, TickClaims(d) PROVE FiringHasOwner'
  BY <1>16 DEF TickClaims, Claim, Rewrite, Claimable
<1>17. ASSUME NEW x \in Sessions, UserTurn(x) PROVE FiringHasOwner'
  BY <1>17 DEF UserTurn
<1>18. ASSUME NEW x \in Sessions, TurnEnds(x) PROVE FiringHasOwner'
  BY <1>18 DEF TurnEnds
<1>19. CASE Tock
  BY <1>19 DEF Tock
<1>20. CASE Crash
  BY <1>20 DEF Crash
<1>21. CASE Boot
  BY <1>21 DEF Boot, SweptTo
<1>22. CASE UNCHANGED vars
  BY <1>22 DEF vars
<1> QED
  BY <1>1, <1>2, <1>3, <1>4, <1>5, <1>6, <1>7, <1>8, <1>9, <1>10, <1>11, <1>12, <1>13, <1>14, <1>15, <1>16, <1>17, <1>18, <1>19, <1>20, <1>21, <1>22 DEF Next, Requests, FirerStep, TickStep
LEMMA GuardStep == Inv /\ SkipsAreGuarded /\ SkippedByOwnGuard /\ [Next]_vars => (SkipsAreGuarded /\ SkippedByOwnGuard)'
<1> SUFFICES ASSUME Inv /\ SkipsAreGuarded /\ SkippedByOwnGuard, [Next]_vars PROVE (SkipsAreGuarded /\ SkippedByOwnGuard)'
  OBVIOUS
<1> USE DEF Inv, TypeOK, JobShape, Jobs, NoJob, Absent, bounds, history, SkipsAreGuarded, SkippedByOwnGuard
<1>1. ASSUME NEW i \in Items, NEW t \in 1..MaxTime, NEW g \in Commands, Create(i, t, g) PROVE (SkipsAreGuarded /\ SkippedByOwnGuard)'
  BY <1>1 DEF Create, Rewrite
<1>2. ASSUME NEW c \in Callers, NEW i \in Items, NEW t \in 1..MaxTime, NEW g \in Commands, UpdateRead(c, i, t, g) PROVE (SkipsAreGuarded /\ SkippedByOwnGuard)'
  BY <1>2 DEF UpdateRead
<1>3. ASSUME NEW c \in Callers, UpdateWrite(c) PROVE (SkipsAreGuarded /\ SkippedByOwnGuard)'
  BY <1>3 DEF UpdateWrite, Rewrite
<1>4. ASSUME NEW i \in Items, Delete(i) PROVE (SkipsAreGuarded /\ SkippedByOwnGuard)'
  BY <1>4 DEF Delete, Rewrite
<1>5. ASSUME NEW c \in Callers, NEW i \in Items, FireNow(c, i) PROVE (SkipsAreGuarded /\ SkippedByOwnGuard)'
  BY <1>5 DEF FireNow, Claim, Rewrite, Claimable
<1>6. ASSUME NEW f \in Firers, Refuse(f) PROVE (SkipsAreGuarded /\ SkippedByOwnGuard)'
  BY <1>6 DEF Refuse
<1>7. ASSUME NEW f \in Firers, StartSend(f) PROVE (SkipsAreGuarded /\ SkippedByOwnGuard)'
  BY <1>7 DEF StartSend
<1>8. ASSUME NEW f \in Firers, Deliver(f) PROVE (SkipsAreGuarded /\ SkippedByOwnGuard)'
  BY <1>8 DEF Deliver
<1>9. ASSUME NEW f \in Firers, SendFails(f) PROVE (SkipsAreGuarded /\ SkippedByOwnGuard)'
  BY <1>9 DEF SendFails
<1>10. ASSUME NEW f \in Firers, Finish(f) PROVE (SkipsAreGuarded /\ SkippedByOwnGuard)'
  BY <1>10 DEF Finish, Rewrite, WritesBack, Outcomes, NextOccurrences
<1>11. ASSUME NEW f \in Firers, DropOutcome(f) PROVE (SkipsAreGuarded /\ SkippedByOwnGuard)'
  BY <1>11 DEF DropOutcome, WritesBack
<1>12. CASE TickStart
  BY <1>12 DEF TickStart, Lateness, Latest
<1>13. CASE GuardsDone
  BY <1>13 DEF GuardsDone
<1>14. CASE GuardAgain
  BY <1>14 DEF GuardAgain
<1>15. ASSUME NEW d \in due, TickPasses(d) PROVE (SkipsAreGuarded /\ SkippedByOwnGuard)'
  BY <1>15 DEF TickPasses
<1>16. ASSUME NEW d \in due, TickClaims(d) PROVE (SkipsAreGuarded /\ SkippedByOwnGuard)'
  BY <1>16 DEF TickClaims, Claim, Rewrite, Claimable, SameGuard
<1>17. ASSUME NEW x \in Sessions, UserTurn(x) PROVE (SkipsAreGuarded /\ SkippedByOwnGuard)'
  BY <1>17 DEF UserTurn
<1>18. ASSUME NEW x \in Sessions, TurnEnds(x) PROVE (SkipsAreGuarded /\ SkippedByOwnGuard)'
  BY <1>18 DEF TurnEnds
<1>19. CASE Tock
  BY <1>19 DEF Tock
<1>20. CASE Crash
  BY <1>20 DEF Crash
<1>21. CASE Boot
  BY <1>21 DEF Boot, SweptTo
<1>22. CASE UNCHANGED vars
  BY <1>22 DEF vars
<1> QED
  BY <1>1, <1>2, <1>3, <1>4, <1>5, <1>6, <1>7, <1>8, <1>9, <1>10, <1>11, <1>12, <1>13, <1>14, <1>15, <1>16, <1>17, <1>18, <1>19, <1>20, <1>21, <1>22 DEF Next, Requests, FirerStep, TickStep

\* Until it sends, what the tick claimed has a chat that the tick itself has not written
\* to: it was idle at the claim, and only others have begun a turn in it since.
TickFoundIdle ==
  job[Tick].pc \in {"guard", "check"} /\ Target[job[Tick].item] # NoSession
    => busy[Target[job[Tick].item]] # Tick

LEMMA IdleStep == Inv /\ TickFoundIdle /\ [Next]_vars => TickFoundIdle'
<1> SUFFICES ASSUME Inv /\ TickFoundIdle, [Next]_vars PROVE TickFoundIdle'
  OBVIOUS
<1> USE FirersAreNamed DEF Inv, TypeOK, JobShape, Jobs, NoJob, Absent, bounds, history, TickFoundIdle
<1>1. ASSUME NEW i \in Items, NEW t \in 1..MaxTime, NEW g \in Commands, Create(i, t, g) PROVE TickFoundIdle'
  BY <1>1 DEF Create, Rewrite
<1>2. ASSUME NEW c \in Callers, NEW i \in Items, NEW t \in 1..MaxTime, NEW g \in Commands, UpdateRead(c, i, t, g) PROVE TickFoundIdle'
  BY <1>2 DEF UpdateRead
<1>3. ASSUME NEW c \in Callers, UpdateWrite(c) PROVE TickFoundIdle'
  BY <1>3 DEF UpdateWrite, Rewrite
<1>4. ASSUME NEW i \in Items, Delete(i) PROVE TickFoundIdle'
  BY <1>4 DEF Delete, Rewrite
<1>5. ASSUME NEW c \in Callers, NEW i \in Items, FireNow(c, i) PROVE TickFoundIdle'
  BY <1>5 DEF FireNow, Claim, Rewrite, Claimable
<1>6. ASSUME NEW f \in Firers, Refuse(f) PROVE TickFoundIdle'
  BY <1>6 DEF Refuse
<1>7. ASSUME NEW f \in Firers, StartSend(f) PROVE TickFoundIdle'
  BY <1>7 DEF StartSend
<1>8. ASSUME NEW f \in Firers, Deliver(f) PROVE TickFoundIdle'
  BY <1>8 DEF Deliver
<1>9. ASSUME NEW f \in Firers, SendFails(f) PROVE TickFoundIdle'
  BY <1>9 DEF SendFails
<1>10. ASSUME NEW f \in Firers, Finish(f) PROVE TickFoundIdle'
  BY <1>10 DEF Finish, Rewrite, WritesBack, Outcomes, NextOccurrences
<1>11. ASSUME NEW f \in Firers, DropOutcome(f) PROVE TickFoundIdle'
  BY <1>11 DEF DropOutcome, WritesBack
<1>12. CASE TickStart
  BY <1>12 DEF TickStart, Lateness, Latest
<1>13. CASE GuardsDone
  BY <1>13 DEF GuardsDone
<1>14. CASE GuardAgain
  BY <1>14 DEF GuardAgain
<1>15. ASSUME NEW d \in due, TickPasses(d) PROVE TickFoundIdle'
  BY <1>15 DEF TickPasses
<1>16. ASSUME NEW d \in due, TickClaims(d) PROVE TickFoundIdle'
  BY <1>16 DEF TickClaims, Claim, Rewrite, Claimable, SameGuard, BusyAgain, Busy
<1>17. ASSUME NEW x \in Sessions, UserTurn(x) PROVE TickFoundIdle'
  BY <1>17 DEF UserTurn
<1>18. ASSUME NEW x \in Sessions, TurnEnds(x) PROVE TickFoundIdle'
  BY <1>18 DEF TurnEnds
<1>19. CASE Tock
  BY <1>19 DEF Tock
<1>20. CASE Crash
  BY <1>20 DEF Crash
<1>21. CASE Boot
  BY <1>21 DEF Boot, SweptTo
<1>22. CASE UNCHANGED vars
  BY <1>22 DEF vars
<1> QED
  BY <1>1, <1>2, <1>3, <1>4, <1>5, <1>6, <1>7, <1>8, <1>9, <1>10, <1>11, <1>12, <1>13, <1>14, <1>15, <1>16, <1>17, <1>18, <1>19, <1>20, <1>21, <1>22 DEF Next, Requests, FirerStep, TickStep
LEMMA InitInv == Init => Inv
<1> SUFFICES ASSUME Init PROVE Inv
  OBVIOUS
<1>1. job \in [Firers -> Jobs]
  BY NoJobType DEF Init
<1>2. TypeOK
  BY <1>1 DEF Init, TypeOK, Absent
<1>3. JobShape
  BY DEF Init, JobShape, NoJob
<1>4. ArmingsPast /\ TakenNotPending /\ CarriedOnce
  BY DEF Init, ArmingsPast, TakenNotPending, CarriedOnce, InFlight, NoJob
<1> QED
  BY <1>2, <1>3, <1>4 DEF Inv

LEMMA InvHolds == Spec => []Inv
<1>1. Inv /\ [Next]_vars => Inv'
  BY TypeStep, ShapeStep, PastStep, TakenStep, CarriedStep DEF Inv
<1> QED
  BY InitInv, <1>1, PTL DEF Spec

\* Every reachable state is well typed.
THEOREM TypeCorrect == Spec => []TypeOK
<1>1. Inv => TypeOK
  BY DEF Inv
<1> QED
  BY InvHolds, <1>1, PTL

\* Deliver is the only step that can repeat a prompt, and the arming it carries was
\* then claimed without being saved.
THEOREM SentOnce == Spec => []SavedClaimSentOnce
<1>1. Init => SavedClaimSentOnce
  BY DEF Init, SavedClaimSentOnce
<1>2. Inv /\ SavedClaimSentOnce /\ [Next]_vars => SavedClaimSentOnce'
  <2> SUFFICES ASSUME Inv /\ SavedClaimSentOnce, [Next]_vars PROVE SavedClaimSentOnce'
    OBVIOUS
  <2> USE DEF Inv, TypeOK, CarriedOnce, Arming, JobShape, bounds, history, SavedClaimSentOnce
  <2>1. ASSUME NEW i \in Items, NEW t \in 1..MaxTime, NEW g \in Commands, Create(i, t, g) PROVE SavedClaimSentOnce'
    BY <2>1 DEF Create, Rewrite
  <2>2. ASSUME NEW c \in Callers, NEW i \in Items, NEW t \in 1..MaxTime, NEW g \in Commands, UpdateRead(c, i, t, g) PROVE SavedClaimSentOnce'
    BY <2>2 DEF UpdateRead
  <2>3. ASSUME NEW c \in Callers, UpdateWrite(c) PROVE SavedClaimSentOnce'
    BY <2>3 DEF UpdateWrite, Rewrite
  <2>4. ASSUME NEW i \in Items, Delete(i) PROVE SavedClaimSentOnce'
    BY <2>4 DEF Delete, Rewrite
  <2>5. ASSUME NEW c \in Callers, NEW i \in Items, FireNow(c, i) PROVE SavedClaimSentOnce'
    BY <2>5 DEF FireNow, Claim, Rewrite, Claimable
  <2>6. ASSUME NEW f \in Firers, Refuse(f) PROVE SavedClaimSentOnce'
    BY <2>6 DEF Refuse
  <2>7. ASSUME NEW f \in Firers, StartSend(f) PROVE SavedClaimSentOnce'
    BY <2>7 DEF StartSend
  <2>8. ASSUME NEW f \in Firers, Deliver(f) PROVE SavedClaimSentOnce'
    BY <2>8 DEF Deliver
  <2>9. ASSUME NEW f \in Firers, SendFails(f) PROVE SavedClaimSentOnce'
    BY <2>9 DEF SendFails
  <2>10. ASSUME NEW f \in Firers, Finish(f) PROVE SavedClaimSentOnce'
    BY <2>10 DEF Finish, Rewrite, WritesBack, Outcomes, NextOccurrences
  <2>11. ASSUME NEW f \in Firers, DropOutcome(f) PROVE SavedClaimSentOnce'
    BY <2>11 DEF DropOutcome, WritesBack
  <2>12. CASE TickStart
    BY <2>12 DEF TickStart, Lateness, Latest
  <2>13. CASE GuardsDone
    BY <2>13 DEF GuardsDone
  <2>14. CASE GuardAgain
    BY <2>14 DEF GuardAgain
  <2>15. ASSUME NEW d \in due, TickPasses(d) PROVE SavedClaimSentOnce'
    BY <2>15 DEF TickPasses
  <2>16. ASSUME NEW d \in due, TickClaims(d) PROVE SavedClaimSentOnce'
    BY <2>16 DEF TickClaims, Claim, Rewrite, Claimable
  <2>17. ASSUME NEW x \in Sessions, UserTurn(x) PROVE SavedClaimSentOnce'
    BY <2>17 DEF UserTurn
  <2>18. ASSUME NEW x \in Sessions, TurnEnds(x) PROVE SavedClaimSentOnce'
    BY <2>18 DEF TurnEnds
  <2>19. CASE Tock
    BY <2>19 DEF Tock
  <2>20. CASE Crash
    BY <2>20 DEF Crash
  <2>21. CASE Boot
    BY <2>21 DEF Boot, SweptTo
  <2>22. CASE UNCHANGED vars
    BY <2>22 DEF vars
  <2> QED
    BY <2>1, <2>2, <2>3, <2>4, <2>5, <2>6, <2>7, <2>8, <2>9, <2>10, <2>11, <2>12, <2>13, <2>14, <2>15, <2>16, <2>17, <2>18, <2>19, <2>20, <2>21, <2>22 DEF Next, Requests, FirerStep, TickStep
<1> QED
  BY <1>1, <1>2, InvHolds, PTL DEF Spec

\* A record found Firing while the daemon runs is being fired.
THEOREM FiringOwned == Spec => []FiringHasOwner
<1>1. Init => FiringHasOwner
  BY DEF Init, FiringHasOwner, Absent
<1> QED
  BY <1>1, OwnerStep, InvHolds, PTL DEF Spec

\* What is skipped was skipped by the guard of the claimed record.
THEOREM OwnGuard == Spec => []SkippedByOwnGuard
<1>1. Init => SkipsAreGuarded /\ SkippedByOwnGuard
  BY DEF Init, SkipsAreGuarded, SkippedByOwnGuard, NoJob
<1> QED
  BY <1>1, GuardStep, InvHolds, PTL DEF Spec

\* Two items of one tick aimed at the same idle chat do not collide: what the tick has
\* claimed is not refused because of a prompt the tick has just sent (claim_unless_busy).
THEOREM NoCollision == Spec => []NeighboursDoNotCollide
<1>1. Init => TickFoundIdle
  BY DEF Init, TickFoundIdle, NoJob
<1>2. TickFoundIdle => NeighboursDoNotCollide
  BY DEF TickFoundIdle, NeighboursDoNotCollide
<1> QED
  BY <1>1, <1>2, IdleStep, InvHolds, PTL DEF Spec

\* A step that brings a record back is its creation or an edit under way.
OutcomeKeepsAbsent ==
  \A i \in Items : file[i].status = "absent" /\ file'[i].status # "absent"
    => i \notin known \/ \E c \in Callers : job[c].pc = "edit" /\ job[c].item = i

LEMMA Resurrect == TypeOK /\ [Next]_vars => OutcomeKeepsAbsent
<1> SUFFICES ASSUME TypeOK, [Next]_vars PROVE OutcomeKeepsAbsent
  OBVIOUS
<1> USE DEF TypeOK, OutcomeKeepsAbsent, Absent, bounds, history
<1>1. ASSUME NEW i \in Items, NEW t \in 1..MaxTime, NEW g \in Commands, Create(i, t, g) PROVE OutcomeKeepsAbsent
  BY <1>1 DEF Create, Rewrite
<1>2. ASSUME NEW c \in Callers, NEW i \in Items, NEW t \in 1..MaxTime, NEW g \in Commands, UpdateRead(c, i, t, g) PROVE OutcomeKeepsAbsent
  BY <1>2 DEF UpdateRead
<1>3. ASSUME NEW c \in Callers, UpdateWrite(c) PROVE OutcomeKeepsAbsent
  BY <1>3 DEF UpdateWrite, Rewrite
<1>4. ASSUME NEW i \in Items, Delete(i) PROVE OutcomeKeepsAbsent
  BY <1>4 DEF Delete, Rewrite
<1>5. ASSUME NEW c \in Callers, NEW i \in Items, FireNow(c, i) PROVE OutcomeKeepsAbsent
  BY <1>5 DEF FireNow, Claim, Rewrite, Claimable
<1>6. ASSUME NEW f \in Firers, Refuse(f) PROVE OutcomeKeepsAbsent
  BY <1>6 DEF Refuse
<1>7. ASSUME NEW f \in Firers, StartSend(f) PROVE OutcomeKeepsAbsent
  BY <1>7 DEF StartSend
<1>8. ASSUME NEW f \in Firers, Deliver(f) PROVE OutcomeKeepsAbsent
  BY <1>8 DEF Deliver
<1>9. ASSUME NEW f \in Firers, SendFails(f) PROVE OutcomeKeepsAbsent
  BY <1>9 DEF SendFails
<1>10. ASSUME NEW f \in Firers, Finish(f) PROVE OutcomeKeepsAbsent
  BY <1>10 DEF Finish, Rewrite, WritesBack, Outcomes, NextOccurrences
<1>11. ASSUME NEW f \in Firers, DropOutcome(f) PROVE OutcomeKeepsAbsent
  BY <1>11 DEF DropOutcome, WritesBack
<1>12. CASE TickStart
  BY <1>12 DEF TickStart, Lateness, Latest
<1>13. CASE GuardsDone
  BY <1>13 DEF GuardsDone
<1>14. CASE GuardAgain
  BY <1>14 DEF GuardAgain
<1>15. ASSUME NEW d \in due, TickPasses(d) PROVE OutcomeKeepsAbsent
  BY <1>15 DEF TickPasses
<1>16. ASSUME NEW d \in due, TickClaims(d) PROVE OutcomeKeepsAbsent
  BY <1>16 DEF TickClaims, Claim, Rewrite, Claimable
<1>17. ASSUME NEW x \in Sessions, UserTurn(x) PROVE OutcomeKeepsAbsent
  BY <1>17 DEF UserTurn
<1>18. ASSUME NEW x \in Sessions, TurnEnds(x) PROVE OutcomeKeepsAbsent
  BY <1>18 DEF TurnEnds
<1>19. CASE Tock
  BY <1>19 DEF Tock
<1>20. CASE Crash
  BY <1>20 DEF Crash
<1>21. CASE Boot
  BY <1>21 DEF Boot, SweptTo
<1>22. CASE UNCHANGED vars
  BY <1>22 DEF vars
<1> QED
  BY <1>1, <1>2, <1>3, <1>4, <1>5, <1>6, <1>7, <1>8, <1>9, <1>10, <1>11, <1>12, <1>13, <1>14, <1>15, <1>16, <1>17, <1>18, <1>19, <1>20, <1>21, <1>22 DEF Next, Requests, FirerStep, TickStep

\* No outcome of a firing brings a deleted item back.
THEOREM NeverResurrected == Spec => OutcomeNeverResurrects
<1>1. TypeOK /\ [Next]_vars => [OutcomeKeepsAbsent]_vars
  BY Resurrect
<1> QED
  BY <1>1, TypeCorrect, PTL DEF Spec, OutcomeNeverResurrects, OutcomeKeepsAbsent

===============================================================================
