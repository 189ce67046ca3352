-------------------------- MODULE AfterHold_proofs ---------------------------
(***************************************************************************)
(* What holds of the subs that wait for another one, for every set of subs, *)
(* every order among them, every number of passes and every number of      *)
(* restarts, failures, refusals and follow-ups.                            *)
(***************************************************************************)
EXTENDS AfterHold, TLAPS

-------------------------------------------------------------------------------
(* The parts of the inductive invariant.                                    *)

\* s went through one of these races.
Went(s, races) == excused[s] \cap races # {}

\* A sub that was not registered has no recipe, no launch and no card.
Fresh ==
  \A s \in Subs : row[s] = "none" =>
    s \notin held \cup due \cup sent \cup waits /\ launch[s] = "no" /\ card[s] = "no"

\* Whoever works or finished got the first message, and what follows a finish has
\* its record on disk.
Ran ==
  /\ turn \subseteq sent
  /\ \A s \in Subs : record[s] # "none" => s \in sent
  /\ \A s \in finished : record[s] # "none"
  /\ \A s \in tell : record[s] # "none"
  /\ \A s \in conflictCard : record[s] # "none"
  /\ \A s \in refusedCard : record[s] # "none"
  /\ \A s \in Subs : merges[s] > 0 \/ cont[s] \in {"fin", "tell"} => record[s] # "none"

\* A child that is up has no recipe left, and the first message ends the launch.
Once == StartedOnce /\ \A s \in Subs : launch[s] \in {"up", "dead"} => s \notin held

\* A card beside a launch, or without a recipe, comes from a named race; so does
\* whatever is left of a sub that ended.
CardsOf(s) ==
  /\ card[s] # "no" => (launch[s] = "no" /\ s \in held) \/ Went(s, CardRaces)
  /\ launch[s] \in {"checked", "ready"} => (s \in held /\ row[s] = "sub") \/ "late" \in excused[s]
  /\ launch[s] = "dead" => "late" \in excused[s]
  /\ row[s] = "ended" /\ (card[s] # "no" \/ launch[s] # "no") => Went(s, CardRaces)
  /\ s \in due => card[s] = "no" /\ launch[s] = "no" /\ s \notin waits
Cards == \A s \in Subs : CardsOf(s)

\* While a follow-up is under way its sub is neither finished nor in a turn.
Idle ==
  /\ FinishedIsIdle
  /\ \A s \in Subs : cont[s] # "no" /\ s \in turn \cup finished
                       => Went(s, {"told", "crossed"})

\* A refusal whose sub is finished, or would be again, is handled by somebody.
RefusalOf(s) ==
  s \in unresolved /\ row[s] # "ended" /\ (s \in finished \/ cont[s] = "fin")
    => \/ s \in tell \/ s \in conflictCard \/ s \in refusedCard \/ merges[s] > 0
       \/ "skipped" \in gap[s] \/ "other" \in gap[s]
Refusals == \A s \in Subs : RefusalOf(s)

\* Why the work of t would never come to the target branch.
Lost(t) == "left" \in gap[t] \/ "other" \in gap[t] \/ "restart" \in gap[t]

\* Finished work is in the target, on its way there, refused, or named as lost.
AccountOf(s) ==
  record[s] # "none" /\ row[s] # "ended"
    => s \in landed \/ s \in unresolved \/ merges[s] > 0 \/ Lost(s)
Accounted == \A s \in Subs : AccountOf(s)

\* what a waiter may start without its target's work for, but the skipped card
Pardons == BaseRaces \ {"skipped"}

\* A start that is decided was decided on its target's work.
DecisionOf(s) ==
  After[s] # None /\ Decided(s)
    => After[s] \in landed \/ Went(s, Pardons) \/ Lost(After[s])
DecidedWell == \A s \in Subs : DecisionOf(s)

\* What started, or is about to, caught up with its target's work.
CaughtUp ==
  \A s \in Subs : s \in sent \/ launch[s] \in {"ready", "up", "dead"}
    => s \in based \/ Went(s, Pardons)

-------------------------------------------------------------------------------
(* Every variable keeps its type.                                           *)

LEMMA TypeInit == Init => TypeOK
BY HoldConstants DEF Init, TypeOK

LEMMA TypeOKStep == TypeOK /\ [Next]_vars => TypeOK'
<1> SUFFICES ASSUME TypeOK, [Next]_vars PROVE TypeOK'
  OBVIOUS
<1> USE DEF TypeOK, files, git, process, launches, joe, history, BaseRaces, CardRaces,
         Gaps
<1>1. ASSUME NEW s \in Subs, Register(s) PROVE TypeOK'
  BY <1>1 DEF Register, Excuse, Early
<1>2. ASSUME NEW s \in Subs, RunStart(s) PROVE TypeOK'
  BY <1>2 DEF RunStart, Claim
<1>3. ASSUME NEW s \in Subs, CatchUp(s) PROVE TypeOK'
  <2>1. excused' \in [Subs -> SUBSET (BaseRaces \cup CardRaces \cup {"told", "crossed"})]
    <3>1. CASE After[s] \in landed \cup {None}
      BY <1>3, <3>1 DEF CatchUp
    <3>2. CASE After[s] \notin landed \cup {None}
      <4>1. gap[After[s]] \subseteq BaseRaces
        BY <3>2, HoldConstants
      <4> QED BY <1>3, <3>2, <4>1 DEF CatchUp, Excuse
    <3> QED BY <3>1, <3>2
  <2>2. launch' \in [Subs -> {"no", "checked", "ready", "up", "dead"}]
    BY <1>3 DEF CatchUp
  <2>3. based' \subseteq Subs
    BY <1>3 DEF CatchUp
  <2> QED BY <1>3, <2>1, <2>2, <2>3 DEF CatchUp
<1>4. ASSUME NEW s \in Subs, CatchUpFails(s) PROVE TypeOK'
  BY <1>4 DEF CatchUpFails, Excuse, Trouble
<1>5. ASSUME NEW s \in Subs, LaunchUp(s) PROVE TypeOK'
  BY <1>5 DEF LaunchUp
<1>6. ASSUME NEW s \in Subs, LaunchSend(s) PROVE TypeOK'
  BY <1>6 DEF LaunchSend, Unclaim, Excuse
<1>7. ASSUME NEW s \in Subs, LaunchFails(s) PROVE TypeOK'
  BY <1>7 DEF LaunchFails, LaunchError, Unclaim, Ask, Trouble
<1>8. ASSUME NEW s \in Subs, LaunchSendFails(s) PROVE TypeOK'
  BY <1>8 DEF LaunchSendFails, LaunchError, RecipeBack, Unclaim, Ask, Trouble
<1>9. ASSUME NEW s \in Subs, TurnFinishes(s) PROVE TypeOK'
  BY <1>9 DEF TurnFinishes, Decided
<1>10. ASSUME NEW s \in Subs, TurnStops(s) PROVE TypeOK'
  BY <1>10 DEF TurnStops
<1>11. ASSUME NEW s \in Subs, MergeLands(s) PROVE TypeOK'
  BY <1>11 DEF MergeLands, MergeOver
<1>12. ASSUME NEW s \in Subs, MergeConflicts(s) PROVE TypeOK'
  BY <1>12 DEF MergeConflicts, MergeOver, Trouble
<1>13. ASSUME NEW s \in Subs, MergeRefused(s) PROVE TypeOK'
  BY <1>13 DEF MergeRefused, MergeOver, Trouble
<1>14. ASSUME NEW s \in Subs, MergeFails(s) PROVE TypeOK'
  BY <1>14 DEF MergeFails, MergeOver, Trouble
<1>15. ASSUME NEW s \in Subs, Continue(s) PROVE TypeOK'
  BY <1>15 DEF Continue, Continues, Reopened, Trouble
<1>16. ASSUME NEW s \in Subs, Tell(s) PROVE TypeOK'
  BY <1>16 DEF Tell, Continues, Reopened
<1>17. ASSUME NEW s \in Subs, TellRefused(s) PROVE TypeOK'
  BY <1>17 DEF TellRefused, NotTold, Excuse
<1>18. ASSUME NEW s \in Subs, ContinueUp(s) PROVE TypeOK'
  BY <1>18 DEF ContinueUp
<1>19. ASSUME NEW s \in Subs, ContinueFails(s) PROVE TypeOK'
  BY <1>19 DEF ContinueFails, NotTold, Trouble
<1>20. ASSUME NEW s \in Subs, TryAgain(s) PROVE TypeOK'
  BY <1>20 DEF TryAgain, Reopened
<1>21. ASSUME NEW s \in Subs, MergeAgain(s) PROVE TypeOK'
  BY <1>21 DEF MergeAgain
<1>22. ASSUME NEW s \in Subs, LeaveIt(s) PROVE TypeOK'
  BY <1>22 DEF LeaveIt
<1>23. ASSUME NEW s \in Subs, StartAnyway(s) PROVE TypeOK'
  BY <1>23 DEF StartAnyway, Claim, Excuse
<1>24. ASSUME NEW s \in Subs, SkipCard(s) PROVE TypeOK'
  BY <1>24 DEF SkipCard
<1>25. ASSUME NEW s \in Subs, DropIt(s) PROVE TypeOK'
  BY <1>25 DEF DropIt, End, Excuse
<1>26. ASSUME NEW s \in Subs, EndSub(s) PROVE TypeOK'
  BY <1>26 DEF EndSub, End, Excuse, Trouble
<1>27. ASSUME NEW s \in Subs, NEW p \in Passes, PassTakes(p, s) PROVE TypeOK'
  BY <1>27 DEF PassTakes, HasRecipe, Claim, Ask, Excuse, Early
<1>28. ASSUME NEW p \in Passes, PassStart(p) PROVE TypeOK'
  BY <1>28 DEF PassStart, Snapshot
<1>29. ASSUME Restart PROVE TypeOK'
  BY <1>29 DEF Restart, Trouble
<1>30. ASSUME UNCHANGED vars PROVE TypeOK'
  BY <1>30 DEF vars
<1> QED BY <1>1, <1>2, <1>3, <1>4, <1>5, <1>6, <1>7, <1>8, <1>9, <1>10, <1>11,
         <1>12, <1>13, <1>14, <1>15, <1>16, <1>17, <1>18, <1>19, <1>20, <1>21,
         <1>22, <1>23, <1>24, <1>25, <1>26, <1>27, <1>28, <1>29, <1>30 DEF Next

-------------------------------------------------------------------------------
(* A sub's life, up to its first finish.                                    *)

LEMMA FreshInit == Init => Fresh
BY DEF Init, Fresh

LEMMA FreshStep == TypeOK /\ Fresh /\ Cards /\ [Next]_vars => Fresh'
<1> SUFFICES ASSUME TypeOK, Fresh, Cards, [Next]_vars PROVE Fresh'
  OBVIOUS
<1> USE DEF TypeOK, Fresh, Cards, CardsOf, files, git, process, launches, joe, history
<1>1. ASSUME NEW s \in Subs, Register(s) PROVE Fresh'
  BY <1>1 DEF Register, Excuse, Early
<1>2. ASSUME NEW s \in Subs, RunStart(s) PROVE Fresh'
  BY <1>2 DEF RunStart, Claim
<1>3. ASSUME NEW s \in Subs, CatchUp(s) PROVE Fresh'
  BY <1>3 DEF CatchUp, Excuse
<1>4. ASSUME NEW s \in Subs, CatchUpFails(s) PROVE Fresh'
  BY <1>4 DEF CatchUpFails, Excuse, Trouble
<1>5. ASSUME NEW s \in Subs, LaunchUp(s) PROVE Fresh'
  BY <1>5 DEF LaunchUp
<1>6. ASSUME NEW s \in Subs, LaunchSend(s) PROVE Fresh'
  BY <1>6 DEF LaunchSend, Unclaim, Excuse
<1>7. ASSUME NEW s \in Subs, LaunchFails(s) PROVE Fresh'
  BY <1>7 DEF LaunchFails, LaunchError, Unclaim, Ask, Trouble
<1>8. ASSUME NEW s \in Subs, LaunchSendFails(s) PROVE Fresh'
  BY <1>8 DEF LaunchSendFails, LaunchError, RecipeBack, Unclaim, Ask, Trouble
<1>9. ASSUME NEW s \in Subs, TurnFinishes(s) PROVE Fresh'
  BY <1>9 DEF TurnFinishes, Decided
<1>10. ASSUME NEW s \in Subs, TurnStops(s) PROVE Fresh'
  BY <1>10 DEF TurnStops
<1>11. ASSUME NEW s \in Subs, MergeLands(s) PROVE Fresh'
  BY <1>11 DEF MergeLands, MergeOver
<1>12. ASSUME NEW s \in Subs, MergeConflicts(s) PROVE Fresh'
  BY <1>12 DEF MergeConflicts, MergeOver, Trouble
<1>13. ASSUME NEW s \in Subs, MergeRefused(s) PROVE Fresh'
  BY <1>13 DEF MergeRefused, MergeOver, Trouble
<1>14. ASSUME NEW s \in Subs, MergeFails(s) PROVE Fresh'
  BY <1>14 DEF MergeFails, MergeOver, Trouble
<1>15. ASSUME NEW s \in Subs, Continue(s) PROVE Fresh'
  BY <1>15 DEF Continue, Continues, Reopened, Trouble
<1>16. ASSUME NEW s \in Subs, Tell(s) PROVE Fresh'
  BY <1>16 DEF Tell, Continues, Reopened
<1>17. ASSUME NEW s \in Subs, TellRefused(s) PROVE Fresh'
  BY <1>17 DEF TellRefused, NotTold, Excuse
<1>18. ASSUME NEW s \in Subs, ContinueUp(s) PROVE Fresh'
  BY <1>18 DEF ContinueUp
<1>19. ASSUME NEW s \in Subs, ContinueFails(s) PROVE Fresh'
  BY <1>19 DEF ContinueFails, NotTold, Trouble
<1>20. ASSUME NEW s \in Subs, TryAgain(s) PROVE Fresh'
  BY <1>20 DEF TryAgain, Reopened
<1>21. ASSUME NEW s \in Subs, MergeAgain(s) PROVE Fresh'
  BY <1>21 DEF MergeAgain
<1>22. ASSUME NEW s \in Subs, LeaveIt(s) PROVE Fresh'
  BY <1>22 DEF LeaveIt
<1>23. ASSUME NEW s \in Subs, StartAnyway(s) PROVE Fresh'
  BY <1>23 DEF StartAnyway, Claim, Excuse
<1>24. ASSUME NEW s \in Subs, SkipCard(s) PROVE Fresh'
  BY <1>24 DEF SkipCard
<1>25. ASSUME NEW s \in Subs, DropIt(s) PROVE Fresh'
  BY <1>25 DEF DropIt, End, Excuse
<1>26. ASSUME NEW s \in Subs, EndSub(s) PROVE Fresh'
  BY <1>26 DEF EndSub, End, Excuse, Trouble
<1>27. ASSUME NEW s \in Subs, NEW p \in Passes, PassTakes(p, s) PROVE Fresh'
  BY <1>27 DEF PassTakes, HasRecipe, Claim, Ask, Excuse, Early
<1>28. ASSUME NEW p \in Passes, PassStart(p) PROVE Fresh'
  BY <1>28 DEF PassStart, Snapshot
<1>29. ASSUME Restart PROVE Fresh'
  BY <1>29 DEF Restart, Trouble
<1>30. ASSUME UNCHANGED vars PROVE Fresh'
  BY <1>30 DEF vars
<1> QED BY <1>1, <1>2, <1>3, <1>4, <1>5, <1>6, <1>7, <1>8, <1>9, <1>10, <1>11,
         <1>12, <1>13, <1>14, <1>15, <1>16, <1>17, <1>18, <1>19, <1>20, <1>21,
         <1>22, <1>23, <1>24, <1>25, <1>26, <1>27, <1>28, <1>29, <1>30 DEF Next

LEMMA RanInit == Init => Ran
BY DEF Init, Ran

LEMMA RanStep == TypeOK /\ Ran /\ [Next]_vars => Ran'
<1> SUFFICES ASSUME TypeOK, Ran, [Next]_vars PROVE Ran'
  OBVIOUS
<1> USE DEF TypeOK, Ran, files, git, process, launches, joe, history
<1>1. ASSUME NEW s \in Subs, Register(s) PROVE Ran'
  BY <1>1 DEF Register, Excuse, Early
<1>2. ASSUME NEW s \in Subs, RunStart(s) PROVE Ran'
  BY <1>2 DEF RunStart, Claim
<1>3. ASSUME NEW s \in Subs, CatchUp(s) PROVE Ran'
  BY <1>3 DEF CatchUp, Excuse
<1>4. ASSUME NEW s \in Subs, CatchUpFails(s) PROVE Ran'
  BY <1>4 DEF CatchUpFails, Excuse, Trouble
<1>5. ASSUME NEW s \in Subs, LaunchUp(s) PROVE Ran'
  BY <1>5 DEF LaunchUp
<1>6. ASSUME NEW s \in Subs, LaunchSend(s) PROVE Ran'
  BY <1>6 DEF LaunchSend, Unclaim, Excuse
<1>7. ASSUME NEW s \in Subs, LaunchFails(s) PROVE Ran'
  BY <1>7 DEF LaunchFails, LaunchError, Unclaim, Ask, Trouble
<1>8. ASSUME NEW s \in Subs, LaunchSendFails(s) PROVE Ran'
  BY <1>8 DEF LaunchSendFails, LaunchError, RecipeBack, Unclaim, Ask, Trouble
<1>9. ASSUME NEW s \in Subs, TurnFinishes(s) PROVE Ran'
  BY <1>9 DEF TurnFinishes, Decided
<1>10. ASSUME NEW s \in Subs, TurnStops(s) PROVE Ran'
  BY <1>10 DEF TurnStops
<1>11. ASSUME NEW s \in Subs, MergeLands(s) PROVE Ran'
  BY <1>11 DEF MergeLands, MergeOver
<1>12. ASSUME NEW s \in Subs, MergeConflicts(s) PROVE Ran'
  BY <1>12 DEF MergeConflicts, MergeOver, Trouble
<1>13. ASSUME NEW s \in Subs, MergeRefused(s) PROVE Ran'
  BY <1>13 DEF MergeRefused, MergeOver, Trouble
<1>14. ASSUME NEW s \in Subs, MergeFails(s) PROVE Ran'
  BY <1>14 DEF MergeFails, MergeOver, Trouble
<1>15. ASSUME NEW s \in Subs, Continue(s) PROVE Ran'
  BY <1>15 DEF Continue, Continues, Reopened, Trouble
<1>16. ASSUME NEW s \in Subs, Tell(s) PROVE Ran'
  BY <1>16 DEF Tell, Continues, Reopened
<1>17. ASSUME NEW s \in Subs, TellRefused(s) PROVE Ran'
  BY <1>17 DEF TellRefused, NotTold, Excuse
<1>18. ASSUME NEW s \in Subs, ContinueUp(s) PROVE Ran'
  BY <1>18 DEF ContinueUp
<1>19. ASSUME NEW s \in Subs, ContinueFails(s) PROVE Ran'
  BY <1>19 DEF ContinueFails, NotTold, Trouble
<1>20. ASSUME NEW s \in Subs, TryAgain(s) PROVE Ran'
  BY <1>20 DEF TryAgain, Reopened
<1>21. ASSUME NEW s \in Subs, MergeAgain(s) PROVE Ran'
  BY <1>21 DEF MergeAgain
<1>22. ASSUME NEW s \in Subs, LeaveIt(s) PROVE Ran'
  BY <1>22 DEF LeaveIt
<1>23. ASSUME NEW s \in Subs, StartAnyway(s) PROVE Ran'
  BY <1>23 DEF StartAnyway, Claim, Excuse
<1>24. ASSUME NEW s \in Subs, SkipCard(s) PROVE Ran'
  BY <1>24 DEF SkipCard
<1>25. ASSUME NEW s \in Subs, DropIt(s) PROVE Ran'
  BY <1>25 DEF DropIt, End, Excuse
<1>26. ASSUME NEW s \in Subs, EndSub(s) PROVE Ran'
  BY <1>26 DEF EndSub, End, Excuse, Trouble
<1>27. ASSUME NEW s \in Subs, NEW p \in Passes, PassTakes(p, s) PROVE Ran'
  BY <1>27 DEF PassTakes, HasRecipe, Claim, Ask, Excuse, Early
<1>28. ASSUME NEW p \in Passes, PassStart(p) PROVE Ran'
  BY <1>28 DEF PassStart, Snapshot
<1>29. ASSUME Restart PROVE Ran'
  BY <1>29 DEF Restart, Trouble
<1>30. ASSUME UNCHANGED vars PROVE Ran'
  BY <1>30 DEF vars
<1> QED BY <1>1, <1>2, <1>3, <1>4, <1>5, <1>6, <1>7, <1>8, <1>9, <1>10, <1>11,
         <1>12, <1>13, <1>14, <1>15, <1>16, <1>17, <1>18, <1>19, <1>20, <1>21,
         <1>22, <1>23, <1>24, <1>25, <1>26, <1>27, <1>28, <1>29, <1>30 DEF Next

LEMMA OnceInit == Init => Once
BY DEF Init, Once, StartedOnce

LEMMA OnceStep == TypeOK /\ Fresh /\ Once /\ [Next]_vars => Once'
<1> SUFFICES ASSUME TypeOK, Fresh, Once, [Next]_vars PROVE Once'
  OBVIOUS
<1> USE DEF TypeOK, Fresh, Once, StartedOnce, files, git, process, launches, joe,
         history
<1>1. ASSUME NEW s \in Subs, Register(s) PROVE Once'
  BY <1>1 DEF Register, Excuse, Early
<1>2. ASSUME NEW s \in Subs, RunStart(s) PROVE Once'
  BY <1>2 DEF RunStart, Claim
<1>3. ASSUME NEW s \in Subs, CatchUp(s) PROVE Once'
  BY <1>3 DEF CatchUp, Excuse
<1>4. ASSUME NEW s \in Subs, CatchUpFails(s) PROVE Once'
  BY <1>4 DEF CatchUpFails, Excuse, Trouble
<1>5. ASSUME NEW s \in Subs, LaunchUp(s) PROVE Once'
  BY <1>5 DEF LaunchUp
<1>6. ASSUME NEW s \in Subs, LaunchSend(s) PROVE Once'
  BY <1>6 DEF LaunchSend, Unclaim, Excuse
<1>7. ASSUME NEW s \in Subs, LaunchFails(s) PROVE Once'
  BY <1>7 DEF LaunchFails, LaunchError, Unclaim, Ask, Trouble
<1>8. ASSUME NEW s \in Subs, LaunchSendFails(s) PROVE Once'
  BY <1>8 DEF LaunchSendFails, LaunchError, RecipeBack, Unclaim, Ask, Trouble
<1>9. ASSUME NEW s \in Subs, TurnFinishes(s) PROVE Once'
  BY <1>9 DEF TurnFinishes, Decided
<1>10. ASSUME NEW s \in Subs, TurnStops(s) PROVE Once'
  BY <1>10 DEF TurnStops
<1>11. ASSUME NEW s \in Subs, MergeLands(s) PROVE Once'
  BY <1>11 DEF MergeLands, MergeOver
<1>12. ASSUME NEW s \in Subs, MergeConflicts(s) PROVE Once'
  BY <1>12 DEF MergeConflicts, MergeOver, Trouble
<1>13. ASSUME NEW s \in Subs, MergeRefused(s) PROVE Once'
  BY <1>13 DEF MergeRefused, MergeOver, Trouble
<1>14. ASSUME NEW s \in Subs, MergeFails(s) PROVE Once'
  BY <1>14 DEF MergeFails, MergeOver, Trouble
<1>15. ASSUME NEW s \in Subs, Continue(s) PROVE Once'
  BY <1>15 DEF Continue, Continues, Reopened, Trouble
<1>16. ASSUME NEW s \in Subs, Tell(s) PROVE Once'
  BY <1>16 DEF Tell, Continues, Reopened
<1>17. ASSUME NEW s \in Subs, TellRefused(s) PROVE Once'
  BY <1>17 DEF TellRefused, NotTold, Excuse
<1>18. ASSUME NEW s \in Subs, ContinueUp(s) PROVE Once'
  BY <1>18 DEF ContinueUp
<1>19. ASSUME NEW s \in Subs, ContinueFails(s) PROVE Once'
  BY <1>19 DEF ContinueFails, NotTold, Trouble
<1>20. ASSUME NEW s \in Subs, TryAgain(s) PROVE Once'
  BY <1>20 DEF TryAgain, Reopened
<1>21. ASSUME NEW s \in Subs, MergeAgain(s) PROVE Once'
  BY <1>21 DEF MergeAgain
<1>22. ASSUME NEW s \in Subs, LeaveIt(s) PROVE Once'
  BY <1>22 DEF LeaveIt
<1>23. ASSUME NEW s \in Subs, StartAnyway(s) PROVE Once'
  BY <1>23 DEF StartAnyway, Claim, Excuse
<1>24. ASSUME NEW s \in Subs, SkipCard(s) PROVE Once'
  BY <1>24 DEF SkipCard
<1>25. ASSUME NEW s \in Subs, DropIt(s) PROVE Once'
  BY <1>25 DEF DropIt, End, Excuse
<1>26. ASSUME NEW s \in Subs, EndSub(s) PROVE Once'
  BY <1>26 DEF EndSub, End, Excuse, Trouble
<1>27. ASSUME NEW s \in Subs, NEW p \in Passes, PassTakes(p, s) PROVE Once'
  BY <1>27 DEF PassTakes, HasRecipe, Claim, Ask, Excuse, Early
<1>28. ASSUME NEW p \in Passes, PassStart(p) PROVE Once'
  BY <1>28 DEF PassStart, Snapshot
<1>29. ASSUME Restart PROVE Once'
  BY <1>29 DEF Restart, Trouble
<1>30. ASSUME UNCHANGED vars PROVE Once'
  BY <1>30 DEF vars
<1> QED BY <1>1, <1>2, <1>3, <1>4, <1>5, <1>6, <1>7, <1>8, <1>9, <1>10, <1>11,
         <1>12, <1>13, <1>14, <1>15, <1>16, <1>17, <1>18, <1>19, <1>20, <1>21,
         <1>22, <1>23, <1>24, <1>25, <1>26, <1>27, <1>28, <1>29, <1>30 DEF Next

-------------------------------------------------------------------------------
(* The card.                                                                *)

LEMMA CardsInit == Init => Cards
BY DEF Init, Cards, CardsOf, Went

LEMMA CardsStep == TypeOK /\ Fresh /\ Once /\ Cards /\ [Next]_vars => Cards'
<1> SUFFICES ASSUME TypeOK, Fresh, Once, Cards, [Next]_vars PROVE Cards'
  OBVIOUS
<1> USE DEF TypeOK, Fresh, Once, Cards, CardsOf, Went, CardRaces, BaseRaces, files,
         git, process, launches, joe, history
<1>1. ASSUME NEW s \in Subs, Register(s) PROVE Cards'
  BY <1>1 DEF Register, Excuse, Early
<1>2. ASSUME NEW s \in Subs, RunStart(s) PROVE Cards'
  BY <1>2 DEF RunStart, Claim
<1>3. ASSUME NEW s \in Subs, CatchUp(s) PROVE Cards'
  BY <1>3 DEF CatchUp, Excuse
<1>4. ASSUME NEW s \in Subs, CatchUpFails(s) PROVE Cards'
  BY <1>4 DEF CatchUpFails, Excuse, Trouble
<1>5. ASSUME NEW s \in Subs, LaunchUp(s) PROVE Cards'
  BY <1>5 DEF LaunchUp
<1>6. ASSUME NEW s \in Subs, LaunchSend(s) PROVE Cards'
  BY <1>6 DEF LaunchSend, Unclaim, Excuse
<1>7. ASSUME NEW s \in Subs, LaunchFails(s) PROVE Cards'
  BY <1>7 DEF LaunchFails, LaunchError, Unclaim, Ask, Trouble
<1>8. ASSUME NEW s \in Subs, LaunchSendFails(s) PROVE Cards'
  BY <1>8 DEF LaunchSendFails, LaunchError, RecipeBack, Unclaim, Ask, Trouble
<1>9. ASSUME NEW s \in Subs, TurnFinishes(s) PROVE Cards'
  BY <1>9 DEF TurnFinishes, Decided
<1>10. ASSUME NEW s \in Subs, TurnStops(s) PROVE Cards'
  BY <1>10 DEF TurnStops
<1>11. ASSUME NEW s \in Subs, MergeLands(s) PROVE Cards'
  BY <1>11 DEF MergeLands, MergeOver
<1>12. ASSUME NEW s \in Subs, MergeConflicts(s) PROVE Cards'
  BY <1>12 DEF MergeConflicts, MergeOver, Trouble
<1>13. ASSUME NEW s \in Subs, MergeRefused(s) PROVE Cards'
  BY <1>13 DEF MergeRefused, MergeOver, Trouble
<1>14. ASSUME NEW s \in Subs, MergeFails(s) PROVE Cards'
  BY <1>14 DEF MergeFails, MergeOver, Trouble
<1>15. ASSUME NEW s \in Subs, Continue(s) PROVE Cards'
  BY <1>15 DEF Continue, Continues, Reopened, Trouble
<1>16. ASSUME NEW s \in Subs, Tell(s) PROVE Cards'
  BY <1>16 DEF Tell, Continues, Reopened
<1>17. ASSUME NEW s \in Subs, TellRefused(s) PROVE Cards'
  BY <1>17 DEF TellRefused, NotTold, Excuse
<1>18. ASSUME NEW s \in Subs, ContinueUp(s) PROVE Cards'
  BY <1>18 DEF ContinueUp
<1>19. ASSUME NEW s \in Subs, ContinueFails(s) PROVE Cards'
  BY <1>19 DEF ContinueFails, NotTold, Trouble
<1>20. ASSUME NEW s \in Subs, TryAgain(s) PROVE Cards'
  BY <1>20 DEF TryAgain, Reopened
<1>21. ASSUME NEW s \in Subs, MergeAgain(s) PROVE Cards'
  BY <1>21 DEF MergeAgain
<1>22. ASSUME NEW s \in Subs, LeaveIt(s) PROVE Cards'
  BY <1>22 DEF LeaveIt
<1>23. ASSUME NEW s \in Subs, StartAnyway(s) PROVE Cards'
  BY <1>23 DEF StartAnyway, Claim, Excuse
<1>24. ASSUME NEW s \in Subs, SkipCard(s) PROVE Cards'
  BY <1>24 DEF SkipCard
<1>25. ASSUME NEW s \in Subs, DropIt(s) PROVE Cards'
  BY <1>25 DEF DropIt, End, Excuse
<1>26. ASSUME NEW s \in Subs, EndSub(s) PROVE Cards'
  BY <1>26 DEF EndSub, End, Excuse, Trouble
<1>27. ASSUME NEW s \in Subs, NEW p \in Passes, PassTakes(p, s) PROVE Cards'
  <2> SUFFICES ASSUME NEW t \in Subs PROVE CardsOf(t)'
    OBVIOUS
  <2>1. \A u \in Subs : excused[u] \subseteq excused'[u]
    BY <1>27 DEF PassTakes, Excuse
  <2>2. due' = due /\ row' = row /\ waits' = waits
    BY <1>27 DEF PassTakes
  <2>3. CASE t # s
    <3>1. card'[t] = card[t] /\ launch'[t] = launch[t] /\ (t \in held' <=> t \in held)
      BY <1>27, <2>3 DEF PassTakes, Claim, Ask
    <3> QED BY <2>1, <2>2, <3>1
  <2>4. CASE t = s
    <3>1. CASE row[s] = "ended" /\ held' = held \ {s} /\ UNCHANGED <<launch, by, card, parked, excused>>
      BY <2>2, <2>4, <3>1
    <3>2. CASE UNCHANGED <<held, launch, by, card, parked, excused>>
      BY <2>2, <2>4, <3>2
    <3>3. CASE /\ row[s] = "sub" /\ s \in waits /\ card' = Ask(s, "blocked")
               /\ excused' = Excuse(s, IF launch[s] # "no" THEN {"beside"}
                                ELSE IF s \in held THEN {} ELSE {"stale"})
               /\ UNCHANGED <<held, launch>>
      <4>1. (launch[s] = "no" /\ s \in held) \/ Went(s, CardRaces)'
        BY <3>3 DEF Excuse
      <4>2. s \notin due
        BY <2>2, <3>3
      <4> QED BY <2>1, <2>2, <2>4, <3>3, <4>1, <4>2 DEF Ask
    <3>4. CASE /\ row[s] = "sub" /\ s \in waits /\ launch[s] = "no" /\ s \in held /\ Claim(s, p)
               /\ excused' = Excuse(s, Early(s) \cup
                              (IF card[s] = "no" THEN {} ELSE {"beside"}))
               /\ UNCHANGED <<held, card>>
      <4>1. card[s] # "no" => Went(s, CardRaces)'
        BY <3>4 DEF Excuse
      <4>2. s \notin due /\ launch'[s] = "checked"
        BY <3>4 DEF Claim
      <4> QED BY <2>1, <2>2, <2>4, <3>4, <4>1, <4>2
    <3>5. CASE /\ row[s] = "sub" /\ s \in waits /\ card' = Ask(s, "failed")
               /\ excused' = Excuse(s, {"stale"}) /\ UNCHANGED <<held, launch>>
      <4>1. Went(s, CardRaces)'
        BY <3>5 DEF Excuse
      <4> QED BY <2>1, <2>2, <2>4, <3>5, <4>1 DEF Ask
    <3> QED BY <1>27, <3>1, <3>2, <3>3, <3>4, <3>5 DEF PassTakes, HasRecipe
  <2> QED BY <2>3, <2>4
<1>28. ASSUME NEW p \in Passes, PassStart(p) PROVE Cards'
  BY <1>28 DEF PassStart, Snapshot
<1>29. ASSUME Restart PROVE Cards'
  BY <1>29 DEF Restart, Trouble
<1>30. ASSUME UNCHANGED vars PROVE Cards'
  BY <1>30 DEF vars
<1> QED BY <1>1, <1>2, <1>3, <1>4, <1>5, <1>6, <1>7, <1>8, <1>9, <1>10, <1>11,
         <1>12, <1>13, <1>14, <1>15, <1>16, <1>17, <1>18, <1>19, <1>20, <1>21,
         <1>22, <1>23, <1>24, <1>25, <1>26, <1>27, <1>28, <1>29, <1>30 DEF Next

-------------------------------------------------------------------------------
(* Finishes and refusals.                                                   *)

LEMMA IdleInit == Init => Idle
BY DEF Init, Idle, FinishedIsIdle

LEMMA IdleStep == TypeOK /\ Ran /\ Once /\ Idle /\ [Next]_vars => Idle'
<1> SUFFICES ASSUME TypeOK, Ran, Once, Idle, [Next]_vars PROVE Idle'
  OBVIOUS
<1> USE DEF TypeOK, Ran, Once, StartedOnce, Idle, FinishedIsIdle, Went, BaseRaces,
         CardRaces, files, git, process, launches, joe, history
<1>1. ASSUME NEW s \in Subs, Register(s) PROVE Idle'
  BY <1>1 DEF Register, Excuse, Early
<1>2. ASSUME NEW s \in Subs, RunStart(s) PROVE Idle'
  BY <1>2 DEF RunStart, Claim
<1>3. ASSUME NEW s \in Subs, CatchUp(s) PROVE Idle'
  BY <1>3 DEF CatchUp, Excuse
<1>4. ASSUME NEW s \in Subs, CatchUpFails(s) PROVE Idle'
  BY <1>4 DEF CatchUpFails, Excuse, Trouble
<1>5. ASSUME NEW s \in Subs, LaunchUp(s) PROVE Idle'
  BY <1>5 DEF LaunchUp
<1>6. ASSUME NEW s \in Subs, LaunchSend(s) PROVE Idle'
  <2>1. s \notin finished /\ launch[s] = "up"
    BY <1>6 DEF LaunchSend
  <2>2. CASE cont[s] = "no"
    BY <1>6, <2>1, <2>2 DEF LaunchSend, Unclaim
  <2>3. CASE cont[s] # "no"
    <3>1. excused' = [excused EXCEPT ![s] = @ \cup {"crossed"}]
      BY <1>6, <2>3 DEF LaunchSend, Excuse
    <3>2. \A t \in Subs : Went(t, {"told", "crossed"}) => Went(t, {"told", "crossed"})'
      BY <3>1
    <3>3. Went(s, {"told", "crossed"})'
      BY <3>1
    <3>4. turn' = turn \cup {s} /\ finished' = finished /\ cont' = cont
      BY <1>6 DEF LaunchSend
    <3> QED BY <3>2, <3>3, <3>4
  <2> QED BY <2>2, <2>3
<1>7. ASSUME NEW s \in Subs, LaunchFails(s) PROVE Idle'
  BY <1>7 DEF LaunchFails, LaunchError, Unclaim, Ask, Trouble
<1>8. ASSUME NEW s \in Subs, LaunchSendFails(s) PROVE Idle'
  BY <1>8 DEF LaunchSendFails, LaunchError, RecipeBack, Unclaim, Ask, Trouble
<1>9. ASSUME NEW s \in Subs, TurnFinishes(s) PROVE Idle'
  BY <1>9 DEF TurnFinishes, Decided
<1>10. ASSUME NEW s \in Subs, TurnStops(s) PROVE Idle'
  BY <1>10 DEF TurnStops
<1>11. ASSUME NEW s \in Subs, MergeLands(s) PROVE Idle'
  BY <1>11 DEF MergeLands, MergeOver
<1>12. ASSUME NEW s \in Subs, MergeConflicts(s) PROVE Idle'
  BY <1>12 DEF MergeConflicts, MergeOver, Trouble
<1>13. ASSUME NEW s \in Subs, MergeRefused(s) PROVE Idle'
  BY <1>13 DEF MergeRefused, MergeOver, Trouble
<1>14. ASSUME NEW s \in Subs, MergeFails(s) PROVE Idle'
  BY <1>14 DEF MergeFails, MergeOver, Trouble
<1>15. ASSUME NEW s \in Subs, Continue(s) PROVE Idle'
  BY <1>15 DEF Continue, Continues, Reopened, Trouble
<1>16. ASSUME NEW s \in Subs, Tell(s) PROVE Idle'
  BY <1>16 DEF Tell, Continues, Reopened
<1>17. ASSUME NEW s \in Subs, TellRefused(s) PROVE Idle'
  <2>1. excused' = [excused EXCEPT ![s] = @ \cup {"told"}]
    BY <1>17 DEF TellRefused, Excuse
  <2>2. \A t \in Subs : Went(t, {"told", "crossed"}) => Went(t, {"told", "crossed"})'
    BY <2>1
  <2>3. Went(s, {"told", "crossed"})'
    BY <2>1
  <2>4. turn' = turn /\ finished' = finished \cup {s} /\ cont' = cont
    BY <1>17 DEF TellRefused, NotTold
  <2> QED BY <2>2, <2>3, <2>4
<1>18. ASSUME NEW s \in Subs, ContinueUp(s) PROVE Idle'
  BY <1>18 DEF ContinueUp
<1>19. ASSUME NEW s \in Subs, ContinueFails(s) PROVE Idle'
  BY <1>19 DEF ContinueFails, NotTold, Trouble
<1>20. ASSUME NEW s \in Subs, TryAgain(s) PROVE Idle'
  BY <1>20 DEF TryAgain, Reopened
<1>21. ASSUME NEW s \in Subs, MergeAgain(s) PROVE Idle'
  BY <1>21 DEF MergeAgain
<1>22. ASSUME NEW s \in Subs, LeaveIt(s) PROVE Idle'
  BY <1>22 DEF LeaveIt
<1>23. ASSUME NEW s \in Subs, StartAnyway(s) PROVE Idle'
  BY <1>23 DEF StartAnyway, Claim, Excuse
<1>24. ASSUME NEW s \in Subs, SkipCard(s) PROVE Idle'
  BY <1>24 DEF SkipCard
<1>25. ASSUME NEW s \in Subs, DropIt(s) PROVE Idle'
  BY <1>25 DEF DropIt, End, Excuse
<1>26. ASSUME NEW s \in Subs, EndSub(s) PROVE Idle'
  BY <1>26 DEF EndSub, End, Excuse, Trouble
<1>27. ASSUME NEW s \in Subs, NEW p \in Passes, PassTakes(p, s) PROVE Idle'
  BY <1>27 DEF PassTakes, HasRecipe, Claim, Ask, Excuse, Early
<1>28. ASSUME NEW p \in Passes, PassStart(p) PROVE Idle'
  BY <1>28 DEF PassStart, Snapshot
<1>29. ASSUME Restart PROVE Idle'
  BY <1>29 DEF Restart, Trouble
<1>30. ASSUME UNCHANGED vars PROVE Idle'
  BY <1>30 DEF vars
<1> QED BY <1>1, <1>2, <1>3, <1>4, <1>5, <1>6, <1>7, <1>8, <1>9, <1>10, <1>11,
         <1>12, <1>13, <1>14, <1>15, <1>16, <1>17, <1>18, <1>19, <1>20, <1>21,
         <1>22, <1>23, <1>24, <1>25, <1>26, <1>27, <1>28, <1>29, <1>30 DEF Next

LEMMA RefusalsInit == Init => Refusals
BY DEF Init, Refusals, RefusalOf

LEMMA RefusalsStep == TypeOK /\ Refusals /\ [Next]_vars => Refusals'
<1> SUFFICES ASSUME TypeOK, Refusals, [Next]_vars PROVE Refusals'
  OBVIOUS
<1> USE DEF TypeOK, Refusals, RefusalOf, files, git, process, launches, joe, history
<1>1. ASSUME NEW s \in Subs, Register(s) PROVE Refusals'
  BY <1>1 DEF Register, Excuse, Early
<1>2. ASSUME NEW s \in Subs, RunStart(s) PROVE Refusals'
  BY <1>2 DEF RunStart, Claim
<1>3. ASSUME NEW s \in Subs, CatchUp(s) PROVE Refusals'
  BY <1>3 DEF CatchUp, Excuse
<1>4. ASSUME NEW s \in Subs, CatchUpFails(s) PROVE Refusals'
  BY <1>4 DEF CatchUpFails, Excuse, Trouble
<1>5. ASSUME NEW s \in Subs, LaunchUp(s) PROVE Refusals'
  BY <1>5 DEF LaunchUp
<1>6. ASSUME NEW s \in Subs, LaunchSend(s) PROVE Refusals'
  BY <1>6 DEF LaunchSend, Unclaim, Excuse
<1>7. ASSUME NEW s \in Subs, LaunchFails(s) PROVE Refusals'
  BY <1>7 DEF LaunchFails, LaunchError, Unclaim, Ask, Trouble
<1>8. ASSUME NEW s \in Subs, LaunchSendFails(s) PROVE Refusals'
  BY <1>8 DEF LaunchSendFails, LaunchError, RecipeBack, Unclaim, Ask, Trouble
<1>9. ASSUME NEW s \in Subs, TurnFinishes(s) PROVE Refusals'
  BY <1>9 DEF TurnFinishes, Decided
<1>10. ASSUME NEW s \in Subs, TurnStops(s) PROVE Refusals'
  BY <1>10 DEF TurnStops
<1>11. ASSUME NEW s \in Subs, MergeLands(s) PROVE Refusals'
  BY <1>11 DEF MergeLands, MergeOver
<1>12. ASSUME NEW s \in Subs, MergeConflicts(s) PROVE Refusals'
  BY <1>12 DEF MergeConflicts, MergeOver, Trouble
<1>13. ASSUME NEW s \in Subs, MergeRefused(s) PROVE Refusals'
  BY <1>13 DEF MergeRefused, MergeOver, Trouble
<1>14. ASSUME NEW s \in Subs, MergeFails(s) PROVE Refusals'
  BY <1>14 DEF MergeFails, MergeOver, Trouble
<1>15. ASSUME NEW s \in Subs, Continue(s) PROVE Refusals'
  BY <1>15 DEF Continue, Continues, Reopened, Trouble
<1>16. ASSUME NEW s \in Subs, Tell(s) PROVE Refusals'
  BY <1>16 DEF Tell, Continues, Reopened
<1>17. ASSUME NEW s \in Subs, TellRefused(s) PROVE Refusals'
  BY <1>17 DEF TellRefused, NotTold, Excuse
<1>18. ASSUME NEW s \in Subs, ContinueUp(s) PROVE Refusals'
  BY <1>18 DEF ContinueUp
<1>19. ASSUME NEW s \in Subs, ContinueFails(s) PROVE Refusals'
  BY <1>19 DEF ContinueFails, NotTold, Trouble
<1>20. ASSUME NEW s \in Subs, TryAgain(s) PROVE Refusals'
  BY <1>20 DEF TryAgain, Reopened
<1>21. ASSUME NEW s \in Subs, MergeAgain(s) PROVE Refusals'
  BY <1>21 DEF MergeAgain
<1>22. ASSUME NEW s \in Subs, LeaveIt(s) PROVE Refusals'
  <2> SUFFICES ASSUME NEW t \in Subs PROVE RefusalOf(t)'
    OBVIOUS
  <2>1. CASE t = s
    BY <1>22, <2>1 DEF LeaveIt
  <2>2. CASE t # s
    BY <1>22, <2>2 DEF LeaveIt
  <2> QED BY <2>1, <2>2
<1>23. ASSUME NEW s \in Subs, StartAnyway(s) PROVE Refusals'
  BY <1>23 DEF StartAnyway, Claim, Excuse
<1>24. ASSUME NEW s \in Subs, SkipCard(s) PROVE Refusals'
  BY <1>24 DEF SkipCard
<1>25. ASSUME NEW s \in Subs, DropIt(s) PROVE Refusals'
  BY <1>25 DEF DropIt, End, Excuse
<1>26. ASSUME NEW s \in Subs, EndSub(s) PROVE Refusals'
  BY <1>26 DEF EndSub, End, Excuse, Trouble
<1>27. ASSUME NEW s \in Subs, NEW p \in Passes, PassTakes(p, s) PROVE Refusals'
  BY <1>27 DEF PassTakes, HasRecipe, Claim, Ask, Excuse, Early
<1>28. ASSUME NEW p \in Passes, PassStart(p) PROVE Refusals'
  BY <1>28 DEF PassStart, Snapshot
<1>29. ASSUME Restart PROVE Refusals'
  BY <1>29 DEF Restart, Trouble
<1>30. ASSUME UNCHANGED vars PROVE Refusals'
  BY <1>30 DEF vars
<1> QED BY <1>1, <1>2, <1>3, <1>4, <1>5, <1>6, <1>7, <1>8, <1>9, <1>10, <1>11,
         <1>12, <1>13, <1>14, <1>15, <1>16, <1>17, <1>18, <1>19, <1>20, <1>21,
         <1>22, <1>23, <1>24, <1>25, <1>26, <1>27, <1>28, <1>29, <1>30 DEF Next

-------------------------------------------------------------------------------
(* The base.                                                                *)

LEMMA AccountedInit == Init => Accounted
BY DEF Init, Accounted, AccountOf

LEMMA AccountedStep == TypeOK /\ Ran /\ Accounted /\ [Next]_vars => Accounted'
<1> SUFFICES ASSUME TypeOK, Ran, Accounted, [Next]_vars PROVE Accounted'
  OBVIOUS
<1> USE DEF TypeOK, Ran, Accounted, AccountOf, Lost, files, git, process, launches,
         joe, history
<1>1. ASSUME NEW s \in Subs, Register(s) PROVE Accounted'
  BY <1>1 DEF Register, Excuse, Early
<1>2. ASSUME NEW s \in Subs, RunStart(s) PROVE Accounted'
  BY <1>2 DEF RunStart, Claim
<1>3. ASSUME NEW s \in Subs, CatchUp(s) PROVE Accounted'
  BY <1>3 DEF CatchUp, Excuse
<1>4. ASSUME NEW s \in Subs, CatchUpFails(s) PROVE Accounted'
  BY <1>4 DEF CatchUpFails, Excuse, Trouble
<1>5. ASSUME NEW s \in Subs, LaunchUp(s) PROVE Accounted'
  BY <1>5 DEF LaunchUp
<1>6. ASSUME NEW s \in Subs, LaunchSend(s) PROVE Accounted'
  BY <1>6 DEF LaunchSend, Unclaim, Excuse
<1>7. ASSUME NEW s \in Subs, LaunchFails(s) PROVE Accounted'
  BY <1>7 DEF LaunchFails, LaunchError, Unclaim, Ask, Trouble
<1>8. ASSUME NEW s \in Subs, LaunchSendFails(s) PROVE Accounted'
  BY <1>8 DEF LaunchSendFails, LaunchError, RecipeBack, Unclaim, Ask, Trouble
<1>9. ASSUME NEW s \in Subs, TurnFinishes(s) PROVE Accounted'
  BY <1>9 DEF TurnFinishes, Decided
<1>10. ASSUME NEW s \in Subs, TurnStops(s) PROVE Accounted'
  BY <1>10 DEF TurnStops
<1>11. ASSUME NEW s \in Subs, MergeLands(s) PROVE Accounted'
  BY <1>11 DEF MergeLands, MergeOver
<1>12. ASSUME NEW s \in Subs, MergeConflicts(s) PROVE Accounted'
  BY <1>12 DEF MergeConflicts, MergeOver, Trouble
<1>13. ASSUME NEW s \in Subs, MergeRefused(s) PROVE Accounted'
  BY <1>13 DEF MergeRefused, MergeOver, Trouble
<1>14. ASSUME NEW s \in Subs, MergeFails(s) PROVE Accounted'
  BY <1>14 DEF MergeFails, MergeOver, Trouble
<1>15. ASSUME NEW s \in Subs, Continue(s) PROVE Accounted'
  BY <1>15 DEF Continue, Continues, Reopened, Trouble
<1>16. ASSUME NEW s \in Subs, Tell(s) PROVE Accounted'
  BY <1>16 DEF Tell, Continues, Reopened
<1>17. ASSUME NEW s \in Subs, TellRefused(s) PROVE Accounted'
  BY <1>17 DEF TellRefused, NotTold, Excuse
<1>18. ASSUME NEW s \in Subs, ContinueUp(s) PROVE Accounted'
  BY <1>18 DEF ContinueUp
<1>19. ASSUME NEW s \in Subs, ContinueFails(s) PROVE Accounted'
  BY <1>19 DEF ContinueFails, NotTold, Trouble
<1>20. ASSUME NEW s \in Subs, TryAgain(s) PROVE Accounted'
  BY <1>20 DEF TryAgain, Reopened
<1>21. ASSUME NEW s \in Subs, MergeAgain(s) PROVE Accounted'
  BY <1>21 DEF MergeAgain
<1>22. ASSUME NEW s \in Subs, LeaveIt(s) PROVE Accounted'
  <2> SUFFICES ASSUME NEW t \in Subs PROVE AccountOf(t)'
    OBVIOUS
  <2>1. CASE t = s
    BY <1>22, <2>1 DEF LeaveIt
  <2>2. CASE t # s
    BY <1>22, <2>2 DEF LeaveIt
  <2> QED BY <2>1, <2>2
<1>23. ASSUME NEW s \in Subs, StartAnyway(s) PROVE Accounted'
  BY <1>23 DEF StartAnyway, Claim, Excuse
<1>24. ASSUME NEW s \in Subs, SkipCard(s) PROVE Accounted'
  BY <1>24 DEF SkipCard
<1>25. ASSUME NEW s \in Subs, DropIt(s) PROVE Accounted'
  BY <1>25 DEF DropIt, End, Excuse
<1>26. ASSUME NEW s \in Subs, EndSub(s) PROVE Accounted'
  BY <1>26 DEF EndSub, End, Excuse, Trouble
<1>27. ASSUME NEW s \in Subs, NEW p \in Passes, PassTakes(p, s) PROVE Accounted'
  BY <1>27 DEF PassTakes, HasRecipe, Claim, Ask, Excuse, Early
<1>28. ASSUME NEW p \in Passes, PassStart(p) PROVE Accounted'
  BY <1>28 DEF PassStart, Snapshot
<1>29. ASSUME Restart PROVE Accounted'
  BY <1>29 DEF Restart, Trouble
<1>30. ASSUME UNCHANGED vars PROVE Accounted'
  BY <1>30 DEF vars
<1> QED BY <1>1, <1>2, <1>3, <1>4, <1>5, <1>6, <1>7, <1>8, <1>9, <1>10, <1>11,
         <1>12, <1>13, <1>14, <1>15, <1>16, <1>17, <1>18, <1>19, <1>20, <1>21,
         <1>22, <1>23, <1>24, <1>25, <1>26, <1>27, <1>28, <1>29, <1>30 DEF Next

LEMMA DecidedInit == Init => DecidedWell
BY DEF Init, DecidedWell, Decided, DecisionOf

LEMMA DecidedWellStep == TypeOK /\ Fresh /\ Ran /\ Cards /\ Accounted /\ DecidedWell
         /\ [Next]_vars => DecidedWell'
<1> SUFFICES ASSUME TypeOK, Fresh, Ran, Cards, Accounted, DecidedWell, [Next]_vars PROVE DecidedWell'
  OBVIOUS
<1> USE HoldConstants DEF TypeOK, Fresh, Ran, Accounted, AccountOf, DecidedWell,
         DecisionOf, Decided, Lost, Went, Pardons, BaseRaces, CardRaces, Standing,
         files, git, process, launches, joe, history
<1>1. ASSUME NEW s \in Subs, Register(s) PROVE DecidedWell'
  <2> SUFFICES ASSUME NEW t \in Subs, After[t] # None, Decided(t)' PROVE DecisionOf(t)'
    BY DEF DecisionOf
  <2>1. landed' = landed /\ gap' = gap /\ launch' = launch
    BY <1>1 DEF Register
  <2>2. CASE t # s
    <3>1. Decided(t) /\ excused'[t] = excused[t]
      BY <1>1, <2>2 DEF Register, Excuse
    <3> QED BY <2>1, <3>1
  <2>3. CASE t = s
    <3>1. launch[s] = "no" /\ s \notin waits
      BY <1>1 DEF Register
    <3>2. Standing(After[s]) = "clean" /\ excused' = Excuse(s, Early(s))
      BY <1>1, <2>1, <2>3, <3>1 DEF Register
    <3>3. After[s] \in landed \/ merges[After[s]] > 0 \/ Lost(After[s])
      BY <2>3, <3>2
    <3>4. merges[After[s]] > 0 => "merging" \in excused'[s]
      BY <2>3, <3>2 DEF Excuse, Early
    <3> QED BY <2>1, <2>3, <3>3, <3>4
  <2> QED BY <2>2, <2>3
<1>2. ASSUME NEW s \in Subs, RunStart(s) PROVE DecidedWell'
  <2> SUFFICES ASSUME NEW t \in Subs PROVE DecisionOf(t)'
    OBVIOUS
  <2>1. CASE t = s
    BY <1>2, <2>1 DEF RunStart, Claim, Cards, CardsOf
  <2>2. CASE t # s /\ After[t] = s
    BY <1>2, <2>2 DEF RunStart, Claim, Cards, CardsOf
  <2>3. CASE t # s /\ After[t] # s
    BY <1>2, <2>3 DEF RunStart, Claim, Cards, CardsOf
  <2> QED BY <2>1, <2>2, <2>3
<1>3. ASSUME NEW s \in Subs, CatchUp(s) PROVE DecidedWell'
  BY <1>3 DEF CatchUp, Excuse
<1>4. ASSUME NEW s \in Subs, CatchUpFails(s) PROVE DecidedWell'
  BY <1>4 DEF CatchUpFails, Excuse, Trouble
<1>5. ASSUME NEW s \in Subs, LaunchUp(s) PROVE DecidedWell'
  BY <1>5 DEF LaunchUp
<1>6. ASSUME NEW s \in Subs, LaunchSend(s) PROVE DecidedWell'
  BY <1>6 DEF LaunchSend, Unclaim, Excuse
<1>7. ASSUME NEW s \in Subs, LaunchFails(s) PROVE DecidedWell'
  BY <1>7 DEF LaunchFails, LaunchError, Unclaim, Ask, Trouble
<1>8. ASSUME NEW s \in Subs, LaunchSendFails(s) PROVE DecidedWell'
  BY <1>8 DEF LaunchSendFails, LaunchError, RecipeBack, Unclaim, Ask, Trouble
<1>9. ASSUME NEW s \in Subs, TurnFinishes(s) PROVE DecidedWell'
  <2> SUFFICES ASSUME NEW t \in Subs, After[t] # None, Decided(t)' PROVE DecisionOf(t)'
    BY DEF DecisionOf
  <2>1. Decided(t)
    BY <1>9 DEF TurnFinishes
  <2>2. CASE After[t] = s
    <3>1. excused'[t] = excused[t] \cup {"again"}
      BY <1>9, <2>1, <2>2 DEF TurnFinishes
    <3> QED BY <3>1
  <2>3. CASE After[t] # s
    <3>1. excused'[t] = excused[t] /\ gap' = gap /\ (After[t] \in landed => After[t] \in landed')
      BY <1>9, <2>3 DEF TurnFinishes
    <3> QED BY <3>1, <2>1
  <2> QED BY <2>2, <2>3
<1>10. ASSUME NEW s \in Subs, TurnStops(s) PROVE DecidedWell'
  BY <1>10 DEF TurnStops
<1>11. ASSUME NEW s \in Subs, MergeLands(s) PROVE DecidedWell'
  BY <1>11 DEF MergeLands, MergeOver
<1>12. ASSUME NEW s \in Subs, MergeConflicts(s) PROVE DecidedWell'
  BY <1>12 DEF MergeConflicts, MergeOver, Trouble
<1>13. ASSUME NEW s \in Subs, MergeRefused(s) PROVE DecidedWell'
  BY <1>13 DEF MergeRefused, MergeOver, Trouble
<1>14. ASSUME NEW s \in Subs, MergeFails(s) PROVE DecidedWell'
  BY <1>14 DEF MergeFails, MergeOver, Trouble
<1>15. ASSUME NEW s \in Subs, Continue(s) PROVE DecidedWell'
  BY <1>15 DEF Continue, Continues, Reopened, Trouble
<1>16. ASSUME NEW s \in Subs, Tell(s) PROVE DecidedWell'
  BY <1>16 DEF Tell, Continues, Reopened
<1>17. ASSUME NEW s \in Subs, TellRefused(s) PROVE DecidedWell'
  BY <1>17 DEF TellRefused, NotTold, Excuse
<1>18. ASSUME NEW s \in Subs, ContinueUp(s) PROVE DecidedWell'
  BY <1>18 DEF ContinueUp
<1>19. ASSUME NEW s \in Subs, ContinueFails(s) PROVE DecidedWell'
  BY <1>19 DEF ContinueFails, NotTold, Trouble
<1>20. ASSUME NEW s \in Subs, TryAgain(s) PROVE DecidedWell'
  BY <1>20 DEF TryAgain, Reopened
<1>21. ASSUME NEW s \in Subs, MergeAgain(s) PROVE DecidedWell'
  BY <1>21 DEF MergeAgain
<1>22. ASSUME NEW s \in Subs, LeaveIt(s) PROVE DecidedWell'
  <2> SUFFICES ASSUME NEW t \in Subs PROVE DecisionOf(t)'
    OBVIOUS
  <2>1. CASE t = s
    BY <1>22, <2>1 DEF LeaveIt
  <2>2. CASE t # s /\ After[t] = s
    BY <1>22, <2>2 DEF LeaveIt
  <2>3. CASE t # s /\ After[t] # s
    BY <1>22, <2>3 DEF LeaveIt
  <2> QED BY <2>1, <2>2, <2>3
<1>23. ASSUME NEW s \in Subs, StartAnyway(s) PROVE DecidedWell'
  <2> SUFFICES ASSUME NEW t \in Subs, After[t] # None, Decided(t)' PROVE DecisionOf(t)'
    BY DEF DecisionOf
  <2>1. landed' = landed /\ gap' = gap /\ held' = held /\ waits' = waits
    BY <1>23 DEF StartAnyway
  <2>2. CASE Claim(s, "joe") /\ excused' = Excuse(s, {"joe"})
    <3>1. CASE t = s
      <4>1. "joe" \in excused'[s]
        BY <2>2 DEF Excuse
      <4> QED BY <3>1, <4>1
    <3>2. CASE t # s
      <4>1. launch'[t] = launch[t] /\ excused'[t] = excused[t]
        BY <2>2, <3>2 DEF Claim, Excuse
      <4> QED BY <2>1, <4>1
    <3> QED BY <3>1, <3>2
  <2>3. CASE UNCHANGED <<launch, by, excused>>
    BY <2>1, <2>3
  <2> QED BY <1>23, <2>2, <2>3 DEF StartAnyway
<1>24. ASSUME NEW s \in Subs, SkipCard(s) PROVE DecidedWell'
  BY <1>24 DEF SkipCard
<1>25. ASSUME NEW s \in Subs, DropIt(s) PROVE DecidedWell'
  BY <1>25 DEF DropIt, End, Excuse
<1>26. ASSUME NEW s \in Subs, EndSub(s) PROVE DecidedWell'
  BY <1>26 DEF EndSub, End, Excuse, Trouble
<1>27. ASSUME NEW s \in Subs, NEW p \in Passes, PassTakes(p, s) PROVE DecidedWell'
  <2> SUFFICES ASSUME NEW t \in Subs PROVE DecisionOf(t)'
    OBVIOUS
  <2>1. CASE t = s
    BY <1>27, <2>1 DEF PassTakes, HasRecipe, Claim, Ask, Excuse, Early
  <2>2. CASE t # s /\ After[t] = s
    BY <1>27, <2>2 DEF PassTakes, HasRecipe, Claim, Ask, Excuse, Early
  <2>3. CASE t # s /\ After[t] # s
    BY <1>27, <2>3 DEF PassTakes, HasRecipe, Claim, Ask, Excuse, Early
  <2> QED BY <2>1, <2>2, <2>3
<1>28. ASSUME NEW p \in Passes, PassStart(p) PROVE DecidedWell'
  BY <1>28 DEF PassStart, Snapshot
<1>29. ASSUME Restart PROVE DecidedWell'
  <2> SUFFICES ASSUME NEW t \in Subs PROVE DecisionOf(t)'
    OBVIOUS
  <2>1. Decided(t)' => Decided(t)
    BY <1>29 DEF Restart
  <2>2. Went(t, Pardons) => Went(t, Pardons)'
    BY <1>29 DEF Restart
  <2>3. \A u \in Subs : Lost(u) => Lost(u)'
    BY <1>29 DEF Restart
  <2> QED BY <1>29, <2>1, <2>2, <2>3 DEF Restart
<1>30. ASSUME UNCHANGED vars PROVE DecidedWell'
  BY <1>30 DEF vars
<1> QED BY <1>1, <1>2, <1>3, <1>4, <1>5, <1>6, <1>7, <1>8, <1>9, <1>10, <1>11,
         <1>12, <1>13, <1>14, <1>15, <1>16, <1>17, <1>18, <1>19, <1>20, <1>21,
         <1>22, <1>23, <1>24, <1>25, <1>26, <1>27, <1>28, <1>29, <1>30 DEF Next

LEMMA CaughtInit == Init => CaughtUp
BY DEF Init, CaughtUp

LEMMA CaughtUpStep == TypeOK /\ DecidedWell /\ CaughtUp /\ [Next]_vars => CaughtUp'
<1> SUFFICES ASSUME TypeOK, DecidedWell, CaughtUp, [Next]_vars PROVE CaughtUp'
  OBVIOUS
<1> USE HoldConstants DEF TypeOK, DecidedWell, DecisionOf, Decided, CaughtUp, Lost,
         Went, Pardons, BaseRaces, CardRaces, Gaps, files, git, process, launches,
         joe, history
<1>1. ASSUME NEW s \in Subs, Register(s) PROVE CaughtUp'
  BY <1>1 DEF Register, Excuse, Early
<1>2. ASSUME NEW s \in Subs, RunStart(s) PROVE CaughtUp'
  BY <1>2 DEF RunStart, Claim
<1>3. ASSUME NEW s \in Subs, CatchUp(s) PROVE CaughtUp'
  BY <1>3 DEF CatchUp, Excuse
<1>4. ASSUME NEW s \in Subs, CatchUpFails(s) PROVE CaughtUp'
  <2>1. excused' = [excused EXCEPT ![s] = @ \cup {"behind"}]
    BY <1>4 DEF CatchUpFails, Excuse
  <2>2. \A t \in Subs : Went(t, Pardons) => Went(t, Pardons)'
    BY <2>1
  <2>3. Went(s, Pardons)'
    BY <2>1
  <2>4. /\ launch' = [launch EXCEPT ![s] = "ready"]
        /\ sent' = sent /\ based' = based \ {s}
    BY <1>4 DEF CatchUpFails
  <2> QED BY <2>2, <2>3, <2>4
<1>5. ASSUME NEW s \in Subs, LaunchUp(s) PROVE CaughtUp'
  BY <1>5 DEF LaunchUp
<1>6. ASSUME NEW s \in Subs, LaunchSend(s) PROVE CaughtUp'
  BY <1>6 DEF LaunchSend, Unclaim, Excuse
<1>7. ASSUME NEW s \in Subs, LaunchFails(s) PROVE CaughtUp'
  BY <1>7 DEF LaunchFails, LaunchError, Unclaim, Ask, Trouble
<1>8. ASSUME NEW s \in Subs, LaunchSendFails(s) PROVE CaughtUp'
  BY <1>8 DEF LaunchSendFails, LaunchError, RecipeBack, Unclaim, Ask, Trouble
<1>9. ASSUME NEW s \in Subs, TurnFinishes(s) PROVE CaughtUp'
  BY <1>9 DEF TurnFinishes, Decided
<1>10. ASSUME NEW s \in Subs, TurnStops(s) PROVE CaughtUp'
  BY <1>10 DEF TurnStops
<1>11. ASSUME NEW s \in Subs, MergeLands(s) PROVE CaughtUp'
  BY <1>11 DEF MergeLands, MergeOver
<1>12. ASSUME NEW s \in Subs, MergeConflicts(s) PROVE CaughtUp'
  BY <1>12 DEF MergeConflicts, MergeOver, Trouble
<1>13. ASSUME NEW s \in Subs, MergeRefused(s) PROVE CaughtUp'
  BY <1>13 DEF MergeRefused, MergeOver, Trouble
<1>14. ASSUME NEW s \in Subs, MergeFails(s) PROVE CaughtUp'
  BY <1>14 DEF MergeFails, MergeOver, Trouble
<1>15. ASSUME NEW s \in Subs, Continue(s) PROVE CaughtUp'
  BY <1>15 DEF Continue, Continues, Reopened, Trouble
<1>16. ASSUME NEW s \in Subs, Tell(s) PROVE CaughtUp'
  BY <1>16 DEF Tell, Continues, Reopened
<1>17. ASSUME NEW s \in Subs, TellRefused(s) PROVE CaughtUp'
  BY <1>17 DEF TellRefused, NotTold, Excuse
<1>18. ASSUME NEW s \in Subs, ContinueUp(s) PROVE CaughtUp'
  BY <1>18 DEF ContinueUp
<1>19. ASSUME NEW s \in Subs, ContinueFails(s) PROVE CaughtUp'
  BY <1>19 DEF ContinueFails, NotTold, Trouble
<1>20. ASSUME NEW s \in Subs, TryAgain(s) PROVE CaughtUp'
  BY <1>20 DEF TryAgain, Reopened
<1>21. ASSUME NEW s \in Subs, MergeAgain(s) PROVE CaughtUp'
  BY <1>21 DEF MergeAgain
<1>22. ASSUME NEW s \in Subs, LeaveIt(s) PROVE CaughtUp'
  BY <1>22 DEF LeaveIt
<1>23. ASSUME NEW s \in Subs, StartAnyway(s) PROVE CaughtUp'
  BY <1>23 DEF StartAnyway, Claim, Excuse
<1>24. ASSUME NEW s \in Subs, SkipCard(s) PROVE CaughtUp'
  BY <1>24 DEF SkipCard
<1>25. ASSUME NEW s \in Subs, DropIt(s) PROVE CaughtUp'
  BY <1>25 DEF DropIt, End, Excuse
<1>26. ASSUME NEW s \in Subs, EndSub(s) PROVE CaughtUp'
  BY <1>26 DEF EndSub, End, Excuse, Trouble
<1>27. ASSUME NEW s \in Subs, NEW p \in Passes, PassTakes(p, s) PROVE CaughtUp'
  BY <1>27 DEF PassTakes, HasRecipe, Claim, Ask, Excuse, Early
<1>28. ASSUME NEW p \in Passes, PassStart(p) PROVE CaughtUp'
  BY <1>28 DEF PassStart, Snapshot
<1>29. ASSUME Restart PROVE CaughtUp'
  BY <1>29 DEF Restart, Trouble
<1>30. ASSUME UNCHANGED vars PROVE CaughtUp'
  BY <1>30 DEF vars
<1> QED BY <1>1, <1>2, <1>3, <1>4, <1>5, <1>6, <1>7, <1>8, <1>9, <1>10, <1>11,
         <1>12, <1>13, <1>14, <1>15, <1>16, <1>17, <1>18, <1>19, <1>20, <1>21,
         <1>22, <1>23, <1>24, <1>25, <1>26, <1>27, <1>28, <1>29, <1>30 DEF Next

-------------------------------------------------------------------------------
(* The theorems.                                                            *)

Inv == /\ TypeOK /\ Fresh /\ Ran /\ Once /\ Cards
       /\ Idle /\ Refusals /\ Accounted /\ DecidedWell /\ CaughtUp

\* The invariant holds at first and every step keeps it.
LEMMA InvAlways == Spec => []Inv
<1>1. Init => Inv
  BY TypeInit, FreshInit, RanInit, OnceInit, CardsInit, IdleInit, RefusalsInit,
     AccountedInit, DecidedInit, CaughtInit DEF Inv
<1>2. Inv /\ [Next]_vars => Inv'
  BY TypeOKStep, FreshStep, RanStep, OnceStep, CardsStep, IdleStep, RefusalsStep,
     AccountedStep, DecidedWellStep, CaughtUpStep DEF Inv
<1> QED BY <1>1, <1>2, PTL DEF Spec

\* Every variable keeps its type (Held and AfterState of held.rs, the tables of
\* merge_followup.rs, the registry's flags).
THEOREM TypeCorrect == Spec => []TypeOK
<1>1. Inv => TypeOK
  BY DEF Inv
<1> QED BY <1>1, InvAlways, PTL

\* However many subs wait for each other, a sub that started had its target's work
\* in its tree, but for the named races (after_state, before_launch).
THEOREM OnItsBase == Spec => []StartsOnItsBase
<1>1. Inv => StartsOnItsBase
  BY DEF Inv, CaughtUp, StartsOnItsBase, Went, Pardons, TypeOK
<1> QED BY <1>1, InvAlways, PTL

\* The card that can drop a sub is about one that still waits (raise_decision_now,
\* drop_held), but for a stale pass, a card beside a launch and a late end.
THEOREM CardOfHeld == Spec => []CardIsAboutHeld
<1>1. Inv => CardIsAboutHeld
  BY DEF Inv, Cards, CardsOf, CardIsAboutHeld, Went
<1> QED BY <1>1, InvAlways, PTL

\* However many passes, ticks, cards and restarts look at a sub, it is not started
\* again once it got its first message (launch_held, LAUNCHING).
THEOREM OneStart == Spec => []StartedOnce
<1>1. Inv => StartedOnce
  BY DEF Inv, Once
<1> QED BY <1>1, InvAlways, PTL

\* A sub in a turn is not among the finished (commit_finish, prepare_continue), but
\* for a tell that found it busy and a follow-up that crossed its first message.
THEOREM IdleWhenFinished == Spec => []FinishedIsIdle
<1>1. Inv => FinishedIsIdle
  BY DEF Inv, Idle
<1> QED BY <1>1, InvAlways, PTL

\* As long as waiters wait for a refused merge, somebody sees to it
\* (merge_followup.rs UNRESOLVED), unless a later try failed the passive way.
THEOREM RefusalsHandled == Spec => []RefusalIsHandled
<1>1. Inv => RefusalIsHandled
  BY DEF Inv, Refusals, RefusalOf, RefusalIsHandled, Handled, TypeOK
<1> QED BY <1>1, InvAlways, PTL
===============================================================================
