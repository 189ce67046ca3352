------------------------------ MODULE AfterHold ------------------------------
(***************************************************************************)
(* Subs that wait for another one (spawn_chat's "after", held.rs), in a     *)
(* project where every writer has its own worktree (worktree.rs): the       *)
(* recipes in held.json, the passes of release_ready, the one launch per    *)
(* sub, the merge that follows a finish, what a refused merge sets in       *)
(* motion (merge_followup.rs), Joe's cards about both, and a restart.       *)
(*                                                                         *)
(* A pass reads the held set once and then awaits one launch after the     *)
(* other, while finishes, merges, follow-ups and other passes go on.        *)
(***************************************************************************)
EXTENDS Naturals, FiniteSets

CONSTANTS
  Subs,             \* the worktree subs of one main chat
  After,            \* the sub each one names in `after`, or None
  None,
  Passes,           \* the passes of release_ready that may be under way at once
  MaxTroubles       \* bound: restarts, launches and sends that fail, merges that are
                    \* refused, Joe's follow-ups and ends, all together

ASSUME HoldConstants ==
  /\ None \notin Subs /\ After \in [Subs -> Subs \cup {None}]
  /\ Passes \cap {"none", "start", "joe"} = {}
  /\ MaxTroubles \in Nat

VARIABLES
  \* rows and files
  row,              \* "none", "sub", "ended"
  finished,         \* subchat_finished
  record,           \* the finish record on disk: "none", "clean", "blocked"
  held, waits,      \* held.json; the entries of it that name a target
  \* git
  landed,           \* subs whose last finished work is in the target branch
  based,            \* subs whose tree held their target's work when it caught up
  merges,           \* landings in flight, per sub
  \* processes
  turn, sent,       \* subs in a turn; subs whose first message was written
  cont,             \* continue_sub: "no", "run", "fin" (was finished), "tell" (by a tell)
  \* launches
  due,              \* run_start tasks that did not begin
  launch,           \* "no", "checked" (in LAUNCHING), "ready" (tree caught up), "up"
                    \* (child there, no message), "dead" (and its child killed)
  by,               \* who awaits it: "start", "joe" or a pass
  todo,             \* what each pass has still to look at
  \* Joe
  card, parked,     \* the held-sub card: "no", "blocked", "failed"; PARKED
  unresolved, told, \* UNRESOLVED; CONFLICTS has an entry
  tell,             \* tell tasks in flight
  conflictCard, refusedCard,
  troubles,         \* bound
  \* history
  gap,              \* why a sub's work is not in the target and nobody handles it
  excused           \* the races a sub went through, by name

files    == <<row, finished, record, held, waits>>
git      == <<landed, based, merges>>
process  == <<turn, sent, cont>>
launches == <<due, launch, by, todo>>
joe      == <<card, parked, unresolved, told, tell, conflictCard, refusedCard>>
history  == <<gap, excused>>
vars == <<files, git, process, launches, joe, troubles, history>>

Init ==
  /\ row = [s \in Subs |-> "none"] /\ finished = {} /\ record = [s \in Subs |-> "none"]
  /\ held = {} /\ waits = {}
  /\ landed = {} /\ based = {} /\ merges = [s \in Subs |-> 0]
  /\ turn = {} /\ sent = {} /\ cont = [s \in Subs |-> "no"]
  /\ due = {} /\ launch = [s \in Subs |-> "no"] /\ by = [s \in Subs |-> "none"]
  /\ todo = [p \in Passes |-> {}]
  /\ card = [s \in Subs |-> "no"] /\ parked = {} /\ unresolved = {} /\ told = {} /\ tell = {}
  /\ conflictCard = {} /\ refusedCard = {}
  /\ troubles = 0
  /\ gap = [s \in Subs |-> {}] /\ excused = [s \in Subs |-> {}]

\* what a waiter may start without its target's work for
BaseRaces == {"merging", "again", "behind", "joe", "left", "other", "restart", "skipped"}

Trouble == troubles < MaxTroubles /\ troubles' = troubles + 1
Excuse(s, why) == [excused EXCEPT ![s] = @ \cup why]

-------------------------------------------------------------------------------
(* Holding, and deciding who may start.                                     *)

\* (fault: a refused merge is not looked at)
StandingBlind(t) ==
  IF row[t] = "ended" THEN "blocked"
  ELSE IF t \notin finished THEN "pending" ELSE record[t]

\* after_state
Standing(t) ==
  IF row[t] = "ended" THEN "blocked"
  ELSE IF t \notin finished \/ t \in unresolved THEN "pending" ELSE record[t]

\* The landing in flight that after_state does not look at.
Early(s) == IF After[s] # None /\ merges[After[s]] > 0 THEN {"merging"} ELSE {}

\* plan_after, then held::register or worktree::register_and_start
Register(s) ==
  /\ row[s] = "none"
  /\ row' = [row EXCEPT ![s] = "sub"] /\ held' = held \cup {s}
  /\ \/ /\ After[s] = None
        /\ due' = due \cup {s} /\ UNCHANGED <<waits, excused>>
     \/ /\ After[s] # None /\ row[After[s]] # "none" /\ Standing(After[s]) = "clean"
        /\ due' = due \cup {s} /\ excused' = Excuse(s, Early(s)) /\ UNCHANGED waits
     \/ /\ After[s] # None /\ row[After[s]] # "none" /\ Standing(After[s]) = "pending"
        /\ waits' = waits \cup {s} /\ UNCHANGED <<due, excused>>
  /\ UNCHANGED <<finished, record, git, process, launch, by, todo, joe, troubles, gap>>

\* (fault: the filter of worktree::restore)
SnapshotOthers == held \ waits

\* all(): what a pass looks at
Snapshot == held

\* release_ready begins: after a finish, an end, a landing, at the tick, at boot
PassStart(p) ==
  /\ todo[p] = {} /\ \A s \in Subs : by[s] # p
  /\ Snapshot # {} /\ todo' = [todo EXCEPT ![p] = Snapshot]
  /\ UNCHANGED <<files, git, process, due, launch, by, joe, troubles, history>>

\* (fault: the entry of the snapshot is taken for the recipe)
HasRecipeAtHand(s) == TRUE

\* launch_held reads the recipe once it has the claim
HasRecipe(s) == s \in held

\* raise_decision, unless a card is open
Ask(s, why) == [card EXCEPT ![s] = IF @ = "no" THEN why ELSE @]

Claim(s, who) == /\ launch' = [launch EXCEPT ![s] = "checked"]
                 /\ by' = [by EXCEPT ![s] = who]

\* A pass comes to s.  While it awaits a launch it takes no other.
PassTakes(p, s) ==
  /\ s \in todo[p] /\ \A t \in Subs : by[t] # p
  /\ todo' = [todo EXCEPT ![p] = @ \ {s}]
  /\ LET standing == Standing(After[s]) IN
     \/ /\ row[s] = "ended" /\ held' = held \ {s}
        /\ UNCHANGED <<launch, by, card, parked, excused>>
     \/ /\ row[s] = "sub"
        /\ \/ s \notin waits \/ s \in parked
           \/ s \in waits /\ standing = "pending"
           \/ s \in waits /\ standing = "clean" /\ launch[s] # "no"
        /\ UNCHANGED <<held, launch, by, card, parked, excused>>
     \/ /\ row[s] = "sub" /\ s \in waits \ parked /\ standing = "blocked"
        /\ card' = Ask(s, "blocked")
        /\ excused' = Excuse(s, IF launch[s] # "no" THEN {"beside"}
                                ELSE IF s \in held THEN {} ELSE {"stale"})
        /\ UNCHANGED <<held, launch, by, parked>>
     \/ /\ row[s] = "sub" /\ s \in waits \ parked /\ standing = "clean" /\ launch[s] = "no"
        /\ \/ /\ HasRecipe(s) /\ Claim(s, p)
              /\ excused' = Excuse(s, Early(s) \cup
                              (IF card[s] = "no" THEN {} ELSE {"beside"}))
              /\ UNCHANGED <<card, parked>>
           \/ /\ ~HasRecipe(s)
              /\ card' = Ask(s, "failed") /\ parked' = parked \cup {s}
              /\ excused' = Excuse(s, {"stale"}) /\ UNCHANGED <<launch, by>>
        /\ UNCHANGED held
  /\ UNCHANGED <<row, finished, record, waits, git, process, due, unresolved, told, tell,
                 conflictCard, refusedCard, troubles, gap>>

-------------------------------------------------------------------------------
(* A launch.                                                                *)

\* run_start of a sub that waits for nobody
RunStart(s) ==
  /\ s \in due /\ due' = due \ {s}
  /\ \/ launch[s] # "no" /\ UNCHANGED <<held, launch, by>>
     \/ launch[s] = "no" /\ s \in held /\ row[s] = "sub" /\ Claim(s, "start") /\ UNCHANGED held
     \/ /\ launch[s] = "no" /\ ~(s \in held /\ row[s] = "sub")
        /\ held' = held \ {s} /\ UNCHANGED <<launch, by>>
  /\ UNCHANGED <<row, finished, record, waits, git, process, todo, joe, troubles, history>>

\* before_launch: under the repo's lock the branch is brought to the target
CatchUp(s) ==
  /\ launch[s] = "checked"
  /\ launch' = [launch EXCEPT ![s] = "ready"]
  /\ IF After[s] \in landed \cup {None}
     THEN based' = based \cup {s} /\ excused' = [excused EXCEPT ![s] = @ \ BaseRaces]
     ELSE based' = based \ {s} /\ excused' = Excuse(s, gap[After[s]])
  /\ UNCHANGED <<files, landed, merges, process, due, by, todo, joe, troubles, gap>>

\* the branch cannot be brought up to date: a passive card, and the launch goes on
CatchUpFails(s) ==
  /\ launch[s] = "checked" /\ Trouble
  /\ launch' = [launch EXCEPT ![s] = "ready"]
  /\ based' = based \ {s} /\ excused' = Excuse(s, {"behind"})
  /\ UNCHANGED <<files, landed, merges, process, due, by, todo, joe, gap>>

\* the child is up and the recipe is taken
LaunchUp(s) ==
  /\ launch[s] = "ready"
  /\ launch' = [launch EXCEPT ![s] = "up"] /\ held' = held \ {s}
  /\ UNCHANGED <<row, finished, record, waits, git, process, due, by, todo, joe, troubles,
                 history>>

Unclaim(s) == /\ launch' = [launch EXCEPT ![s] = "no"]
              /\ by' = [by EXCEPT ![s] = "none"]

\* the first message is written, perhaps beside a follow-up's
LaunchSend(s) ==
  /\ launch[s] = "up" /\ Unclaim(s)
  /\ sent' = sent \cup {s} /\ turn' = turn \cup {s}
  /\ excused' = IF cont[s] = "no" THEN excused ELSE Excuse(s, {"crossed"})
  /\ UNCHANGED <<files, git, cont, due, todo, joe, troubles, gap>>

\* The launch failed with held.json as recipes: Joe is asked, and s parked.  A
\* pass goes by the entry it read, the others by the recipe.
LaunchError(s, recipes) ==
  /\ Unclaim(s) /\ held' = recipes
  /\ IF by[s] \in Passes \/ s \in recipes
     THEN card' = Ask(s, "failed") /\ parked' = parked \cup {s}
     ELSE UNCHANGED <<card, parked>>

\* the tree cannot be set up, or no child starts
LaunchFails(s) ==
  /\ launch[s] \in {"checked", "ready"} /\ Trouble
  /\ LaunchError(s, held)
  /\ UNCHANGED <<row, finished, record, waits, git, process, due, todo, unresolved, told,
                 tell, conflictCard, refusedCard, history>>

\* (fault: the recipe is not put back)
RecipeGone(s) == held

\* hold(entry)
RecipeBack(s) == held \cup {s}

\* the first message did not reach the child
LaunchSendFails(s) ==
  /\ \/ launch[s] = "dead" /\ UNCHANGED troubles
     \/ launch[s] = "up" /\ Trouble
  /\ LaunchError(s, RecipeBack(s))
  /\ turn' = turn \ {s}
  /\ UNCHANGED <<row, finished, record, waits, git, sent, cont, due, todo, unresolved, told,
                 tell, conflictCard, refusedCard, history>>

-------------------------------------------------------------------------------
(* A sub finishes, and its work is merged.                                  *)

\* nobody looks again at what w waits for
Decided(w) == \/ launch[w] = "checked"
              \/ w \notin waits /\ (w \in held \/ launch[w] # "no")

\* commit_finish and defer: the row is finished before the merge has begun.  A
\* waiter whose start was decided on the round before may miss this one.
TurnFinishes(s) ==
  /\ s \in turn /\ row[s] = "sub"
  /\ turn' = turn \ {s} /\ finished' = finished \cup {s}
  /\ \E verdict \in {"clean", "blocked"} : record' = [record EXCEPT ![s] = verdict]
  /\ landed' = landed \ {s} /\ merges' = [merges EXCEPT ![s] = @ + 1]
  /\ excused' = [w \in Subs |-> IF After[w] = s /\ Decided(w)
                                THEN excused[w] \cup {"again"} ELSE excused[w]]
  /\ UNCHANGED <<row, held, waits, based, sent, cont, launches, joe, troubles, gap>>

\* a turn ends without a finish
TurnStops(s) ==
  /\ s \in turn /\ turn' = turn \ {s}
  /\ UNCHANGED <<files, git, sent, cont, launches, joe, troubles, history>>

MergeOver(s) == merges[s] > 0 /\ merges' = [merges EXCEPT ![s] = @ - 1]

\* land_with under the repo's lock, and on_landed
MergeLands(s) ==
  /\ MergeOver(s) /\ landed' = landed \cup {s}
  /\ unresolved' = unresolved \ {s} /\ told' = told \ {s}
  /\ gap' = [gap EXCEPT ![s] = {}]
  /\ UNCHANGED <<files, based, process, launches, card, parked, tell, conflictCard,
                 refusedCard, troubles, excused>>

\* on_blocked, a conflict: the sub is told the first time, Joe asked after that
MergeConflicts(s) ==
  /\ MergeOver(s) /\ Trouble
  /\ unresolved' = unresolved \cup {s} /\ told' = told \cup {s}
  /\ IF s \in told
     THEN conflictCard' = conflictCard \cup {s} /\ UNCHANGED <<finished, tell>>
     ELSE finished' = finished \ {s} /\ tell' = tell \cup {s} /\ UNCHANGED conflictCard
  /\ UNCHANGED <<row, record, held, waits, landed, based, process, launches, card, parked,
                 refusedCard, history>>

\* on_blocked, the main checkout is dirty or on another branch
MergeRefused(s) ==
  /\ MergeOver(s) /\ Trouble
  /\ unresolved' = unresolved \cup {s} /\ refusedCard' = refusedCard \cup {s}
  /\ UNCHANGED <<files, landed, based, process, launches, card, parked, told, tell,
                 conflictCard, history>>

\* on_blocked, Cause::Other: a passive card and nothing more
MergeFails(s) ==
  /\ MergeOver(s) /\ Trouble
  /\ gap' = [gap EXCEPT ![s] = @ \cup {"other"}]
  /\ UNCHANGED <<files, landed, based, process, launches, joe, excused>>

-------------------------------------------------------------------------------
(* Follow-ups: the tell, and Joe.                                           *)

\* (fault: the sub stays finished)
StaysFinished(s) == finished

Reopened(s) == finished \ {s}

\* prepare_continue does not refuse s
Continues(s) == row[s] = "sub" /\ s \notin turn /\ s \notin held /\ cont[s] = "no"

\* continue_sub, up to its first await
Continue(s) ==
  /\ Continues(s) /\ Trouble
  /\ cont' = [cont EXCEPT ![s] = IF s \in finished THEN "fin" ELSE "run"]
  /\ finished' = Reopened(s)
  /\ UNCHANGED <<row, record, held, waits, git, turn, sent, launches, joe, history>>

\* tell: the same, by the daemon
Tell(s) ==
  /\ s \in tell /\ Continues(s)
  /\ tell' = tell \ {s}
  /\ cont' = [cont EXCEPT ![s] = "tell"] /\ finished' = Reopened(s)
  /\ UNCHANGED <<row, record, held, waits, git, turn, sent, launches, card, parked,
                 unresolved, told, conflictCard, refusedCard, troubles, history>>

\* (fault: nobody is asked)
NobodyAsked(s) == finished' = finished \cup {s} /\ UNCHANGED conflictCard

\* tell failed: the sub is finished again and Joe is asked
NotTold(s) == finished' = finished \cup {s} /\ conflictCard' = conflictCard \cup {s}

\* continue_sub refused: the sub is busy, being continued, held or gone
TellRefused(s) ==
  /\ s \in tell /\ ~Continues(s)
  /\ tell' = tell \ {s} /\ NotTold(s)
  /\ excused' = Excuse(s, {"told"})
  /\ UNCHANGED <<row, record, held, waits, git, process, launches, card, parked, unresolved,
                 told, refusedCard, troubles, gap>>

\* the message is written; a row that ended meanwhile gets its process all the same
ContinueUp(s) ==
  /\ cont[s] # "no" /\ s \in sent
  /\ cont' = [cont EXCEPT ![s] = "no"] /\ turn' = turn \cup {s}
  /\ UNCHANGED <<files, git, sent, launches, joe, troubles, history>>

\* restore; a send after a restart, or to a sub that never ran, fails too
ContinueFails(s) ==
  /\ cont[s] # "no" /\ IF s \in sent THEN Trouble ELSE UNCHANGED troubles
  /\ cont' = [cont EXCEPT ![s] = "no"]
  /\ \/ cont[s] = "run" /\ UNCHANGED <<finished, conflictCard>>
     \/ cont[s] = "fin" /\ finished' = finished \cup {s} /\ UNCHANGED conflictCard
     \/ cont[s] = "tell" /\ NotTold(s)
  /\ UNCHANGED <<row, record, held, waits, git, turn, sent, launches, card, parked,
                 unresolved, told, tell, refusedCard, history>>

-------------------------------------------------------------------------------
(* Joe's cards, an end, and a restart.                                      *)

\* answer_conflict: "Have it try again"
TryAgain(s) ==
  /\ s \in conflictCard /\ conflictCard' = conflictCard \ {s}
  /\ finished' = Reopened(s) /\ tell' = tell \cup {s}
  /\ UNCHANGED <<row, record, held, waits, git, process, launches, card, parked, unresolved,
                 told, refusedCard, troubles, history>>

\* answer_refused: "Merge again"
MergeAgain(s) ==
  /\ s \in refusedCard /\ refusedCard' = refusedCard \ {s}
  /\ merges' = [merges EXCEPT ![s] = @ + 1]
  /\ UNCHANGED <<files, landed, based, process, launches, card, parked, unresolved, told,
                 tell, conflictCard, troubles, history>>

\* either card: "Leave it", or a skip, which leaves the refusal unresolved
LeaveIt(s) ==
  /\ \/ s \in conflictCard /\ conflictCard' = conflictCard \ {s} /\ UNCHANGED refusedCard
     \/ s \in refusedCard /\ refusedCard' = refusedCard \ {s} /\ UNCHANGED conflictCard
  /\ \/ /\ unresolved' = unresolved \ {s} /\ told' = told \ {s}
        /\ gap' = [gap EXCEPT ![s] = @ \cup {"left"}]
     \/ gap' = [gap EXCEPT ![s] = @ \cup {"skipped"}] /\ UNCHANGED <<unresolved, told>>
  /\ UNCHANGED <<files, git, process, launches, card, parked, tell, troubles, excused>>

\* the held-sub card: "Start it anyway" or "Try again"
StartAnyway(s) ==
  /\ card[s] # "no" /\ card' = [card EXCEPT ![s] = "no"]
  /\ parked' = parked \ {s}
  /\ IF launch[s] = "no" /\ s \in held /\ row[s] = "sub"
     THEN Claim(s, "joe") /\ excused' = Excuse(s, {"joe"})
     ELSE UNCHANGED <<launch, by, excused>>
  /\ UNCHANGED <<files, git, process, due, todo, unresolved, told, tell, conflictCard,
                 refusedCard, troubles, gap>>

SkipCard(s) ==
  /\ card[s] # "no" /\ card' = [card EXCEPT ![s] = "no"] /\ parked' = parked \cup {s}
  /\ UNCHANGED <<files, git, process, launches, unresolved, told, tell, conflictCard,
                 refusedCard, troubles, history>>

\* end_sub: the row, the process, the recipe, the refusal and every card of s go
End(s) ==
  /\ row' = [row EXCEPT ![s] = "ended"] /\ turn' = turn \ {s} /\ held' = held \ {s}
  /\ unresolved' = unresolved \ {s} /\ told' = told \ {s}
  /\ card' = [card EXCEPT ![s] = "no"]
  /\ conflictCard' = conflictCard \ {s} /\ refusedCard' = refusedCard \ {s}
  /\ launch' = [launch EXCEPT ![s] = IF @ = "up" THEN "dead" ELSE @]
  /\ excused' = IF launch[s] = "no" THEN excused ELSE Excuse(s, {"late"})
  /\ UNCHANGED <<finished, record, waits, git, sent, cont, due, by, todo, tell, gap>>

EndSub(s) ==
  /\ row[s] = "sub" /\ Trouble
  /\ End(s) /\ UNCHANGED parked

\* the held-sub card: "Drop it" (drop_held)
DropIt(s) ==
  /\ card[s] # "no" /\ row[s] = "sub"
  /\ End(s) /\ parked' = parked \ {s} /\ UNCHANGED troubles

\* What is in memory goes; a follow-up under way may or may not have been saved.
Restart ==
  /\ Trouble
  /\ \E back \in SUBSET (tell \cup {s \in Subs : cont[s] = "fin"}) : finished' = finished \cup back
  /\ gap' = [s \in Subs |-> IF s \in unresolved \/ merges[s] > 0
                            THEN gap[s] \cup {"restart"} ELSE gap[s]]
  /\ merges' = [s \in Subs |-> 0] /\ turn' = {} /\ cont' = [s \in Subs |-> "no"]
  /\ due' = {s \in held \ waits : row[s] = "sub"}
  /\ launch' = [s \in Subs |-> "no"] /\ by' = [s \in Subs |-> "none"]
  /\ todo' = [p \in Passes |-> {}]
  /\ card' = [s \in Subs |-> "no"] /\ parked' = {}
  /\ unresolved' = {} /\ told' = {} /\ tell' = {} /\ conflictCard' = {} /\ refusedCard' = {}
  /\ excused' = [s \in Subs |-> excused[s] \cap BaseRaces]
  /\ UNCHANGED <<row, record, held, waits, landed, based, sent>>

LaunchStep(s) == CatchUp(s) \/ CatchUpFails(s) \/ LaunchUp(s) \/ LaunchFails(s)
  \/ LaunchSend(s) \/ LaunchSendFails(s)

Next ==
  \/ \E s \in Subs :
       \/ Register(s) \/ RunStart(s) \/ \E p \in Passes : PassTakes(p, s)
       \/ CatchUp(s) \/ CatchUpFails(s) \/ LaunchUp(s)
       \/ LaunchSend(s) \/ LaunchFails(s) \/ LaunchSendFails(s)
       \/ TurnFinishes(s) \/ TurnStops(s)
       \/ MergeLands(s) \/ MergeConflicts(s) \/ MergeRefused(s) \/ MergeFails(s)
       \/ Continue(s) \/ Tell(s) \/ TellRefused(s) \/ ContinueUp(s) \/ ContinueFails(s)
       \/ TryAgain(s) \/ MergeAgain(s) \/ LeaveIt(s)
       \/ StartAnyway(s) \/ SkipCard(s) \/ DropIt(s) \/ EndSub(s)
  \/ \E p \in Passes : PassStart(p)
  \/ Restart

\* The daemon's tasks run and the tick comes every 60 seconds; nothing is assumed
\* of Joe, of the subs, of git, or that a launch succeeds.
Fairness ==
  /\ \A p \in Passes : WF_vars(PassStart(p)) /\ \A s \in Subs : WF_vars(PassTakes(p, s))
  /\ \A s \in Subs : WF_vars(LaunchStep(s))

Spec == Init /\ [][Next]_vars
FairSpec == Spec /\ Fairness

-------------------------------------------------------------------------------
(* Properties.                                                              *)

CardRaces == {"stale", "beside", "late"}
Gaps == {"left", "other", "restart", "skipped"}

\* Every variable keeps its type: Held and AfterState (held.rs), the tables of
\* merge_followup.rs and the registry's flags.
TypeOK ==
  /\ row \in [Subs -> {"none", "sub", "ended"}] /\ finished \subseteq Subs
  /\ record \in [Subs -> {"none", "clean", "blocked"}]
  /\ held \subseteq Subs /\ waits \subseteq Subs
  /\ landed \subseteq Subs /\ based \subseteq Subs /\ merges \in [Subs -> Nat]
  /\ turn \subseteq Subs /\ sent \subseteq Subs
  /\ cont \in [Subs -> {"no", "run", "fin", "tell"}]
  /\ due \subseteq Subs /\ launch \in [Subs -> {"no", "checked", "ready", "up", "dead"}]
  /\ by \in [Subs -> Passes \cup {"none", "start", "joe"}] /\ todo \in [Passes -> SUBSET Subs]
  /\ card \in [Subs -> {"no", "blocked", "failed"}] /\ parked \subseteq Subs
  /\ unresolved \subseteq Subs /\ told \subseteq Subs /\ tell \subseteq Subs
  /\ conflictCard \subseteq Subs /\ refusedCard \subseteq Subs
  /\ troubles \in Nat
  /\ gap \in [Subs -> SUBSET Gaps]
  /\ excused \in [Subs -> SUBSET (BaseRaces \cup CardRaces \cup {"told", "crossed"})]

\* A sub that named another in `after` starts on a tree that holds what that one
\* finished (merge_followup.rs UNRESOLVED), unless Joe started it or left the
\* refusal, the refusal was of the passive kind or lost in a restart, the start was
\* decided during the merge, or the tree could not be brought up to date.
StartsOnItsBase ==
  \A s \in sent :
    s \in based \/ excused[s] \cap (BaseRaces \ {"skipped"}) # {}

\* The held-sub card, whose "Drop it" ends the sub, is about one that still waits
\* (drop_held).  Except: a pass read the held set before another one started the
\* sub, the card was open beside a launch, or the sub was ended in one.
CardIsAboutHeld ==
  \A s \in Subs : card[s] # "no" => \/ s \in held \/ launch[s] # "no"
                                    \/ excused[s] \cap CardRaces # {}

\* Whoever got the first message is not started again (launch_held, LAUNCHING),
\* by a finish, the tick, the card or boot.
StartedOnce == \A s \in sent : s \notin held /\ launch[s] = "no"

\* A finished sub is in no turn (commit_finish, prepare_continue), unless a tell
\* found it busy and put it back among the finished, or a follow-up crossed its
\* first message.
FinishedIsIdle == \A s \in finished \cap turn : excused[s] \cap {"told", "crossed"} # {}

\* What it takes for a refusal to be handled: the sub works or is told, Joe has a
\* card or skipped it, or the merge is tried again.
Handled(s) ==
  \/ row[s] = "ended" \/ s \notin finished \/ s \in tell \cup conflictCard \cup refusedCard
  \/ cont[s] # "no" \/ merges[s] > 0 \/ "skipped" \in gap[s]

\* A refused merge is handled for as long as a waiter is kept waiting for it
\* (merge_followup.rs), unless a later try failed the passive way.
RefusalIsHandled == \A s \in unresolved : Handled(s) \/ "other" \in gap[s]

\* "Subs whose commits are not in the target and whose refusal is still being
\* handled (told, or a card open)" (merge_followup.rs UNRESOLVED).
UnresolvedIsHandled == \A s \in unresolved : Handled(s)

\* A waiter whose target is done is started, or Joe is asked (release_ready), if
\* the target does not begin again.
WaiterIsDecided ==
  \A s \in {w \in Subs : After[w] # None} :
    s \in held \cap waits /\ row[s] = "sub" /\ Standing(After[s]) # "pending"
      ~> s \notin held \/ card[s] # "no" \/ s \in parked \/ Standing(After[s]) = "pending"
===============================================================================
