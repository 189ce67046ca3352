------------------------------ MODULE WriterSlot ------------------------------
(***************************************************************************)
(* The writer slot of one project (daemon/subchats/writers.rs) under "One  *)
(* at a time", with what takes it and lets it go: the spawn_chat call, the *)
(* held launch recipes (held.rs, held.json), the write guard, the question *)
(* card, finish, end, crash, "Move to sidebar", the sweeps and a restart.  *)
(*                                                                         *)
(* Who may edit is spread over four places that no lock covers together:   *)
(* the slot table, the registry row, held.json and the process.            *)
(***************************************************************************)
EXTENDS Naturals, Sequences, FiniteSets, SequencesExt

CONSTANTS
  Subs,             \* the subs of this project, one spawn_chat call each
  Gates,            \* the ones that push, and wait for merges first
  None,             \* no holder
  MaxRestarts,      \* bound: daemon restarts
  MaxFaults,        \* bound: steps that fail, deaths, ends that bypass the slot
  MaxTalks,         \* bound: follow-ups, and questions to Joe
  MaxMerges         \* bound: merges of worktree subs into this repo

ASSUME SlotConstants ==
  /\ IsFiniteSet(Subs) /\ Gates \subseteq Subs /\ None \notin Subs
  /\ MaxRestarts \in Nat /\ MaxFaults \in Nat /\ MaxTalks \in Nat /\ MaxMerges \in Nat

VARIABLES
  \* the slot table (memory)
  holder,
  fresh,            \* claimed_at is younger than CLAIM_GRACE
  queue,            \* entries [sub, kind], kind "Launch" or "Wake"
  \* the registry rows, and which of them are finished
  row,              \* "none", "bare" (not marked as a sub yet), "sub", "ended", "moved"
  finished,
  \* held.json (disk): the subs whose launch recipe it keeps
  held,
  \* processes
  child, turn,
  allowed,          \* subs whose edit passed the guard and has not landed
  dirty,            \* subs with uncommitted edits
  pend,             \* finish requests accepted this turn
  carded,           \* runtime.death_carded
  \* calls and tasks in flight
  call,             \* the spawn_chat call of each sub
  due,              \* run_start tasks of a Launch that did not begin
  launch,           \* launch_held: "no", "checked", "spawned" (child and recipe),
                    \* "up" (child, no recipe, no message)
  byCard,           \* ... asked for by "Try again", not by the slot
  nudge,            \* nudges in flight, SLOT_FREE_TEXT among them
  cont,             \* continue_sub: "no", "run", "fin" (was finished)
  ask,              \* on_waiting_on_joe: "no", "looked", "clean"
  card,             \* the held-sub card: "no", "open", "left" (skipped: parked)
  merging,          \* a worktree sub's merge into this repo is in flight
  used,             \* bounds
  \* history
  sent,             \* subs whose first message was written
  fallen,           \* died in the middle of a turn and not respawned since
  excused           \* the races a sub went through, by name

slot    == <<holder, fresh, queue>>
rows    == <<row, finished>>
process == <<child, turn, allowed, dirty, pend, carded>>
tasks   == <<call, due, launch, byCard, nudge, cont, ask, card>>
history == <<sent, fallen, excused>>
vars == <<slot, rows, held, process, tasks, merging, used, history>>

Costs == {"restarts", "faults", "talks", "merges"}

Init ==
  /\ holder = None /\ fresh = FALSE /\ queue = <<>>
  /\ row = [s \in Subs |-> "none"] /\ finished = {}
  /\ held = {}
  /\ child = {} /\ turn = {} /\ allowed = {} /\ dirty = {} /\ pend = {} /\ carded = {}
  /\ call = [s \in Subs |-> "new"] /\ due = {}
  /\ launch = [s \in Subs |-> "no"] /\ byCard = {} /\ nudge = {}
  /\ cont = [s \in Subs |-> "no"] /\ ask = [s \in Subs |-> "no"]
  /\ card = [s \in Subs |-> "no"]
  /\ merging = FALSE
  /\ used = [what \in Costs |-> 0]
  /\ sent = {} /\ fallen = {} /\ excused = [s \in Subs |-> {}]

Spend(what, max) == used[what] < max /\ used' = [used EXCEPT ![what] = @ + 1]
\* A first message fails by a fault, or because its child is gone.
SendFault(s) == IF s \in child THEN Spend("faults", MaxFaults) ELSE UNCHANGED used
Excuse(ss, why) == [s \in Subs |-> IF s \in ss THEN excused[s] \cup {why} ELSE excused[s]]

-------------------------------------------------------------------------------
(* The slot table.                                                          *)

Entry(s, kind) == [sub |-> s, kind |-> kind]
Queued(q) == {q[i].sub : i \in DOMAIN q}
Launches(q) == {q[i].sub : i \in {j \in DOMAIN q : q[j].kind = "Launch"}}

\* alive: a row that is a sub, not ended and not finished
Alive(r, f) == {s \in Subs : r[s] = "sub" /\ s \notin f}
Live == Alive(row, finished)

\* (fault: a holder stays until it lets go)
HealKept(h, live) == h

\* heal: a holder that is no live sub goes, unless its row is still to come
Heal(h, live) ==
  IF h # None /\ (h \in live \/ (row[h] = "none" /\ fresh)) THEN h ELSE None

\* (fault: a gate does not look at the merges)
GateGoes(e, merge) == FALSE

\* after_merges: a gate waits for the merges in flight
Waits(e, merge) == e.sub \in Gates /\ merge

\* advance_locked passes stale entries and stops at a live one, or a gate that waits
Stops(q, live, merge) == {i \in DOMAIN q : q[i].sub \in live \/ Waits(q[i], merge)}
HeadOf(q, live, merge) ==
  CHOOSE i \in Stops(q, live, merge) : \A j \in Stops(q, live, merge) : i <= j

\* A table as a step leaves it: what it passed as stale, and what it starts.
Table(h, q, passed, start) == [holder |-> h, queue |-> q, passed |-> passed, start |-> start]
Unmoved == Table(holder, queue, <<>>, <<>>)

\* advance_locked, on a table with holder h and queue q
Advance(h, q, live, merge) ==
  LET at == HeadOf(q, live, merge) IN
  IF Heal(h, live) # None THEN Table(Heal(h, live), q, <<>>, <<>>)
  ELSE IF Stops(q, live, merge) = {} THEN Table(None, <<>>, q, <<>>)
  ELSE IF Waits(q[at], merge)
  THEN Table(None, SubSeq(q, at, Len(q)), SubSeq(q, 1, at - 1), <<>>)
  ELSE Table(q[at].sub, SubSeq(q, at + 1, Len(q)), SubSeq(q, 1, at - 1), <<q[at]>>)

\* the queue without s, which has at most one place in it
Without(q, s) ==
  IF s \in Queued(q) THEN RemoveAt(q, CHOOSE i \in DOMAIN q : q[i].sub = s) ELSE q

\* (fault: a holder that leaves is only taken out of the queue)
LeaveQueue(s, live, merge) == Advance(holder, Without(queue, s), live, merge)

\* leave: s out of the holder's place and of the queue
Leave(s, live, merge) ==
  IF row[s] # "none" \/ holder = s \/ s \in Queued(queue)
  THEN Advance(IF holder = s THEN None ELSE holder, Without(queue, s), live, merge)
  ELSE Unmoved

\* The table becomes t; recipes is held.json as the caller leaves it.  Passed
\* Launch entries lose their recipe (clear_wait); one whose spawn_chat call has
\* not written it yet loses its place all the same.
Settle(t, recipes, gone) ==
  /\ holder' = t.holder /\ queue' = t.queue
  /\ due' = (due \ gone) \cup Launches(t.start)
  /\ held' = recipes \ Launches(t.passed)
  /\ nudge' = nudge \cup (Queued(t.start) \ Launches(t.start))

Dropped(t) == {s \in Launches(t.passed) : call[s] \in {"queued", "hold"}}

\* release: what is queued as a Launch loses its recipe too
Release(s, live) ==
  LET t == Leave(s, live, merging) IN
    /\ Settle(t, held \ ({s} \cap Launches(queue)), {})
    /\ excused' = Excuse(Dropped(t), "dropped")

-------------------------------------------------------------------------------
(* spawn_chat.                                                              *)

\* decide_spawn
DecideSpawn(s) ==
  /\ call[s] = "new"
  /\ LET h == Heal(holder, Live) IN
       IF h = None /\ queue = <<>> /\ ~(s \in Gates /\ merging)
       THEN /\ holder' = s /\ fresh' = TRUE /\ queue' = queue
            /\ call' = [call EXCEPT ![s] = "claimed"]
       ELSE /\ holder' = h /\ fresh' = fresh
            /\ queue' = Append(queue, Entry(s, "Launch"))
            /\ call' = [call EXCEPT ![s] = "queued"]
  /\ UNCHANGED <<rows, held, process, due, launch, byCard, nudge, cont, ask, card,
                 merging, used, history>>

\* spawn_session_as and register_new_session: a row that is no sub yet
SpawnUp(s) ==
  /\ call[s] = "claimed"
  /\ call' = [call EXCEPT ![s] = "bare"] /\ row' = [row EXCEPT ![s] = "bare"]
  /\ child' = child \cup {s}
  /\ UNCHANGED <<slot, finished, held, turn, allowed, dirty, pend, carded, due, launch,
                 byCard, nudge, cont, ask, card, merging, used, history>>

\* the child never started: the slot goes back
SpawnFails(s) ==
  /\ call[s] = "claimed" /\ Spend("faults", MaxFaults)
  /\ call' = [call EXCEPT ![s] = "over"]
  /\ Release(s, Live)
  /\ UNCHANGED <<fresh, rows, process, launch, byCard, cont, ask, card, merging, sent, fallen>>

\* mark_as_sub
MarkSub(s) ==
  /\ call[s] = "bare"
  /\ call' = [call EXCEPT ![s] = "send"] /\ row' = [row EXCEPT ![s] = "sub"]
  /\ UNCHANGED <<slot, finished, held, process, due, launch, byCard, nudge, cont, ask,
                 card, merging, used, history>>

\* the first message was written: how s came to wait no longer matters
Begin(s) ==
  /\ sent' = sent \cup {s}
  /\ excused' = [excused EXCEPT ![s] = @ \ {"asked", "dropped"}]

SpawnSend(s) ==
  /\ call[s] = "send" /\ s \in child
  /\ call' = [call EXCEPT ![s] = "over"]
  /\ turn' = turn \cup {s} /\ Begin(s)
  /\ UNCHANGED <<slot, rows, held, child, allowed, dirty, pend, carded, due, launch,
                 byCard, nudge, cont, ask, card, merging, used, fallen>>

\* end_orphaned_sub: the first message did not reach the child
SpawnSendFails(s) ==
  /\ call[s] = "send" /\ SendFault(s)
  /\ call' = [call EXCEPT ![s] = "over"]
  /\ row' = [row EXCEPT ![s] = "ended"] /\ child' = child \ {s} /\ turn' = turn \ {s}
  /\ allowed' = allowed \ {s}
  /\ Release(s, Alive(row', finished))
  /\ UNCHANGED <<fresh, finished, dirty, pend, carded, launch, byCard, cont,
                 ask, card, merging, sent, fallen>>

\* register_queued, up to the row and its mark
Register(s) ==
  /\ call[s] = "queued"
  /\ call' = [call EXCEPT ![s] = "hold"] /\ row' = [row EXCEPT ![s] = "sub"]
  /\ UNCHANGED <<slot, finished, held, process, due, launch, byCard, nudge, cont, ask,
                 card, merging, used, history>>

\* ... and the recipe, with the snapshot that makes the row durable
StoreRecipe(s) ==
  /\ call[s] = "hold"
  /\ call' = [call EXCEPT ![s] = "over"] /\ held' = held \cup {s}
  /\ UNCHANGED <<slot, rows, process, due, launch, byCard, nudge, cont, ask, card,
                 merging, used, history>>

\* the account, the folder or held.json refuses: release_entry_only
RegisterFails(s) ==
  /\ call[s] \in {"queued", "hold"} /\ Spend("faults", MaxFaults)
  /\ call' = [call EXCEPT ![s] = "over"]
  /\ LET t == Leave(s, Live, merging) IN
       /\ Settle(t, held, {})
       /\ excused' = Excuse(Dropped(t), "dropped")
  /\ UNCHANGED <<fresh, rows, process, launch, byCard, cont, ask, card, merging, sent, fallen>>

-------------------------------------------------------------------------------
(* Starting what the slot reached.                                          *)

\* (fault: a start that failed asks nobody)
LaunchErrorUnseen(s, recipes) ==
  LET t == Leave(s, Live, merging)
  IN /\ Settle(t, recipes, {s})
     /\ byCard' = byCard \ {s} /\ excused' = Excuse(Dropped(t), "dropped")
     /\ UNCHANGED card

\* (fault: a start that failed keeps the slot)
LaunchErrorHolds(s, recipes) ==
  /\ Settle(Unmoved, recipes, {s})
  /\ card' = [card EXCEPT ![s] = IF s \in recipes THEN "open" ELSE @]
  /\ byCard' = byCard \ {s} /\ UNCHANGED excused

\* The launch of s failed with held.json as recipes: a slot's launch gives the
\* slot back (release_entry_only), and Joe is asked while there is a recipe.
LaunchError(s, recipes) ==
  LET t == IF s \in byCard THEN Unmoved ELSE Leave(s, Live, merging)
  IN /\ Settle(t, recipes, {s})
     /\ card' = [card EXCEPT ![s] =
                   IF s \in recipes THEN "open" ELSE @]
     /\ byCard' = byCard \ {s}
     /\ excused' = Excuse(Dropped(t) \cup (IF call[s] = "hold" THEN {s} ELSE {}), "dropped")

\* (fault: whether the row ended is not asked)
MayStartBlind(s) == s \in held

\* held, and the row is a sub that has not ended
MayStart(s) == s \in held /\ row[s] = "sub"

\* run_start: launch_held claims the sub and reads its recipe
RunStart(s) ==
  /\ s \in due
  /\ \/ /\ launch[s] # "no" /\ due' = due \ {s}
        /\ UNCHANGED <<holder, queue, held, launch, byCard, nudge, card, excused>>
     \/ /\ launch[s] = "no" /\ MayStart(s)
        /\ due' = due \ {s} /\ launch' = [launch EXCEPT ![s] = "checked"]
        /\ UNCHANGED <<holder, queue, held, byCard, nudge, card, excused>>
     \/ /\ launch[s] = "no" /\ ~MayStart(s)
        /\ LaunchError(s, IF row[s] = "ended" THEN held \ {s} ELSE held)
        /\ UNCHANGED launch
  /\ UNCHANGED <<fresh, rows, process, call, cont, ask, merging, used, sent, fallen>>

\* Joe's "Try again" on the card
TryAgain(s) ==
  /\ card[s] = "open" /\ launch[s] = "no" /\ MayStart(s)
  /\ card' = [card EXCEPT ![s] = "no"]
  /\ launch' = [launch EXCEPT ![s] = "checked"] /\ byCard' = byCard \cup {s}
  /\ UNCHANGED <<slot, rows, held, process, call, due, nudge, cont, ask, merging, used,
                 history>>

\* a skip parks the sub until the next restart
SkipCard(s) ==
  /\ card[s] = "open"
  /\ card' = [card EXCEPT ![s] = "left"]
  /\ UNCHANGED <<slot, rows, held, process, call, due, launch, byCard, nudge, cont, ask,
                 merging, used, history>>

\* The child is up; the row was looked at before.
LaunchUp(s) ==
  /\ launch[s] = "checked"
  /\ launch' = [launch EXCEPT ![s] = "spawned"] /\ child' = child \cup {s}
  /\ UNCHANGED <<slot, rows, held, turn, allowed, dirty, pend, carded, call, due, byCard,
                 nudge, cont, ask, card, merging, used, history>>

\* (fault: the recipe stays)
KeepsRecipe(s) ==
  /\ launch[s] = "spawned" /\ launch' = [launch EXCEPT ![s] = "up"]
  /\ UNCHANGED <<slot, rows, held, process, call, due, byCard, nudge, cont, ask, card,
                 merging, used, history>>

\* Only now is the recipe taken.
TakesRecipe(s) ==
  /\ launch[s] = "spawned" /\ launch' = [launch EXCEPT ![s] = "up"]
  /\ held' = held \ {s}
  /\ UNCHANGED <<slot, rows, process, call, due, byCard, nudge, cont, ask, card, merging,
                 used, history>>

LaunchFails(s) ==
  /\ launch[s] = "checked" /\ Spend("faults", MaxFaults)
  /\ launch' = [launch EXCEPT ![s] = "no"]
  /\ LaunchError(s, held)
  /\ UNCHANGED <<fresh, rows, process, call, cont, ask, merging, sent, fallen>>

LaunchSend(s) ==
  /\ launch[s] = "up" /\ s \in child
  /\ launch' = [launch EXCEPT ![s] = "no"] /\ byCard' = byCard \ {s}
  /\ turn' = turn \cup {s} /\ Begin(s)
  /\ UNCHANGED <<slot, rows, held, child, allowed, dirty, pend, carded, call, due, nudge,
                 cont, ask, card, merging, used, fallen>>

\* the first message did not arrive: the child is stopped, the recipe put back
LaunchSendFails(s) ==
  /\ launch[s] = "up" /\ SendFault(s)
  /\ launch' = [launch EXCEPT ![s] = "no"]
  /\ child' = child \ {s} /\ turn' = turn \ {s} /\ allowed' = allowed \ {s}
  /\ LaunchError(s, held \cup {s})
  /\ UNCHANGED <<fresh, rows, dirty, pend, carded, call, cont, ask, merging, sent,
                 fallen>>

\* nudge: SLOT_FREE_TEXT to a sub the slot reached, or the daemon's reminder.
\* A busy child takes the text at its next step; the send may also fail, as does
\* the --resume of a sub that never ran.
Nudge(s) ==
  /\ s \in nudge
  /\ nudge' = nudge \ {s}
  /\ \/ /\ row[s] = "sub" /\ s \in sent \ (finished \cup turn)
        /\ child' = child \cup {s} /\ turn' = turn \cup {s} /\ fallen' = fallen \ {s}
     \/ UNCHANGED <<child, turn, fallen>>
  /\ UNCHANGED <<slot, rows, held, allowed, dirty, pend, carded, call, due, launch,
                 byCard, cont, ask, card, merging, used, sent, excused>>

-------------------------------------------------------------------------------
(* A running sub.                                                           *)

\* (fault: a sub that waits already is queued again)
RequestsTwice(s) ==
  LET h == Heal(holder, Live) IN
  IF h = s THEN holder' = h /\ queue' = queue
  ELSE IF h = None /\ queue = <<>> THEN holder' = s /\ queue' = queue
  ELSE holder' = h /\ queue' = Append(queue, Entry(s, "Wake"))

\* (fault: an empty queue is taken for a free slot)
RequestsShort(s) ==
  LET h == Heal(holder, Live) IN
  IF h = s \/ s \in Queued(queue) THEN holder' = h /\ queue' = queue
  ELSE IF queue = <<>> THEN holder' = s /\ queue' = queue
  ELSE holder' = h /\ queue' = Append(queue, Entry(s, "Wake"))

\* (fault: a free slot is taken past the queue)
RequestsPast(s) ==
  LET h == Heal(holder, Live) IN
  IF h = s \/ s \in Queued(queue) THEN holder' = h /\ queue' = queue
  ELSE IF h = None THEN holder' = s /\ queue' = queue
  ELSE holder' = h /\ queue' = Append(queue, Entry(s, "Wake"))

\* request_slot
Requests(s) ==
  LET h == Heal(holder, Live) IN
  IF h = s \/ s \in Queued(queue) THEN holder' = h /\ queue' = queue
  ELSE IF h = None /\ queue = <<>> THEN holder' = s /\ queue' = queue
  ELSE holder' = h /\ queue' = Append(queue, Entry(s, "Wake"))

\* check_write: an Edit asks the guard
CheckWrite(s) ==
  /\ s \in turn /\ row[s] \in {"sub", "ended"} /\ s \notin allowed
  /\ Requests(s)
  /\ IF holder' = s
     THEN /\ allowed' = allowed \cup {s}
          /\ excused' = IF ask[s] = "clean" THEN Excuse({s}, "loose")
                        ELSE [excused EXCEPT ![s] = @ \ {"loose"}]
     ELSE UNCHANGED <<allowed, excused>>
  /\ UNCHANGED <<fresh, rows, held, child, turn, dirty, pend, carded, tasks, merging,
                 used, sent, fallen>>

\* subchat send with writes: true.  A sub that never started is asked for too.
AskToWrite(s) ==
  /\ row[s] = "sub" /\ Spend("talks", MaxTalks)
  /\ Requests(s)
  /\ fallen' = fallen \ {s}
  /\ excused' = Excuse({s} \ sent, "asked")
  /\ UNCHANGED <<fresh, rows, held, process, tasks, merging, sent>>

EditLands(s) ==
  /\ s \in allowed
  /\ allowed' = allowed \ {s} /\ dirty' = dirty \cup {s}
  /\ UNCHANGED <<slot, rows, held, child, turn, pend, carded, tasks, merging, used, history>>

Commit(s) ==
  /\ s \in dirty /\ s \in turn
  /\ dirty' = dirty \ {s}
  /\ UNCHANGED <<slot, rows, held, child, turn, allowed, pend, carded, tasks, merging,
                 used, history>>

\* on_waiting_on_joe: the holder posted a question card
AskJoe(s) ==
  /\ s \in turn /\ row[s] = "sub" /\ ask[s] = "no" /\ holder = s /\ Spend("talks", MaxTalks)
  /\ ask' = [ask EXCEPT ![s] = "looked"]
  /\ UNCHANGED <<slot, rows, held, process, call, due, launch, byCard, nudge, cont, card,
                 merging, history>>

\* (fault: git is not asked)
NothingUncommitted(s) == FALSE

\* own_uncommitted
Uncommitted(s) == s \in dirty

\* ... on the blocking pool
AskReadsGit(s) ==
  /\ ask[s] = "looked"
  /\ ask' = [ask EXCEPT ![s] = IF Uncommitted(s) THEN "no" ELSE "clean"]
  /\ excused' = Excuse({s} \cap (allowed \ dirty), "loose")
  /\ UNCHANGED <<slot, rows, held, process, call, due, launch, byCard, nudge, cont, card,
                 merging, used, sent, fallen>>

AskReleases(s) ==
  /\ ask[s] = "clean"
  /\ ask' = [ask EXCEPT ![s] = "no"]
  /\ Release(s, Live)
  /\ UNCHANGED <<fresh, rows, process, call, launch, byCard, cont, card, merging, used,
                 sent, fallen>>

\* request_finish: refused while its own files are uncommitted
RequestFinish(s) ==
  /\ s \in turn /\ row[s] = "sub" /\ s \notin dirty /\ s \notin pend
  /\ pend' = pend \cup {s}
  /\ UNCHANGED <<slot, rows, held, child, turn, allowed, dirty, carded, tasks, merging,
                 used, history>>

\* commit_finish and finished_rest; a finish over uncommitted edits is dropped
Finish(s) ==
  /\ finished' = finished \cup {s} /\ carded' = carded \ {s} /\ child' = child \ {s}
  /\ Release(s, Alive(row, finished'))

TurnEnds(s) ==
  /\ s \in turn /\ s \notin allowed
  /\ turn' = turn \ {s} /\ pend' = pend \ {s}
  /\ \/ /\ s \in pend /\ row[s] = "sub" /\ s \notin dirty
        /\ Finish(s)
     \/ /\ s \in pend /\ row[s] = "sub" /\ s \in dirty
        /\ nudge' = nudge \cup {s}
        /\ UNCHANGED <<holder, queue, finished, held, child, carded, due, excused>>
     \/ /\ s \notin pend \/ row[s] # "sub"
        /\ UNCHANGED <<holder, queue, finished, held, child, carded, due, nudge, excused>>
  /\ UNCHANGED <<fresh, row, allowed, dirty, call, launch, byCard, cont, ask, card,
                 merging, used, sent, fallen>>

\* The process dies.  A finish that was accepted is committed; a turn that was
\* open is a death (note_death), once until the sweep has seen a child again.
Dies(s) ==
  /\ s \in child /\ Spend("faults", MaxFaults)
  /\ turn' = turn \ {s} /\ allowed' = allowed \ {s} /\ pend' = pend \ {s}
  /\ \/ /\ s \in pend /\ row[s] = "sub" /\ s \notin dirty
        /\ Finish(s) /\ UNCHANGED fallen
     \/ /\ ~(s \in pend /\ s \notin dirty) /\ s \in (turn \cap Live) \ carded
        /\ child' = child \ {s} /\ carded' = carded \cup {s}
        /\ fallen' = fallen \cup {s}
        /\ Release(s, Live) /\ UNCHANGED finished
     \/ /\ ~(s \in pend /\ row[s] = "sub" /\ s \notin dirty)
        /\ s \notin (turn \cap Live) \ carded
        /\ child' = child \ {s}
        /\ fallen' = fallen \cup ({s} \cap turn \cap Live)
        /\ excused' = Excuse({s} \cap carded, "silent")
        /\ UNCHANGED <<holder, queue, finished, held, carded, due, nudge>>
  /\ UNCHANGED <<fresh, row, dirty, call, launch, byCard, cont, ask, card, merging, sent>>

-------------------------------------------------------------------------------
(* Joe, the main chat and the ways out.                                     *)

\* continue_sub: prepare_continue, then the respawn
Continue(s) ==
  /\ row[s] = "sub" /\ s \notin turn /\ s \notin held /\ cont[s] = "no"
  /\ call[s] = "over" /\ Spend("talks", MaxTalks)
  /\ cont' = [cont EXCEPT ![s] = IF s \in finished THEN "fin" ELSE "run"]
  /\ finished' = finished \ {s} /\ carded' = carded \ {s}
  /\ UNCHANGED <<slot, row, held, child, turn, allowed, dirty, pend, call, due, launch,
                 byCard, nudge, ask, card, merging, history>>

ContinueUp(s) ==
  /\ cont[s] # "no" /\ s \in sent
  /\ cont' = [cont EXCEPT ![s] = "no"]
  /\ child' = child \cup {s} /\ turn' = turn \cup {s} /\ fallen' = fallen \ {s}
  /\ UNCHANGED <<slot, rows, held, allowed, dirty, pend, carded, call, due, launch,
                 byCard, nudge, ask, card, merging, used, sent, excused>>

\* a failed send leaves the sub as it was found
ContinueFails(s) ==
  /\ cont[s] # "no"
  /\ finished' = IF cont[s] = "fin" THEN finished \cup {s} ELSE finished
  /\ cont' = [cont EXCEPT ![s] = "no"]
  /\ UNCHANGED <<slot, row, held, process, call, due, launch, byCard, nudge, ask, card,
                 merging, used, history>>

\* "Nudge again" on the card about a death (request_nudge)
NudgeAgain(s) ==
  /\ s \in fallen /\ s \in carded /\ row[s] = "sub" /\ s \notin nudge
  /\ nudge' = nudge \cup {s}
  /\ UNCHANGED <<slot, rows, held, process, call, due, launch, byCard, cont, ask, card,
                 merging, used, history>>

\* What an end takes from s whatever the path: mark_ended and the process.
Stop(s) ==
  /\ row' = [row EXCEPT ![s] = "ended"]
  /\ child' = child \ {s} /\ turn' = turn \ {s} /\ allowed' = allowed \ {s}
  /\ dirty' = dirty \ {s} /\ pend' = pend \ {s} /\ fallen' = fallen \ {s}

\* ... and a start or a resume of s that is under way may still come
Late(s) ==
  IF launch[s] # "no" \/ cont[s] # "no" THEN {"late"} ELSE {}

\* end_sub: "End it", "Drop it", a close that takes its subs too
EndSub(s) ==
  /\ row[s] = "sub"
  /\ Stop(s) /\ carded' = carded \ {s} /\ card' = [card EXCEPT ![s] = "no"]
  /\ LET t == Leave(s, Alive(row', finished), merging) IN
       /\ Settle(t, held \ {s}, {})
       /\ excused' = [Excuse(Dropped(t), "dropped") EXCEPT ![s] = Late(s)]
  /\ UNCHANGED <<fresh, finished, call, launch, byCard, cont, ask, merging, used, sent>>

\* mark_ended by a path that knows nothing of slots (close_session, SessionEnd):
\* the sweep takes the slot, a finish that was accepted is refused (commit_finish)
EndRow(s) ==
  /\ row[s] = "sub" /\ Spend("faults", MaxFaults)
  /\ Stop(s)
  /\ excused' = [excused EXCEPT ![s] = Late(s)]
  /\ UNCHANGED <<slot, finished, held, carded, tasks, merging, sent>>

\* move_to_sidebar: the chat is Joe's now, and its process none of the slot's
Move(s) ==
  /\ row[s] = "sub" /\ s \notin held /\ call[s] = "over"
  /\ row' = [row EXCEPT ![s] = "moved"] /\ finished' = finished \ {s}
  /\ child' = child \ {s} /\ turn' = turn \ {s} /\ allowed' = allowed \ {s}
  /\ dirty' = dirty \ {s} /\ pend' = pend \ {s}
  /\ carded' = carded \ {s} /\ fallen' = fallen \ {s}
  /\ Release(s, Alive(row', finished'))
  /\ UNCHANGED <<fresh, call, launch, byCard, cont, ask, card, merging, used, sent>>

MergeStarts ==
  /\ ~merging /\ Spend("merges", MaxMerges)
  /\ merging' = TRUE
  /\ UNCHANGED <<slot, rows, held, process, tasks, history>>

-------------------------------------------------------------------------------
(* The sweeps, and a restart.                                               *)

\* The places of a set, in their order.
Enumerations(places) ==
  {f \in [1..Cardinality(places) -> places] : \A m, n \in DOMAIN f : m < n => f[m] < f[n]}

\* writers::sweep: stale entries out, then advance
Sweep(merge) ==
  IF \E s \in Queued(queue) \cup ({holder} \ {None}) : row[s] # "none"
  THEN \E f \in Enumerations({i \in DOMAIN queue : queue[i].sub \in Live}) :
         LET t == Advance(holder, [n \in DOMAIN f |-> queue[f[n]]], Live, merge)
             stale == Launches(queue) \ Live
         IN /\ Settle(t, held \ stale, {})
            /\ excused' = Excuse({s \in stale : call[s] = "queued"}, "dropped")
  ELSE UNCHANGED <<holder, queue, due, held, nudge, excused>>

SlotSweep ==
  /\ Sweep(merging)
  /\ UNCHANGED <<fresh, rows, process, call, launch, byCard, cont, ask, card, merging,
                 used, sent, fallen>>

\* end_merge, and the sweep that follows it
MergeEnds ==
  /\ merging /\ merging' = FALSE
  /\ Sweep(FALSE)
  /\ UNCHANGED <<fresh, rows, process, call, launch, byCard, cont, ask, card, used, sent,
                 fallen>>

\* held::sweep: the recipe of a row that ended or vanished is forgotten
HeldSweep ==
  /\ held' = held \ {s \in Subs : row[s] \in {"none", "ended"}}
  /\ UNCHANGED <<slot, rows, process, tasks, merging, used, history>>

\* sweep_dead: a live child clears the mark of an earlier death
SeesChild(s) ==
  /\ s \in child /\ s \in carded
  /\ carded' = carded \ {s}
  /\ UNCHANGED <<slot, rows, held, child, turn, allowed, dirty, pend, tasks, merging,
                 used, history>>

\* a claim whose row never came is believed for CLAIM_GRACE
ClaimExpires ==
  /\ fresh /\ holder # None /\ row[holder] = "none"
  /\ fresh' = FALSE
  /\ UNCHANGED <<holder, queue, rows, held, process, tasks, merging, used, history>>

\* The daemon stops and comes back: processes, slots and cards are gone, the
\* Launch queue is rebuilt from held.json and its head starts (restore_inner).
Restart ==
  /\ Spend("restarts", MaxRestarts)
  /\ row' = [s \in Subs |-> IF call[s] \in {"bare", "hold"} THEN "none" ELSE row[s]]
  /\ call' = [s \in Subs |-> IF call[s] = "new" THEN "new" ELSE "over"]
  /\ finished' = {s \in Subs : s \in finished \/ cont[s] = "fin"}
  /\ \E order \in SetToSeqs(held \cap Alive(row', finished')) :
       LET q == [i \in DOMAIN order |-> Entry(order[i], "Launch")]
           t == Advance(None, q, Alive(row', finished'), FALSE)
       IN holder' = t.holder /\ queue' = t.queue /\ due' = Launches(t.start)
  /\ fresh' = FALSE /\ merging' = FALSE
  /\ child' = {} /\ turn' = {} /\ allowed' = {} /\ pend' = {} /\ carded' = {}
  /\ launch' = [s \in Subs |-> "no"] /\ byCard' = {} /\ nudge' = {}
  /\ cont' = [s \in Subs |-> "no"] /\ ask' = [s \in Subs |-> "no"]
  /\ card' = [s \in Subs |-> "no"]
  /\ fallen' = {}
  /\ excused' = [s \in Subs |-> {}]
  /\ UNCHANGED <<held, dirty, sent>>

Next ==
  \/ \E s \in Subs :
       \/ DecideSpawn(s) \/ SpawnUp(s) \/ SpawnFails(s) \/ MarkSub(s)
       \/ SpawnSend(s) \/ SpawnSendFails(s)
       \/ Register(s) \/ StoreRecipe(s) \/ RegisterFails(s)
       \/ RunStart(s) \/ TryAgain(s) \/ SkipCard(s)
       \/ LaunchUp(s) \/ TakesRecipe(s) \/ LaunchFails(s)
       \/ LaunchSend(s) \/ LaunchSendFails(s)
       \/ Nudge(s) \/ CheckWrite(s) \/ AskToWrite(s) \/ EditLands(s) \/ Commit(s)
       \/ AskJoe(s) \/ AskReadsGit(s) \/ AskReleases(s)
       \/ RequestFinish(s) \/ TurnEnds(s) \/ Dies(s)
       \/ Continue(s) \/ ContinueUp(s) \/ ContinueFails(s) \/ NudgeAgain(s)
       \/ EndSub(s) \/ EndRow(s) \/ Move(s) \/ SeesChild(s)
  \/ MergeStarts \/ SlotSweep \/ MergeEnds \/ HeldSweep \/ ClaimExpires \/ Restart

\* The daemon's own tasks run; the tick comes every 60 seconds.  Nothing is
\* assumed of Joe, of the subs, or that a launch or a send ever succeeds.
CallStep(s) == SpawnUp(s) \/ SpawnFails(s) \/ MarkSub(s) \/ SpawnSend(s)
  \/ SpawnSendFails(s) \/ Register(s) \/ StoreRecipe(s) \/ RegisterFails(s)
LaunchStep(s) == LaunchUp(s) \/ TakesRecipe(s) \/ LaunchFails(s) \/ LaunchSend(s)
  \/ LaunchSendFails(s)

Fairness ==
  /\ \A s \in Subs :
       /\ WF_vars(CallStep(s)) /\ WF_vars(RunStart(s)) /\ WF_vars(LaunchStep(s))
       /\ WF_vars(Nudge(s)) /\ WF_vars(AskReadsGit(s)) /\ WF_vars(AskReleases(s))
       /\ WF_vars(ContinueUp(s) \/ ContinueFails(s))
  /\ WF_vars(SlotSweep) /\ WF_vars(HeldSweep) /\ WF_vars(MergeEnds) /\ WF_vars(ClaimExpires)

Spec == Init /\ [][Next]_vars
FairSpec == Spec /\ Fairness

-------------------------------------------------------------------------------
(* Properties.                                                              *)

Entries == [sub : Subs, kind : {"Launch", "Wake"}]
Races == {"dropped", "late", "loose", "asked", "silent"}

\* Every variable keeps its type: Slot and Entry (writers.rs), the held set and
\* the flags of the registry rows.
TypeOK ==
  /\ holder \in Subs \cup {None} /\ fresh \in BOOLEAN /\ queue \in Seq(Entries)
  /\ row \in [Subs -> {"none", "bare", "sub", "ended", "moved"}] /\ finished \subseteq Subs
  /\ held \subseteq Subs
  /\ child \subseteq Subs /\ turn \subseteq Subs /\ allowed \subseteq Subs
  /\ dirty \subseteq Subs /\ pend \subseteq Subs /\ carded \subseteq Subs
  /\ call \in [Subs -> {"new", "claimed", "bare", "send", "queued", "hold", "over"}]
  /\ due \subseteq Subs /\ launch \in [Subs -> {"no", "checked", "spawned", "up"}]
  /\ byCard \subseteq Subs /\ nudge \subseteq Subs
  /\ cont \in [Subs -> {"no", "run", "fin"}] /\ ask \in [Subs -> {"no", "looked", "clean"}]
  /\ card \in [Subs -> {"no", "open", "left"}]
  /\ merging \in BOOLEAN
  /\ used \in [Costs -> Nat]
  /\ sent \subseteq Subs /\ fallen \subseteq Subs /\ excused \in [Subs -> SUBSET Races]

\* A sub is in the slot once: as the holder, or at one place of the queue, over
\* every way in (spawn, guard, follow-up, restart).
SlotIsDistinct ==
  /\ \A i, j \in DOMAIN queue : queue[i].sub = queue[j].sub => i = j
  /\ holder \notin Queued(queue)

\* A stored recipe of a live sub is on its way: queued, being started, or on
\* Joe's card (writers.rs run_start, held.rs).  Except: its queue entry was
\* taken for stale while its spawn_chat call had not registered it yet.
OnItsWay(s) == s \in Launches(queue) \cup due \/ launch[s] # "no" \/ card[s] # "no"
RecipeIsReachable ==
  \A s \in held \cap Live :
    call[s] = "over" => OnItsWay(s) \/ "dropped" \in excused[s]

\* What register_queued says of the sub it registers (writers.rs): its recipe is handed
\* to held, and no pass starts it, for "the slot does".
QueuedStartsByItself == \A s \in held \cap Live : call[s] = "over" => OnItsWay(s)

\* An ended sub has no process (resume.rs end_sub, launch_held), unless it was
\* ended while one was being started for it.
EndedStartsNothing ==
  \A s \in Subs : row[s] = "ended" /\ s \in child => "late" \in excused[s]

\* Two running subs never have an edit under way at once (check_write), unless
\* one of them asked Joe and went on editing meanwhile.
OneEditor ==
  \A s, t \in allowed \cap Live :
    s = t \/ "loose" \in excused[s] \cup excused[t]

\* A sub whose process died in a turn does not keep the slot (note_death), unless
\* the death came before the sweep had seen the process again.
SlotLeavesTheDead == holder \in fallen \cap Live => "silent" \in excused[holder]

\* A stored recipe is of a sub that has not begun: its first message was never written,
\* and it has a process only while launch_held is between the spawn and the release of
\* the recipe (held.rs LAUNCHING); one that is put back comes without the child.
HeldHasNotBegun ==
  \A s \in held : s \notin sent /\ (s \in child => launch[s] = "spawned")

\* A running sub with an edit under way or uncommitted keeps the slot
\* (on_waiting_on_joe), except for an edit after the look at git.
DirtySlotStays ==
  [][\A s \in turn \cap turn' \cap (allowed \cup dirty) \cap Live \cap Live' :
       holder = s => holder' = s \/ "loose" \in excused[s]]_vars

\* The slot goes to the longest waiting: whoever gets it leaves no live sub
\* waiting that was ahead (decide_spawn, request_slot, advance_locked).
NobodyOvertakes ==
  [][\A i \in DOMAIN queue :
       /\ holder' \notin {holder, None} /\ queue[i].sub \in Queued(queue')
       /\ used'["restarts"] = used["restarts"]
       => \E j \in 1..(i - 1) : queue[j].sub = holder']_vars

\* A gate that has not begun gets the slot only when no merge is running
\* (advance_locked, decide_spawn).
GateStartsAfterMerges ==
  [][\A g \in Gates \ (sent \cup turn) :
       holder' = g /\ holder # g => ~merging' \/ "asked" \in excused'[g]]_vars

\* A slot that somebody waits for does not stay with a sub that is gone: it
\* comes to a live one, or nobody waits any more (heal, sweep, CLAIM_GRACE).
SlotMovesOn ==
  queue # <<>> /\ holder \notin Live ~> queue = <<>> \/ holder \in Live

\* A sub the slot has reached is started, or gives the slot to the next
\* (run_start), unless a follow-up gave the slot to one that is not starting.
ReachedIsStarted ==
  \A s \in Subs :
    holder = s /\ s \in held /\ "asked" \notin excused[s] ~> holder # s \/ s \notin held
        \/ "asked" \in excused[s]
===============================================================================
