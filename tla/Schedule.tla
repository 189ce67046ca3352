------------------------------- MODULE Schedule -------------------------------
(***************************************************************************)
(* The firing of scheduled items (daemon/schedule.rs, schedule_fire.rs)    *)
(* over their file (sessions/scheduled_items.rs).  The file is the only    *)
(* state: every operation loads it, changes one record and rewrites it     *)
(* under WRITE_LOCK.  Around it run the tick loop, the fire_now and update *)
(* RPCs of several clients, the turns of the target sessions, and a daemon *)
(* that may die anywhere.  A rewrite may fail; that is only logged.        *)
(*                                                                         *)
(* A job is one firing (or one edit) in flight.  An ARMING is one write    *)
(* that leaves an item Pending: creating, editing or requeueing it.        *)
(***************************************************************************)
EXTENDS Integers, FiniteSets

CONSTANTS
  Items,            \* scheduled items; an id is a fresh uuid
  Recurring,        \* the items with a recurrence
  Gated,            \* the items with after_meeting set
  Sessions,         \* the chats Message items write into
  Target,           \* the session of each item; NoSession for a NewChat item
  NoSession,
  Guards,           \* pre-fire guard commands
  NoGuard,
  Tick,             \* the tick loop
  Callers,          \* the RPC calls that can be in flight
  NoItem,
  Grace,            \* schedule_grace_secs
  Period,           \* the longest wait for the next occurrence
  MaxWait,          \* AFTER_MEETING_MAX_WAIT_SECS
  MaxTime,          \* bound: the clock stops here
  MaxRequests,         \* bound: schedule_update and schedule_fire_now calls
  MaxCrashes,       \* bound: deaths of the daemon
  MaxFailedWrites   \* bound: rewrites of the file that fail

ASSUME ScheduleConstants ==
  /\ Recurring \subseteq Items /\ Gated \subseteq Items
  /\ NoItem \notin Items /\ Tick \notin Callers
  /\ NoSession \notin Sessions /\ NoGuard \notin Guards
  /\ Target \in [Items -> Sessions \cup {NoSession}]
  /\ Grace \in Nat /\ Period \in Nat \ {0} /\ MaxWait \in Nat /\ MaxTime \in Nat
  /\ MaxRequests \in Nat /\ MaxCrashes \in Nat /\ MaxFailedWrites \in Nat

\* Who began a turn is told apart from nobody and from the user.
ASSUME FirersAreNamed == {"none", "user"} \cap (Callers \cup {Tick}) = {}

Firers == Callers \cup {Tick}
Commands == Guards \cup {NoGuard}
Later == {"missed", "skipped", "failed", "sent"}
Statuses == {"absent", "pending", "firing"} \cup Later

VARIABLES
  now,              \* the clock
  startedAt,        \* when this daemon started
  up,               \* the daemon runs (its startup sweep is done)
  file,             \* scheduled-items.json
  busy,             \* who began the running turn of a session ("none": idle)
  due,              \* what the current tick still has to claim
  guarding,         \* the tick waits for the guards of its due items
  job,              \* the firing or edit each actor has in flight
  requests, crashes, failedWrites,   \* bounds
  \* history
  known,            \* ids ever created
  arm,              \* number of the last arming of each item
  unsaved,          \* armings a claim was taken for whose rewrite failed
  spent,            \* armings whose prompt was delivered
  repeated          \* armings whose prompt was delivered again

bounds  == <<requests, crashes, failedWrites>>
history == <<known, arm, unsaved, spent, repeated>>
vars == <<now, startedAt, up, file, busy, due, guarding, job, bounds, history>>

NoJob == [pc |-> "idle", item |-> NoItem, at |-> 0, guard |-> NoGuard,
          judged |-> NoGuard, from |-> 0, outcome |-> "none", arm |-> 0]

Absent == [status |-> "absent", at |-> 0, guard |-> NoGuard]

Init ==
  /\ now = 1 /\ startedAt = 1 /\ up = TRUE
  /\ file = [i \in Items |-> Absent]
  /\ busy = [s \in Sessions |-> "none"]
  /\ due = {} /\ guarding = FALSE
  /\ job = [f \in Firers |-> NoJob]
  /\ requests = 0 /\ crashes = 0 /\ failedWrites = 0
  /\ known = {} /\ arm = [i \in Items |-> 0]
  /\ unsaved = {} /\ spent = {} /\ repeated = {}

Latest(a, b) == IF a > b THEN a ELSE b

\* (fault) the occurrence that has just passed
LastOccurrences(t) == (t - Period)..(t - 1)

\* recurrence::next_occurrence: strictly after the instant it is given; which
\* instant that is depends on the rule.
NextOccurrences(t) == (t + 1)..(t + Period)

\* is_message_session_busy / lifecycle::is_busy
Busy(i) == Target[i] # NoSession /\ busy[Target[i]] # "none"

\* write_atomic: the new map replaces the file, or the write fails and the
\* caller goes on as if it had not.
Rewrite(i, record) ==
  \/ /\ file' = [file EXCEPT ![i] = record]
     /\ arm' = [arm EXCEPT ![i] = IF record.status = "pending" THEN @ + 1 ELSE @]
     /\ UNCHANGED failedWrites
  \/ /\ failedWrites < MaxFailedWrites
     /\ failedWrites' = failedWrites + 1
     /\ UNCHANGED <<file, arm>>

-------------------------------------------------------------------------------
(* The RPC methods.                                                         *)

\* schedule_create
Create(i, t, g) ==
  /\ up /\ i \notin known
  /\ known' = known \cup {i}
  /\ Rewrite(i, [status |-> "pending", at |-> t, guard |-> g])
  /\ UNCHANGED <<now, startedAt, up, busy, due, guarding, job, requests, crashes,
                 unsaved, spent, repeated>>

\* schedule_update, first half: the stored item is looked up without the lock.
UpdateRead(c, i, t, g) ==
  /\ up /\ job[c].pc = "idle" /\ requests < MaxRequests
  /\ file[i].status # "absent"
  /\ requests' = requests + 1
  /\ job' = [job EXCEPT ![c] = [NoJob EXCEPT !.pc = "edit", !.item = i,
                                  !.at = t, !.guard = g]]
  /\ UNCHANGED <<now, startedAt, up, file, busy, due, guarding, crashes,
                 failedWrites, history>>

\* ... second half: the caller's whole record, always sent as Pending, goes in.
UpdateWrite(c) ==
  /\ job[c].pc = "edit"
  /\ Rewrite(job[c].item, [status |-> "pending", at |-> job[c].at,
                           guard |-> job[c].guard])
  /\ job' = [job EXCEPT ![c] = NoJob]
  /\ UNCHANGED <<now, startedAt, up, busy, due, guarding, requests, crashes,
                 known, unsaved, spent, repeated>>

\* schedule_delete
Delete(i) ==
  /\ up /\ file[i].status # "absent"
  /\ Rewrite(i, Absent)
  /\ UNCHANGED <<now, startedAt, up, busy, due, guarding, job, requests, crashes,
                 known, unsaved, spent, repeated>>

-------------------------------------------------------------------------------
(* Claiming, firing and finishing, shared by the tick loop and fire_now.    *)

\* claim_for_fire: only a Pending item can be claimed.
Claimable(i) == file[i].status = "pending"

\* claim_for_fire: Pending -> Firing, saved (or not) before anything is sent.
Claim(f, i, pc, outcome, judged) ==
  /\ Claimable(i)
  /\ Rewrite(i, [file[i] EXCEPT !.status = "firing"])
  /\ job' = [job EXCEPT ![f] =
       [pc |-> pc, item |-> i, at |-> file[i].at, guard |-> file[i].guard,
        judged |-> judged, from |-> now, outcome |-> outcome, arm |-> arm[i]]]
  /\ unsaved' = IF failedWrites' = failedWrites THEN unsaved
                ELSE unsaved \cup {<<i, arm[i]>>}

\* fire_now: claims at once, whatever fire_at says, and runs no guard.
FireNow(c, i) ==
  /\ up /\ job[c].pc = "idle" /\ requests < MaxRequests
  /\ requests' = requests + 1
  /\ Claim(c, i, "check", "none", NoGuard)
  /\ UNCHANGED <<now, startedAt, up, busy, due, guarding, crashes,
                 known, spent, repeated>>

\* fire_message refuses before it writes: the account is limited, or the session
\* is mid-turn or barred from sending.  A limit or a bar is the environment's choice.
Refuse(f) ==
  /\ job[f].pc = "check" /\ Target[job[f].item] # NoSession
  /\ \E outcome \in {"limited", "failed"} :
        job' = [job EXCEPT ![f].pc = "finish", ![f].outcome = outcome]
  /\ UNCHANGED <<now, startedAt, up, file, busy, due, guarding, bounds, history>>

\* fire_message / fire_new_chat goes ahead: never into a busy session.
StartSend(f) ==
  /\ job[f].pc = "check" /\ ~Busy(job[f].item)
  /\ job' = [job EXCEPT ![f].pc = "sending"]
  /\ UNCHANGED <<now, startedAt, up, file, busy, due, guarding, bounds, history>>

\* The prompt reaches the child (respawned first if need be); the session is
\* marked busy after the write.
Deliver(f) ==
  /\ job[f].pc = "sending"
  /\ LET i == job[f].item  arming == <<job[f].item, job[f].arm>> IN
       /\ busy' = IF Target[i] = NoSession THEN busy
                  ELSE [busy EXCEPT ![Target[i]] = f]
       /\ repeated' = IF arming \in spent THEN repeated \cup {arming} ELSE repeated
       /\ spent' = spent \cup {arming}
  /\ job' = [job EXCEPT ![f].pc = "finish", ![f].outcome = "sent"]
  /\ UNCHANGED <<now, startedAt, up, file, due, guarding, bounds, known, arm, unsaved>>

\* ... or the respawn or the write fails.
SendFails(f) ==
  /\ job[f].pc = "sending"
  /\ job' = [job EXCEPT ![f].pc = "finish", ![f].outcome = "failed"]
  /\ UNCHANGED <<now, startedAt, up, file, busy, due, guarding, bounds, history>>

\* compute_fired, compute_missed, compute_skipped: the record a firing leaves.
\* A limited account requeues it for a slot after its window.
Outcomes(j) ==
  LET requeued(t) == [status |-> "pending", at |-> t, guard |-> j.guard] IN
  IF j.outcome = "limited" THEN {requeued(t) : t \in (j.from + 1)..(j.from + Period)}
  ELSE IF j.item \in Recurring THEN {requeued(t) : t \in NextOccurrences(j.from)}
  ELSE {[status |-> j.outcome, at |-> j.at, guard |-> j.guard]}

\* (fault) the outcome is written whatever became of the record
AlwaysWritesBack(f) == job[f].pc = "finish"

\* finish_fire writes only over a record that is Firing.
WritesBack(f) == job[f].pc = "finish" /\ file[job[f].item].status = "firing"

Finish(f) ==
  /\ WritesBack(f)
  /\ \E record \in Outcomes(job[f]) : Rewrite(job[f].item, record)
  /\ job' = [job EXCEPT ![f] = NoJob]
  /\ UNCHANGED <<now, startedAt, up, busy, due, guarding, requests, crashes,
                 known, unsaved, spent, repeated>>

\* ... and drops the outcome otherwise.
DropOutcome(f) ==
  /\ job[f].pc = "finish" /\ ~WritesBack(f)
  /\ job' = [job EXCEPT ![f] = NoJob]
  /\ UNCHANGED <<now, startedAt, up, file, busy, due, guarding, bounds, history>>

-------------------------------------------------------------------------------
(* The tick loop.                                                           *)

\* grace_lateness_secs / gated_lateness_secs: a one-shot Message is credited the
\* time the daemon was down, a gated item the time a meeting (last seen at
\* `seen`, 0 for never) held it.
Lateness(i, seen) ==
  LET anchor == IF i \in Gated THEN Latest(file[i].at, seen) ELSE file[i].at IN
  IF i \notin Recurring /\ Target[i] # NoSession
  THEN now - Latest(anchor, startedAt)
  ELSE now - anchor

\* (fault) a busy target defers an item for as long as it stays busy
DefersWhileBusy(i, seen) == Busy(i)

\* Within the grace window an item whose session is mid-turn waits for the next
\* tick; past it the item is missed whatever the session does.
Defers(i, seen) == Lateness(i, seen) < Grace /\ Busy(i)

\* tick, first part: pick what is due.  `held` are the gated items a meeting keeps
\* waiting, which it may do until MaxWait.
TickStart ==
  /\ up /\ job[Tick].pc = "idle" /\ due = {} /\ ~guarding
  /\ \E seen \in 0..now :
     \E held \in SUBSET {i \in Gated : now - file[i].at < MaxWait} :
        /\ Gated = {} => seen = 0
        /\ held # {} => seen = now
        /\ due' = {[item |-> i, guard |-> file[i].guard,
                    past |-> Lateness(i, seen) >= Grace, skip |-> FALSE] :
                     i \in {j \in Items \ held : /\ file[j].status = "pending"
                                                 /\ file[j].at <= now
                                                 /\ ~Defers(j, seen)}}
        /\ due' # {}
  /\ guarding' = TRUE
  /\ UNCHANGED <<now, startedAt, up, file, busy, job, bounds, history>>

\* guard_verdicts: all guards run side by side, before any claim; only exit 0 of
\* an item that has one, and is not past grace, skips.
GuardsDone ==
  /\ guarding
  /\ guarding' = FALSE
  /\ \E skips \in SUBSET {d \in due : ~d.past /\ d.guard # NoGuard} :
        due' = (due \ skips) \cup {[d EXCEPT !.skip = TRUE] : d \in skips}
  /\ UNCHANGED <<now, startedAt, up, file, busy, job, bounds, history>>

\* (fault) the busy gate is not asked again
BusyAskedOnce(d) == FALSE

\* claim_unless_busy: the gate again, now that earlier items of this tick fired.
BusyAgain(d) == ~d.past /\ Busy(d.item)

\* (fault) the verdict is applied whatever command it was given for
AnyVerdict(d) == TRUE

\* The verdict belongs to the command the claimed record carries.
SameGuard(d) == file[d.item].guard = d.guard

\* One due item: left alone (busy again, or not Pending any more) ...
TickPasses(d) ==
  /\ ~guarding /\ job[Tick].pc = "idle" /\ d \in due
  /\ BusyAgain(d) \/ ~Claimable(d.item)
  /\ due' = due \ {d}
  /\ UNCHANGED <<now, startedAt, up, file, busy, guarding, job, bounds, history>>

\* ... or claimed: missed past grace, skipped or sent by the verdict of its guard,
\* which runs again if the item now carries another one.
TickClaims(d) ==
  /\ ~guarding /\ job[Tick].pc = "idle" /\ d \in due /\ ~BusyAgain(d)
  /\ IF d.past THEN Claim(Tick, d.item, "finish", "missed", NoGuard)
     ELSE IF ~SameGuard(d) THEN Claim(Tick, d.item, "guard", "none", NoGuard)
     ELSE IF d.skip THEN Claim(Tick, d.item, "finish", "skipped", d.guard)
     ELSE Claim(Tick, d.item, "check", "none", d.guard)
  /\ due' = due \ {d}
  /\ UNCHANGED <<now, startedAt, up, busy, guarding, requests, crashes, known,
                 spent, repeated>>

\* compute_guarded: the guard the claimed record carries decides.
GuardAgain ==
  /\ job[Tick].pc = "guard"
  /\ \E skip \in BOOLEAN :
        /\ skip => job[Tick].guard # NoGuard
        /\ job' = [job EXCEPT ![Tick].judged = job[Tick].guard,
                              ![Tick].pc = IF skip THEN "finish" ELSE "check",
                              ![Tick].outcome = IF skip THEN "skipped" ELSE "none"]
  /\ UNCHANGED <<now, startedAt, up, file, busy, due, guarding, bounds, history>>

-------------------------------------------------------------------------------
(* Sessions, time and the daemon's life.                                    *)

UserTurn(s) ==
  /\ up /\ busy[s] = "none"
  /\ busy' = [busy EXCEPT ![s] = "user"]
  /\ UNCHANGED <<now, startedAt, up, file, due, guarding, job, bounds, history>>

TurnEnds(s) ==
  /\ busy[s] # "none"
  /\ busy' = [busy EXCEPT ![s] = "none"]
  /\ UNCHANGED <<now, startedAt, up, file, due, guarding, job, bounds, history>>

Tock ==
  /\ now < MaxTime
  /\ now' = now + 1
  /\ UNCHANGED <<startedAt, up, file, busy, due, guarding, job, bounds, history>>

Crash ==
  /\ up /\ crashes < MaxCrashes
  /\ crashes' = crashes + 1
  /\ up' = FALSE
  /\ busy' = [s \in Sessions |-> "none"]
  /\ due' = {} /\ guarding' = FALSE
  /\ job' = [f \in Firers |-> NoJob]
  /\ UNCHANGED <<now, startedAt, file, requests, failedWrites, history>>

\* (fault) the sweep is forgotten
NeverSwept == "firing"

\* (fault) a claim found at startup is given another chance
SweptToPending == "pending"

\* An item found Firing may or may not have gone out.
SweptTo == "failed"

\* spawn: sweep_firing_to_failed before the first tick.
Boot ==
  /\ ~up
  /\ up' = TRUE
  /\ startedAt' = now
  /\ \/ /\ file' = [i \in Items |-> IF file[i].status = "firing"
                                    THEN [file[i] EXCEPT !.status = SweptTo]
                                    ELSE file[i]]
        /\ UNCHANGED failedWrites
     \/ /\ failedWrites < MaxFailedWrites /\ \E i \in Items : file[i].status = "firing"
        /\ failedWrites' = failedWrites + 1
        /\ UNCHANGED file
  /\ UNCHANGED <<now, busy, due, guarding, job, requests, crashes, history>>

-------------------------------------------------------------------------------
Requests ==
  \/ \E i \in Items, t \in 1..MaxTime, g \in Commands :
        Create(i, t, g) \/ \E c \in Callers : UpdateRead(c, i, t, g)
  \/ \E c \in Callers : UpdateWrite(c) \/ \E i \in Items : FireNow(c, i)
  \/ \E i \in Items : Delete(i)

FirerStep(f) ==
  Refuse(f) \/ StartSend(f) \/ Deliver(f) \/ SendFails(f) \/ Finish(f) \/ DropOutcome(f)

TickStep ==
  \/ TickStart \/ GuardsDone \/ GuardAgain
  \/ \E d \in due : TickPasses(d) \/ TickClaims(d)
  \/ FirerStep(Tick)

Next ==
  \/ Requests
  \/ \E c \in Callers : FirerStep(c)
  \/ TickStep
  \/ \E s \in Sessions : UserTurn(s) \/ TurnEnds(s)
  \/ Tock \/ Crash \/ Boot

Spec == Init /\ [][Next]_vars

\* The clock runs, a dead daemon is started again, and the tick loop runs: it is
\* one task that nothing cancels, every await in it has a timeout or ends with the
\* child it waits for.  Nothing is assumed of RPC callers or of turns.
FairSpec == Spec /\ WF_vars(Tock) /\ WF_vars(Boot) /\ WF_vars(TickStep)

-------------------------------------------------------------------------------
Jobs == [pc : {"idle", "edit", "guard", "check", "sending", "finish"},
         item : Items \cup {NoItem}, at : Nat, guard : Commands,
         judged : Commands, from : Nat,
         outcome : {"none", "limited"} \cup Later, arm : Nat]

TypeOK ==
  /\ now \in Nat /\ startedAt \in Nat /\ up \in BOOLEAN
  /\ file \in [Items -> [status : Statuses, at : Nat, guard : Commands]]
  /\ busy \in [Sessions -> {"none", "user"} \cup Firers]
  /\ due \subseteq [item : Items, guard : Commands, past : BOOLEAN, skip : BOOLEAN]
  /\ guarding \in BOOLEAN
  /\ job \in [Firers -> Jobs]
  /\ requests \in Nat /\ crashes \in Nat /\ failedWrites \in Nat
  /\ known \subseteq Items
  /\ arm \in [Items -> Nat]
  /\ unsaved \subseteq Items \X Nat
  /\ spent \subseteq Items \X Nat /\ repeated \subseteq Items \X Nat

\* A prompt is sent once for each time its item was armed, whatever the tick loop,
\* fire_now, edits, deletes and deaths do - unless the claim could not be saved.
SavedClaimSentOnce == repeated \subseteq unsaved

\* A record never stays Firing without a firing in flight (the panel would show
\* "Firing" and the item would never fire again) - unless a rewrite failed.
FiringHasOwner ==
  up /\ failedWrites = 0 =>
    \A i \in Items : file[i].status = "firing" =>
      \E f \in Firers : job[f].item = i /\ job[f].pc # "edit"

\* Two items of one tick aimed at the same idle chat do not collide: what the tick
\* has claimed is never refused because of a prompt the tick itself just sent.
NeighboursDoNotCollide ==
  job[Tick].pc = "check" /\ Target[job[Tick].item] # NoSession
    => busy[Target[job[Tick].item]] # Tick

\* A firing is skipped only on the word of the guard the fired record carries, also
\* when the guard was edited while the old one ran.
SkippedByOwnGuard ==
  job[Tick].outcome = "skipped" =>
    job[Tick].judged = job[Tick].guard /\ job[Tick].judged # NoGuard

\* An item that is gone comes back only by its creation or by an edit that was under
\* way, never by the outcome of a firing.
OutcomeNeverResurrects ==
  [][\A i \in Items : file[i].status = "absent" /\ file'[i].status # "absent"
       => i \notin known \/ \E c \in Callers : job[c].pc = "edit" /\ job[c].item = i]_vars

\* A due item is decided within its grace time even if its chat never goes idle: it
\* is claimed, edited, requeued or gone, and never waits for ever.
Waiting(i, t) == file[i].status = "pending" /\ file[i].at = t
DecidedInTime(i) ==
  \A t \in 1..MaxTime :
    Waiting(i, t) /\ t + Grace + MaxWait <= MaxTime
      ~> ~Waiting(i, t) \/ startedAt + Grace > MaxTime
DueIsDecided ==
  \A i \in Items : (i \in Gated => Target[i] = NoSession) => DecidedInTime(i)
===============================================================================
