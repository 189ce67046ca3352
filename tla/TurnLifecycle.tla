----------------------------- MODULE TurnLifecycle -----------------------------
(***************************************************************************)
(* One chat: its registry row (sessions/registry_*.rs), the long-lived     *)
(* claude child and its two pipes, the stdout pump (daemon/pump.rs), the   *)
(* calls that open turns, the Stop hook and the busy watchdog.             *)
(*                                                                         *)
(* The row says busy; the child knows.  Nothing but the turn generation    *)
(* (turn_gen) ties a line on stdout to the turn whose end may clear busy.  *)
(* An opener is one send; its name also names the turn it opens.           *)
(***************************************************************************)
EXTENDS Integers, Sequences, SequencesExt

CONSTANTS
  Desks,            \* send_message RPCs: the desktop respawns a dead child itself
  Phones,           \* REST sends: the daemon respawns a dead child
  Wakers,           \* wake drains and scheduled fires: written first, opened after
  Closers,          \* the sends whose text starts with /close
  DryRuns,          \* ... and carries --dont-close
  Skilled,          \* the sends whose turn runs the close skill, asked to or not
  Self,             \* a turn nobody sent: a background task finished
  Old,              \* a turn of the resumed history
  Interrupt,        \* the control request of cancel_turn
  Status,           \* what a turn may report
  Verdicts,         \* what a Stop hook may find the CLI still doing
  PipeCap,          \* bound: lines the stdout pipe holds
  MaxSpawns,        \* bound: respawns of the child
  MaxReplay,        \* bound: result lines a resumed child replays
  MaxCancels,       \* bound: cancel_turn calls
  MaxSelfTurns      \* bound: turns nobody sent

Openers == Desks \cup Phones \cup Wakers
Turns == Openers \cup {Self, Old}

ASSUME TurnConstants ==
  /\ Desks \cap Phones = {} /\ (Desks \cup Phones) \cap Wakers = {}
  /\ DryRuns \subseteq Closers /\ Closers \subseteq Openers /\ Skilled \subseteq Openers
  /\ {Self, Old, Interrupt} \cap Openers = {} /\ Self # Old /\ Interrupt \notin {Self, Old}
  /\ Status \subseteq {"done", "working", "waiting"}
  /\ Verdicts \subseteq {"idle", "working", "waiting"}
  /\ PipeCap \in Nat /\ MaxSpawns \in Nat /\ MaxReplay \in Nat
  /\ MaxCancels \in Nat /\ MaxSelfTurns \in Nat

Awaiting == {"none", "done", "working", "waiting", "close_failed"}
Running == {"begun", "streaming", "stopping"}
Alive == Running \cup {"idle"}

VARIABLES
  \* the registry row and its side maps
  busy, awaiting, turnGen,
  pendingGen,       \* pending_turn_gen (0: none)
  report,           \* reported_status, stamped with a generation
  activity,         \* turn_activity, the last Stop hook's verdict
  closing, closeReq, ended,
  \* the child: "none" is out of the SessionMap, "gone" dead but not yet reaped
  child, turn, stdin, stdout, epoch, prompt, interruptSent,
  \* the pump of this child
  pumpGen, captured, live, replaying, armed, ending,
  \* calls in flight
  op, cancel, stop,
  \* bounds
  cancels, selfTurns,
  \* history
  hushed,           \* turns a Stop hook showed as over
  crossed,          \* two turns were open at once
  strayed           \* what may have left busy on with nobody to clear it

row     == <<busy, awaiting, turnGen, pendingGen, report, activity, closing,
             closeReq, ended>>
process == <<child, turn, stdin, stdout, epoch, prompt, interruptSent>>
pump    == <<pumpGen, captured, live, replaying, armed, ending>>
calls   == <<op, cancel, stop>>
bounds  == <<cancels, selfTurns>>
history == <<hushed, crossed, strayed>>
vars == <<row, process, pump, calls, bounds, history>>

NoReport == [gen |-> 0, status |-> "none"]
NoEnding == [pc |-> "read", live |-> FALSE, status |-> "none", of |-> Old]
NoStop == [gen |-> 0, reported |-> FALSE, status |-> "none"]

Init ==
  /\ busy = FALSE /\ awaiting = "none" /\ turnGen = 0 /\ pendingGen = 0
  /\ report = NoReport /\ activity = "unknown"
  /\ closing = FALSE /\ closeReq = FALSE /\ ended = FALSE
  /\ child = "idle" /\ turn = Old /\ stdin = <<>> /\ stdout = <<>> /\ epoch = 0
  /\ prompt = Old /\ interruptSent = FALSE
  /\ pumpGen = 0 /\ captured = FALSE /\ live = FALSE /\ replaying = FALSE
  /\ armed = FALSE /\ ending = NoEnding
  /\ op = [o \in Openers |-> [pc |-> "idle", epoch |-> 0]]
  /\ cancel = [pc |-> "idle", epoch |-> 0] /\ stop = NoStop
  /\ cancels = 0 /\ selfTurns = 0
  /\ hushed = {} /\ crossed = FALSE /\ strayed = {}

-------------------------------------------------------------------------------
(* The registry's updates.                                                  *)

\* set_awaiting_if_gen, set_busy_false_if_gen: only for the turn that set it
SameGen(g) == turnGen = g

\* set_busy(true) over set_awaiting(None): a new generation, handed to the pump
OpenTurn ==
  /\ busy' = TRUE /\ awaiting' = "none"
  /\ turnGen' = turnGen + 1 /\ pendingGen' = turnGen + 1

\* What is settled for a turn that reports s while the CLI still shows a.
Correct(a, s) ==
  CASE a = "idle" /\ s = "working" -> "none"
    [] a \in {"working", "waiting"} /\ s \in {"none", "done"} -> a
    [] OTHER -> s

\* The child has a turn before it, or is at work on it.
Works(t) == Contains(stdin, t) \/ (turn = t /\ child \in Running)

\* A turn is in flight until its last line has been read and handled.
Unread(t) ==
  \/ Works(t)
  \/ \E k \in 1..Len(stdout) : stdout[k].of = t

InFlight(t) == Unread(t) \/ (ending.pc = "settle" /\ ending.of = t)

\* Between opening a turn and writing it, or the other way round.
Opened == {o \in Openers : op[o].pc \in {"opened", "written"}}

\* A send now would be a second turn at once, or hand its generation to the lines
\* of an older one: the lines of one nobody opened, or behind the turn being read.
Crosses(o) ==
  \/ busy \/ child \in {"begun", "streaming"} \/ stdin # <<>>
  \/ ~captured /\ \E t \in Turns \ {o, Old} : Unread(t)
  \/ \E k \in 1..Len(stdout) : stdout[k].kind = "init"
  \/ Opened \ {o} # {}

-------------------------------------------------------------------------------
(* Spawning.                                                                *)

\* spawn_session with --resume: a new pipe, a new pump that starts from the row's
\* generation, and a child that first replays its history.
Spawn(gen) ==
  /\ child = "none" /\ epoch < MaxSpawns
  /\ epoch' = epoch + 1
  /\ child' = "idle" /\ turn' = Old /\ interruptSent' = FALSE
  /\ \E n \in 0..MaxReplay :
        stdout' = [k \in 1..n |-> [kind |-> "result", of |-> Old]]
  /\ pumpGen' = gen /\ captured' = FALSE /\ live' = FALSE
  /\ replaying' = TRUE /\ armed' = FALSE /\ ending' = NoEnding

\* start_session with a resume_id, the desktop's answer to NotFound:
\* upsert_interactive takes the row back to open and idle.
Resume(d) ==
  /\ op[d].pc = "idle" /\ Spawn(turnGen)
  /\ stdin' = <<>>
  /\ busy' = FALSE /\ awaiting' = "none" /\ ended' = FALSE
  /\ strayed' = {}
  /\ crossed' = (crossed \/ Opened # {})
  /\ UNCHANGED <<turnGen, pendingGen, report, activity, closing, closeReq, prompt,
                 calls, cancels, selfTurns, hushed>>

-------------------------------------------------------------------------------
(* Opening turns.                                                           *)

\* send_message / remote send: refused while the row is busy, unless (phone) there
\* is no child to disturb.
SendChecks(o) ==
  /\ op[o].pc = "idle"
  /\ \/ o \in Desks /\ child # "none" /\ ~busy
     \/ o \in Phones /\ (child # "none" => ~busy)
  /\ op' = [op EXCEPT ![o] = [pc |-> "checked", epoch |-> epoch]]
  /\ UNCHANGED <<row, process, pump, cancel, stop, bounds, history>>

\* After settle_answered_questions: the turn is opened before the write.
SendOpens(o) ==
  /\ op[o].pc = "checked"
  /\ OpenTurn
  /\ op' = [op EXCEPT ![o].pc = "opened"]
  /\ crossed' = (crossed \/ Crosses(o))
  /\ UNCHANGED <<report, activity, closing, closeReq, ended, process, pump, cancel,
                 stop, bounds, hushed, strayed>>

\* The child an opener writes to: a desktop send holds the Session it looked up,
\* the others look it up (and respawn it) as they write.
Reaches(o) == child \in Alive /\ (o \in Desks => op[o].epoch = epoch)
Respawns(o) == o \notin Desks /\ child = "none" /\ ~ended

\* send_message_inner: remember the prompt, write the line.
Write(o) ==
  /\ prompt' = o
  /\ \/ /\ Reaches(o)
        /\ stdin' = Append(stdin, o)
        /\ UNCHANGED <<child, turn, stdout, epoch, interruptSent, pump>>
     \/ /\ Respawns(o) /\ Spawn(turnGen)
        /\ stdin' = <<o>>

CannotWrite(o) == IF o \in Desks THEN ~Reaches(o) ELSE child \in {"gone", "none"}

SendWrites(o) ==
  /\ op[o].pc = "opened" /\ Write(o)
  /\ op' = [op EXCEPT ![o].pc = "done"]
  /\ UNCHANGED <<row, cancel, stop, cancels, selfTurns, history>>

\* A failed write or respawn takes busy back, whoever's turn it is by now.
SendFails(o) ==
  /\ op[o].pc = "opened" /\ CannotWrite(o)
  /\ busy' = FALSE
  /\ op' = [op EXCEPT ![o].pc = "done"]
  /\ LET over == Opened \ {o} # {} \/ \E p \in Turns \ {o} : InFlight(p) IN
       /\ crossed' = (crossed \/ over)
       /\ strayed' = IF over THEN strayed \cup {"failed"} ELSE strayed
  /\ UNCHANGED <<awaiting, turnGen, pendingGen, report, activity, closing, closeReq,
                 ended, process, pump, cancel, stop, bounds, hushed>>

\* drain / fire_message: only for a row that is open and not busy ...
WakeChecks(w) ==
  /\ op[w].pc = "idle" /\ ~ended /\ ~busy
  /\ op' = [op EXCEPT ![w].pc = "draining"]
  /\ UNCHANGED <<row, process, pump, cancel, stop, bounds, history>>

\* ... but written, after a wait for the child or its stdin, without asking again.
WakeWrites(w) ==
  /\ op[w].pc = "draining" /\ Write(w)
  /\ op' = [op EXCEPT ![w].pc = "written"]
  /\ crossed' = (crossed \/ Crosses(w))
  /\ UNCHANGED <<row, cancel, stop, cancels, selfTurns, hushed, strayed>>

\* A wake that could not be delivered is queued again.
WakeFails(w) ==
  /\ op[w].pc = "draining" /\ CannotWrite(w)
  /\ op' = [op EXCEPT ![w].pc = "idle"]
  /\ UNCHANGED <<row, process, pump, cancel, stop, bounds, history>>

\* set_busy_from_wake, only once the write has returned.
WakeOpens(w) ==
  /\ op[w].pc = "written"
  /\ OpenTurn
  /\ op' = [op EXCEPT ![w].pc = "done"]
  /\ strayed' = strayed \cup (IF Unread(w) /\ ~captured THEN {} ELSE {"late"})
  /\ UNCHANGED <<report, activity, closing, closeReq, ended, process, pump, cancel,
                 stop, bounds, hushed, crossed>>

-------------------------------------------------------------------------------
(* The child.                                                               *)

Emit(kind, t) ==
  /\ Len(stdout) < PipeCap
  /\ stdout' = Append(stdout, [kind |-> kind, of |-> t])

\* Every turn begins with a system/init line.
Begins ==
  /\ child = "idle"
  /\ \/ /\ stdin # <<>> /\ Head(stdin) # Interrupt
        /\ turn' = Head(stdin) /\ stdin' = Tail(stdin)
        /\ Emit("init", Head(stdin))
        /\ UNCHANGED <<selfTurns, crossed>>
     \/ /\ stdin = <<>> /\ selfTurns < MaxSelfTurns
        /\ turn' = Self /\ selfTurns' = selfTurns + 1
        /\ Emit("init", Self)
        /\ crossed' = (crossed \/ Opened # {})
        /\ UNCHANGED stdin
  /\ child' = "begun"
  /\ UNCHANGED <<row, epoch, prompt, interruptSent, pump, calls, cancels,
                 hushed, strayed>>

Streams ==
  /\ child = "begun" /\ child' = "streaming"
  /\ Emit("stream", turn)
  /\ UNCHANGED <<row, turn, stdin, epoch, prompt, interruptSent, pump, calls,
                 bounds, history>>

\* A message read in the middle of a turn is taken into that turn.
Folds ==
  /\ child \in {"begun", "streaming"} /\ stdin # <<>> /\ Head(stdin) # Interrupt
  /\ stdin' = Tail(stdin)
  /\ strayed' = strayed \cup {"folded"}
  /\ UNCHANGED <<row, child, turn, stdout, epoch, prompt, interruptSent, pump,
                 calls, bounds, hushed, crossed>>

\* report_turn_status: stamped with the row's generation at the time of the call
Reports(s) ==
  /\ child = "streaming" /\ report' = [gen |-> turnGen, status |-> s]
  /\ UNCHANGED <<busy, awaiting, turnGen, pendingGen, activity, closing, closeReq,
                 ended, process, pump, calls, bounds, history>>

\* close_session(stage = "started"), then its confirmation
CloseStarts ==
  /\ child = "streaming" /\ turn \in Skilled
  /\ closing' = TRUE
  /\ UNCHANGED <<busy, awaiting, turnGen, pendingGen, report, activity, closeReq,
                 ended, process, pump, calls, bounds, history>>

CloseConfirms ==
  /\ child = "streaming" /\ turn \in Skilled \ DryRuns
  /\ closeReq' = TRUE
  /\ UNCHANGED <<busy, awaiting, turnGen, pendingGen, report, activity, closing,
                 ended, process, pump, calls, bounds, history>>

\* The result line: at the end of a turn, after its Stop hooks or without them,
\* or at once, nothing streamed, when the CLI rejects the message.
Ends ==
  /\ child \in Running /\ stop = NoStop
  /\ child' = "idle" /\ Emit("result", turn)
  /\ UNCHANGED <<row, turn, stdin, epoch, prompt, interruptSent, pump, calls,
                 bounds, history>>

\* An interrupt ends the running turn; otherwise it is only acknowledged.
TakesInterrupt ==
  /\ \E k \in 1..Len(stdin) : stdin[k] = Interrupt /\ stdin' = RemoveAt(stdin, k)
  /\ \/ /\ child \in {"begun", "streaming"}
        /\ child' = "idle" /\ Emit("result", turn)
     \/ /\ child \in {"idle", "stopping"}
        /\ UNCHANGED <<child, stdout>>
  /\ UNCHANGED <<row, turn, epoch, prompt, interruptSent, pump, calls, bounds, history>>

\* Another program's Stop hook sends the model back to work.
OtherHookBlocks ==
  /\ child = "stopping" /\ stop = NoStop
  /\ child' = "streaming"
  /\ crossed' = (crossed \/ stdin # <<>> \/ Opened # {})
  /\ UNCHANGED <<row, turn, stdin, stdout, epoch, prompt, interruptSent, pump, calls,
                 bounds, hushed, strayed>>

Dead ==
  /\ child' = "gone" /\ stdin' = <<>>

Dies ==
  /\ child \in Alive /\ Dead
  /\ UNCHANGED <<row, turn, stdout, epoch, prompt, interruptSent, pump, calls,
                 bounds, history>>

-------------------------------------------------------------------------------
(* Ending a chat.                                                           *)

\* (fault) a chat whose child is gone has nothing to finalize
FinalizesLiving(confirmed) ==
  IF confirmed /\ ~ended /\ child # "gone"
  THEN /\ ended' = TRUE /\ report' = NoReport /\ pendingGen' = 0
       /\ activity' = "unknown"
  ELSE UNCHANGED <<ended, report, pendingGen, activity>>

\* finalize_close: mark_ended (which drops every per-turn map) and kill the tree;
\* `confirmed` says whether it runs at all.
Finalizes(confirmed) ==
  IF confirmed /\ ~ended
  THEN /\ ended' = TRUE /\ report' = NoReport /\ pendingGen' = 0
       /\ activity' = "unknown"
  ELSE UNCHANGED <<ended, report, pendingGen, activity>>

\* (fault) only the close this pump armed is over
DropsArmed == closing' = (closing /\ ~armed) /\ armed' = FALSE

\* the end of any turn is the end of a close
StandsDown == closing' = FALSE /\ armed' = FALSE

Killed(confirmed) ==
  IF confirmed /\ child \in Alive THEN Dead ELSE UNCHANGED <<child, stdin>>

-------------------------------------------------------------------------------
(* The Stop hook.                                                           *)

\* on_stop, up to its wait: the verdict is recorded and the turn judged by the row's
\* generation.  It may be sent back to work (no report, no message, no title), or be
\* let go with nothing settled when its tools are not attached.
StopReads(a) ==
  /\ child = "streaming" /\ stop = NoStop
  /\ activity' = a
  /\ \/ UNCHANGED <<child, stop>>
     \/ /\ child' = "stopping"
        /\ LET reported == report.gen = turnGen /\ report.status # "none" IN
             stop' = [gen |-> turnGen + 1, reported |-> reported,
                      status |-> IF reported THEN Correct(a, report.status) ELSE "none"]
  /\ UNCHANGED <<busy, awaiting, turnGen, pendingGen, report, closing, closeReq, ended,
                 turn, stdin, stdout, epoch, prompt, interruptSent, pump, op, cancel,
                 bounds, history>>

\* settle_at_stop and close_now_if_confirmed.  (stop.gen is one above the generation
\* it was read at, so that NoStop is no generation.)
StopSettles ==
  /\ stop # NoStop /\ stop' = NoStop
  /\ LET settles == stop.reported /\ SameGen(stop.gen - 1) IN
       /\ awaiting' = IF settles THEN stop.status ELSE awaiting
       /\ busy' = (busy /\ ~settles)
       /\ hushed' = IF settles THEN hushed \cup {turn} ELSE hushed
  /\ LET confirmed == closeReq /\ child # "none" IN
       /\ Finalizes(confirmed) /\ Killed(confirmed)
       /\ closeReq' = (closeReq /\ ~(confirmed /\ ~ended))
  /\ UNCHANGED <<turnGen, closing, turn, stdout, epoch, prompt, interruptSent, pump,
                 op, cancel, bounds, crossed, strayed>>

-------------------------------------------------------------------------------
(* The pump.                                                                *)

\* (fault) every result line is the live turn's
EndsAnyTurn(interrupted) == TRUE

\* (fault) only a streamed turn has an end
EndsStreamedTurn(interrupted) == live \/ interrupted

\* on_result_line / on_interrupted_result_line: in the replay window only a streamed
\* turn, or an interrupt, makes a result the end of a turn.
EndsTurn(interrupted) == live \/ ~replaying \/ interrupted

\* (fault) once in the life of a child
CapturesOnce == pumpGen = 0 /\ pendingGen # 0

\* take_pending_turn_gen: the first line of a turn takes the generation opened for it
Captures == ~captured /\ pendingGen # 0

\* One line, up to the first wait of its handler.
PumpReads ==
  /\ child # "none" /\ stdout # <<>> /\ ending.pc = "read"
  /\ stdout' = Tail(stdout)
  /\ LET line == Head(stdout)
         gen == IF Captures THEN pendingGen ELSE pumpGen
     IN
     /\ pumpGen' = gen
     /\ pendingGen' = IF Captures THEN 0 ELSE pendingGen
     /\ \/ /\ line.kind = "init"
           /\ captured' = (captured \/ Captures)
           /\ UNCHANGED <<busy, awaiting, report, closing, interruptSent, live,
                          replaying, armed, ending, strayed>>
        \/ /\ line.kind = "stream"
           /\ captured' = (captured \/ Captures)
           /\ live' = TRUE /\ replaying' = FALSE
           /\ IF live THEN UNCHANGED <<busy, awaiting, armed, closing>>
              ELSE /\ busy' = TRUE /\ awaiting' = "none"       \* mark_turn_live
                   /\ armed' = (armed \/ prompt \in Closers)
                   /\ closing' = (closing \/ prompt \in Closers)
           /\ UNCHANGED <<report, interruptSent, ending, strayed>>
        \/ /\ line.kind = "result"
           /\ captured' = FALSE /\ live' = FALSE /\ interruptSent' = FALSE
           /\ LET ends == EndsTurn(interruptSent) IN
                /\ replaying' = (replaying /\ ~ends)
                /\ report' = IF ends THEN NoReport ELSE report
                /\ ending' = [pc |-> "settle", live |-> ends, of |-> line.of,
                              status |-> Correct(activity, IF ends /\ report.gen = gen
                                                           THEN report.status ELSE "none")]
                /\ strayed' = strayed
                     \cup (IF ~ends /\ replaying /\ line.of # Old THEN {"swallowed"} ELSE {})
                     \cup (IF ends /\ interruptSent /\ line.of = Old THEN {"cut"} ELSE {})
           /\ UNCHANGED <<busy, awaiting, closing, armed>>
  /\ UNCHANGED <<turnGen, activity, closeReq, ended, child, turn, stdin, epoch, prompt,
                 calls, bounds, hushed, crossed>>

\* The rest of a result line: status and busy for the pump's generation, a confirmed
\* close, and the stand-down of a close that was not.
PumpSettles ==
  /\ ending.pc = "settle" /\ ending' = NoEnding
  /\ LET settles == ending.live /\ SameGen(pumpGen)
         inFlight == armed \/ closing
         failed == /\ inFlight /\ ~closeReq /\ ~ended
                   /\ prompt \notin DryRuns /\ activity \notin {"working", "waiting"}
     IN
     /\ awaiting' = IF failed THEN "close_failed"
                    ELSE IF settles THEN ending.status ELSE awaiting
     /\ busy' = (busy /\ ~settles)
  /\ StandsDown /\ closeReq' = FALSE
  /\ Finalizes(closeReq) /\ Killed(closeReq)
  /\ UNCHANGED <<turnGen, turn, stdout, epoch, prompt, interruptSent, pumpGen, captured,
                 live, replaying, calls, bounds, history>>

\* run_pump_exit: out of the map, busy cleared for the pump's generation, a confirmed
\* close still honoured, an unconfirmed one failed.
PumpExits ==
  /\ child = "gone" /\ stdout = <<>> /\ ending.pc = "read"
  /\ child' = "none" /\ stdin' = <<>>
  /\ busy' = (busy /\ ~SameGen(pumpGen))
  /\ awaiting' = IF (armed \/ closing) /\ ~closeReq /\ ~ended
                 THEN "close_failed" ELSE awaiting
  /\ StandsDown /\ closeReq' = FALSE
  /\ Finalizes(closeReq)
  /\ strayed' = strayed \cup (IF busy' THEN {"unheard"} ELSE {})
                       \cup (IF busy /\ ~busy' /\ Opened # {} THEN {"reaped", "failed"} ELSE {})
  /\ UNCHANGED <<turnGen, turn, stdout, epoch, prompt, interruptSent, pumpGen, captured,
                 live, replaying, ending, calls, bounds, hushed, crossed>>

-------------------------------------------------------------------------------
(* cancel_turn and the watchdog.                                            *)

\* The interrupt is flagged before it is written ...
CancelFlags ==
  /\ cancel.pc = "idle" /\ child # "none" /\ cancels < MaxCancels
  /\ cancels' = cancels + 1
  /\ interruptSent' = TRUE
  /\ cancel' = [pc |-> "flagged", epoch |-> epoch]
  /\ UNCHANGED <<row, child, turn, stdin, stdout, epoch, prompt, pump, op, stop,
                 selfTurns, history>>

\* ... and once it is, the interrupted turn's verdict is dead.
CancelWrites ==
  /\ cancel.pc = "flagged" /\ child \in Alive /\ cancel.epoch = epoch
  /\ stdin' = Append(stdin, Interrupt)
  /\ awaiting' = "none"
  /\ cancel' = [pc |-> "idle", epoch |-> 0]
  /\ UNCHANGED <<busy, turnGen, pendingGen, report, activity, closing, closeReq, ended,
                 child, turn, stdout, epoch, prompt, interruptSent, pump, op, stop,
                 bounds, history>>

CancelFails ==
  /\ cancel.pc = "flagged" /\ ~(child \in Alive /\ cancel.epoch = epoch)
  /\ interruptSent' = (interruptSent /\ cancel.epoch # epoch)
  /\ cancel' = [pc |-> "idle", epoch |-> 0]
  /\ UNCHANGED <<row, child, turn, stdin, stdout, epoch, prompt, pump, op, stop, bounds,
                 history>>

\* Silence: nothing on stdout, no turn being opened.  How long is the environment's choice.
Silent ==
  /\ ~ended /\ stdout = <<>> /\ ending.pc = "read" /\ cancel.pc = "idle"
  /\ Opened = {}

\* (fault) only the turn the pump knows is cleared
SweepsKnownTurn == busy /\ SameGen(pumpGen)

\* busy_watchdog::sweep, first half: busy for STALE_THRESHOLD without a sound
SweepsBusy == busy

Sweep ==
  /\ Silent
  /\ \/ /\ SweepsBusy
        /\ busy' = FALSE
        /\ strayed' = IF \E t \in Turns : InFlight(t) THEN strayed \cup {"swept"} ELSE {}
        /\ UNCHANGED <<awaiting, activity>>
     \/ /\ ~busy /\ awaiting = "working"
        /\ awaiting' = "none" /\ activity' = "unknown"
        /\ UNCHANGED <<busy, strayed>>
  /\ UNCHANGED <<turnGen, pendingGen, report, closing, closeReq, ended, process, pump,
                 calls, bounds, hushed, crossed>>

-------------------------------------------------------------------------------
Opening ==
  \/ \E d \in Desks : Resume(d)
  \/ \E o \in Desks \cup Phones : SendChecks(o) \/ SendOpens(o) \/ SendWrites(o)
                                  \/ SendFails(o)
  \/ \E w \in Wakers : WakeChecks(w) \/ WakeWrites(w) \/ WakeFails(w) \/ WakeOpens(w)

Child ==
  \/ Begins \/ Streams \/ Folds \/ Ends \/ TakesInterrupt \/ OtherHookBlocks \/ Dies
  \/ CloseStarts \/ CloseConfirms
  \/ \E s \in Status : Reports(s)
  \/ \E a \in Verdicts : StopReads(a)

Daemon ==
  \/ StopSettles \/ PumpReads \/ PumpSettles \/ PumpExits
  \/ CancelFlags \/ CancelWrites \/ CancelFails \/ Sweep

Next == Opening \/ Child \/ Daemon

\* The daemon's tasks run on; a child may hang for ever, and a call may find it so.
Fairness ==
  /\ WF_vars(PumpReads) /\ WF_vars(PumpSettles) /\ WF_vars(PumpExits)
  /\ WF_vars(StopSettles) /\ WF_vars(CancelWrites \/ CancelFails)
  /\ \A o \in Desks \cup Phones : WF_vars(SendOpens(o) \/ SendWrites(o) \/ SendFails(o))
  /\ \A w \in Wakers : WF_vars(WakeWrites(w) \/ WakeFails(w) \/ WakeOpens(w))
  /\ WF_vars(Sweep)

Spec == Init /\ [][Next]_vars
FairSpec == Spec /\ Fairness

-------------------------------------------------------------------------------
FlagsOK ==
  /\ busy \in BOOLEAN /\ closing \in BOOLEAN /\ closeReq \in BOOLEAN /\ ended \in BOOLEAN
  /\ interruptSent \in BOOLEAN /\ captured \in BOOLEAN /\ live \in BOOLEAN
  /\ replaying \in BOOLEAN /\ armed \in BOOLEAN /\ crossed \in BOOLEAN

RowOK ==
  /\ awaiting \in Awaiting /\ activity \in {"unknown", "idle", "working", "waiting"}
  /\ turnGen \in Nat /\ pendingGen \in 0..turnGen /\ pumpGen \in 0..turnGen
  /\ report \in [gen : 0..turnGen, status : Status \cup {"none"}]

ChildOK ==
  /\ child \in Alive \cup {"gone", "none"} /\ turn \in Turns /\ prompt \in Turns
  /\ stdin \in Seq(Openers \cup {Interrupt})
  /\ stdout \in Seq([kind : {"init", "stream", "result"}, of : Turns])
  /\ epoch \in 0..MaxSpawns

Settled == Awaiting \ {"close_failed"}

CallsOK ==
  /\ ending \in [pc : {"read", "settle"}, live : BOOLEAN, of : Turns, status : Settled]
  /\ stop \in [gen : Nat, reported : BOOLEAN, status : Settled]
  /\ op \in [Openers -> [pc : {"idle", "checked", "opened", "draining", "written", "done"},
                         epoch : Nat]]
  /\ cancel \in [pc : {"idle", "flagged"}, epoch : Nat]

CountsOK ==
  /\ cancels \in 0..MaxCancels /\ selfTurns \in 0..MaxSelfTurns
  /\ hushed \subseteq Turns
  /\ strayed \subseteq {"late", "folded", "swallowed", "cut", "unheard", "swept",
                       "reaped", "failed"}

\* Every variable keeps its type, and no generation is ahead of the row's.
TypeOK == FlagsOK /\ RowOK /\ ChildOK /\ CallsOK /\ CountsOK

\* Nothing is running, unread or in flight.
Quiet ==
  /\ child \in {"idle", "none"} /\ stdin = <<>> /\ stdout = <<>>
  /\ ending.pc = "read" /\ stop = NoStop
  /\ \A o \in Openers : op[o].pc \in {"idle", "checked", "done"}

\* A quiet chat never reads In Progress, however its sends, wakes, cancels, crashes
\* and replays fell, except in five ways: a wake was opened after its turn had ended, a
\* message was taken into a turn of another generation, an eventless result fell into
\* the replay window, the child died before the first line of a turn, or a failed send
\* was counted over another turn.  These are all the ways busy can latch (the
\* watchdog's "whatever's still unknown").
LatchesAreKnown ==
  Quiet /\ busy => strayed \cap {"late", "folded", "swallowed", "unheard", "failed"} # {}

\* A turn that was opened reads In Progress, with no status of an earlier turn over
\* it, until its own end is handled: no late result line, Stop hook or replayed
\* history touches it.  (Turns that were opened over one another, and a Stop click
\* answered by a replayed line, are set apart.)
OpenTurnIsShown ==
  ~crossed /\ strayed = {} =>
    \A o \in Openers : op[o].pc = "done" /\ Works(o) /\ o \notin hushed =>
      busy /\ awaiting \in {"none", "close_failed"}

\* No chat stays Closing, or keeps a confirmed close for a later turn to consume,
\* once its turn is over.
CloseIsSettled == Quiet => ~closing /\ ~closeReq

\* A confirmed close is only ever consumed by ending the chat.
ConfirmedCloseEnds == [][closeReq /\ ~closeReq' => ended']_vars

\* However busy or working came to be shown, it does not stay when nothing happens
\* any more: the watchdog's promise.
ShownWorkEnds ==
  (busy \/ awaiting = "working") /\ ~ended ~> (~busy /\ awaiting # "working") \/ ended
================================================================================
