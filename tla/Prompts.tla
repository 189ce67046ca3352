-------------------------------- MODULE Prompts --------------------------------
(***************************************************************************)
(* The cards of one chat that wait for the user (daemon/state/prompts.rs), *)
(* and the one word of the registry row that says so: awaiting =           *)
(* "question".  Cards and word live under different locks, so everything   *)
(* that looks at the cards and then writes the word does it in two steps.  *)
(*                                                                         *)
(* A question card outlives the turn that posted it.  A permission card    *)
(* has a blocked handler behind it, which claude waits for.                *)
(***************************************************************************)
EXTENDS Integers, FiniteSets

CONSTANTS
  Asked,            \* questions the model posts (ask_user_question)
  Raised,           \* question cards the daemon raises for its own code
  Permissions,      \* permission requests
  Exit,             \* the clear of a pump that exits
  Status,           \* what a turn may report of itself
  MaxTurns,         \* bound: turns that are opened
  MaxDeaths,        \* bound: deaths of the child
  MaxCancels        \* bound: cancel_turn calls

Questions == Asked \cup Raised
Cards == Questions \cup Permissions
Clearers == Cards \cup {Exit}

ASSUME PromptConstants ==
  /\ Asked \cap Raised = {} /\ Questions \cap Permissions = {} /\ Exit \notin Cards
  /\ Status \subseteq {"none", "done", "working", "question"}
  /\ MaxTurns \in Nat /\ MaxDeaths \in Nat /\ MaxCancels \in Nat

\* The settle and the restore look at the cards as well (see old): no clear has
\* their name.
ASSUME LookersAreNamed == {"settle", "restore"} \cap Clearers = {}

VARIABLES
  \* the registry row
  busy, awaiting, gen,
  \* the chat's child, and that a message lies behind its turn; the generation its
  \* pump took last, whether the turn being read has taken one, and whether the newest
  \* one is still to be taken
  claude, next, turn, captured, pending,
  \* pending_prompts, and the oneshots of `pending`
  open, waiters,
  reply,            \* what came through a oneshot
  \* calls in flight
  ask, post, answer, clear, settle, cancel,
  sends,            \* generations that a send has opened and not yet written
  bridges,          \* generations whose bridge has still to be withdrawn
  deaths, cancels,  \* bounds
  \* history: a known race left a card unshown, or a "question" without a card; who
  \* still has to write by a look at the cards that is out of date
  hid, bare, old

row   == <<busy, awaiting, gen>>
child == <<claude, next, turn, captured, pending>>
cards == <<open, waiters, reply>>
calls == <<ask, post, answer, clear, settle, cancel, sends, bridges>>
bounds == <<deaths, cancels>>
history == <<hid, bare, old>>
vars == <<row, child, cards, calls, bounds, history>>

NoSettle == [pc |-> "none", gen |-> 0, status |-> "none"]

Init ==
  /\ busy = FALSE /\ awaiting = "none" /\ gen = 0
  /\ claude = "idle" /\ next = FALSE
  /\ turn = 0 /\ captured = FALSE /\ pending = FALSE
  /\ open = {} /\ waiters = {} /\ reply = [p \in Permissions |-> "none"]
  /\ ask = [p \in Permissions |-> "idle"]
  /\ post = [q \in Questions |-> "idle"]
  /\ answer = [q \in Questions |-> "none"]
  /\ clear = [a \in Clearers |-> "no"]
  /\ settle = NoSettle /\ cancel = "idle" /\ sends = {} /\ bridges = {}
  /\ deaths = 0 /\ cancels = 0
  /\ hid = FALSE /\ bare = FALSE /\ old = {}

-------------------------------------------------------------------------------
(* Looking at the cards, and writing the word.                              *)

\* session_has_pending_question, session_has_pending_permission
HasQuestion == open \cap Questions # {}
HasPermission == open \cap Permissions # {}

\* The row may be wrong in two ways.
Hidden == HasQuestion /\ awaiting # "question"
Bare == open = {} /\ awaiting = "question"

\* Who has looked at the questions and still has to write.
Lookers ==
  {a \in Clearers : clear[a] = "clear"}
    \cup (IF settle # NoSettle THEN {"settle"} ELSE {})
    \cup (IF cancel = "restore" THEN {"restore"} ELSE {})

\* A question that comes or goes puts their looks out of date.
Ages == old' = IF open' \cap Questions = open \cap Questions THEN old ELSE old \cup Lookers

\* The races that may leave a card unshown, or a "question" without a card:
\*   late     somebody wrote by a look that was out of date, or for a card that is gone
\*   exit     the child died in a turn that was opened over the card
\*   failed   a send opened a turn over the card and could not be written
\*   older    nobody heard the turn end, and its result line came with the generation of
\*            an older one: its message was taken into a running turn, or a line before
\*            it had taken the generation of a send that failed
\*   resume   the chat was given a new child for a send that need not come
\*   decide, expire    the card of a handler that died was decided or swept
\*   end      a permission card ended under the late mark of another card
HidingRaces == {"late", "exit", "failed", "older", "resume"}
BaringRaces == {"late", "decide", "expire", "end"}

\* Whoever writes the word answers for what it leaves wrong, ...
WroteHidden(why) == hid' = (Hidden' /\ why \in HidingRaces)
Wrote(why) == WroteHidden(why) /\ bare' = (Bare' /\ why \in BaringRaces)
WroteLooked(who, why) ==
  /\ Wrote(IF who \in old THEN "late" ELSE why)
  /\ old' = old \ {who}

\* ... whoever changes the cards only for what was right before.
ChangedBare(why) == bare' = (Bare' /\ IF Bare THEN bare ELSE why \in BaringRaces)
Changed(why) ==
  /\ hid' = (Hidden' /\ IF Hidden THEN hid ELSE why \in HidingRaces)
  /\ ChangedBare(why) /\ Ages

\* (fault) one card settled is the whole chat settled
Alone == TRUE

\* no OTHER question prompt is still open
NoSiblings == ~HasQuestion

\* clear_question_awaiting_if_no_others_pending, its look ...
LooksForSiblings(a) ==
  /\ clear[a] = "look"
  /\ clear' = [clear EXCEPT ![a] = IF NoSiblings THEN "clear" ELSE "no"]
  /\ UNCHANGED <<row, child, cards, ask, post, answer, settle, cancel, sends, bridges,
                 bounds, history>>

\* ... and its clear: only a "question" is cleared.
Clears(a) ==
  /\ clear[a] = "clear"
  /\ clear' = [clear EXCEPT ![a] = "no"]
  /\ UNCHANGED open
  /\ awaiting' = IF awaiting = "question" THEN "none" ELSE awaiting
  /\ IF awaiting = "question" THEN WroteLooked(a, "clear")
     ELSE old' = old \ {a} /\ UNCHANGED <<hid, bare>>
  /\ UNCHANGED <<busy, gen, child, waiters, reply, ask, post, answer, settle, cancel,
                 sends, bridges, bounds>>

\* (fault) the records go, the blocked handlers stay
DropsWaiters(ids) == UNCHANGED <<waiters, reply>>

\* the pending oneshots of the expired prompts are dropped with them
DropsOneshots(ids) ==
  /\ waiters' = waiters \ ids
  /\ reply' = [p \in Permissions |->
                 IF p \in ids \cap waiters THEN "dropped" ELSE reply[p]]

\* expire_prompts_for_session: durable cards (questions) are skipped.
Expired == open \cap Permissions
Expires == open' = open \ Expired /\ DropsOneshots(Expired)

-------------------------------------------------------------------------------
(* Turns.                                                                   *)

\* send_message: the cards the message answers are settled, then the turn opens.
\* Refused while the row is busy, unless there is no child.
SendOpens(answered) ==
  /\ gen < MaxTurns
  /\ busy => claude = "none"
  /\ answered \subseteq open \cap Questions
  /\ open' = open \ answered
  /\ answer' = [q \in Questions |-> IF q \in answered THEN "done" ELSE answer[q]]
  /\ busy' = TRUE /\ awaiting' = "none" /\ gen' = gen + 1 /\ pending' = TRUE
  /\ sends' = sends \cup {gen + 1}
  /\ Wrote("turn") /\ Ages
  /\ UNCHANGED <<claude, next, turn, captured, waiters, reply, ask, post, clear, settle,
                 cancel, bridges, bounds>>

\* A pump starts from the row's generation.
Spawned == turn' = gen /\ captured' = FALSE

\* The write, which respawns a chat without a child ...
SendWrites(g) ==
  /\ g \in sends /\ sends' = sends \ {g}
  /\ claude # "dead"
  /\ claude' = IF claude \in {"idle", "none"} THEN "running" ELSE claude
  /\ next' = (claude \notin {"idle", "none"})
  /\ IF claude = "none" THEN Spawned ELSE UNCHANGED <<turn, captured>>
  /\ UNCHANGED <<row, pending, cards, ask, post, answer, clear, settle, cancel, bridges,
                 bounds, history>>

\* ... or fails: the child is gone, cannot be brought back, or is out of credit.  Only
\* busy is taken back; the word stays as the open left it.
SendFails(g) ==
  /\ g \in sends /\ sends' = sends \ {g}
  /\ busy' = FALSE
  /\ UNCHANGED <<awaiting, open, old, bare>> /\ WroteHidden("failed")
  /\ UNCHANGED <<gen, child, waiters, reply, ask, post, answer, clear, settle, cancel,
                 bridges, bounds>>

\* start_session with a resume id, the desktop's answer to a chat without a child; its
\* send comes after it.
Resume ==
  /\ claude = "none" /\ claude' = "idle" /\ Spawned
  /\ busy' = FALSE /\ awaiting' = "none" /\ UNCHANGED <<open, old>> /\ Wrote("resume")
  /\ UNCHANGED <<gen, next, pending, waiters, reply, calls, bounds>>

\* A message read in the middle of a turn may be taken into that turn.
Folds ==
  /\ next /\ claude \in {"running", "live"} /\ next' = FALSE
  /\ UNCHANGED <<row, claude, turn, captured, pending, cards, calls, bounds, history>>

\* A turn nobody sent: a background task finished.
SelfTurn ==
  /\ claude = "idle" /\ claude' = "running"
  /\ UNCHANGED <<row, next, turn, captured, pending, cards, calls, bounds, history>>

\* A line is read: unless the turn has a generation, it takes the newest one, if that is
\* still to be taken.
Reads ==
  /\ turn' = IF pending /\ ~captured THEN gen ELSE turn
  /\ pending' = (pending /\ captured)

\* Any line does, also one that trails the turn before.
LineRead ==
  /\ claude # "none" /\ pending /\ ~captured
  /\ Reads /\ captured' = TRUE
  /\ UNCHANGED <<row, claude, next, cards, calls, bounds, history>>

\* The first stream line, and what came before it (mark_turn_live).
GoesLive ==
  /\ claude = "running" /\ claude' = "live"
  /\ Reads /\ captured' = (captured \/ pending)
  /\ busy' = TRUE /\ awaiting' = "none" /\ UNCHANGED <<open, old>> /\ Wrote("turn")
  /\ UNCHANGED <<gen, next, waiters, reply, calls, bounds>>

\* (fault) a report is taken at its word
AsReported(s) == s

\* drop_unbacked_question_report
Backed(s) == IF s = "question" THEN "none" ELSE s

\* settled_awaiting_for: an open card outranks every report, and a "question" with
\* nothing behind it is dropped.
SettledFor(s) == IF HasQuestion THEN "question" ELSE Backed(s)

Unblocked ==
  /\ \A p \in Permissions : ask[p] \in {"idle", "done", "gone"}
  /\ \A q \in Asked : post[q] # "added"

\* The Stop hook (by the row's generation) and the result line (by its pump's) settle
\* the turn alike: the status is read ...
Settles(s) ==
  /\ settle = NoSettle /\ Unblocked
  /\ \/ claude = "live" /\ UNCHANGED <<turn, captured, pending>>
     \/ claude = "stopped" /\ Reads /\ captured' = FALSE
  /\ settle' = [pc |-> claude, gen |-> IF claude = "live" THEN gen ELSE turn',
                status |-> SettledFor(s)]
  /\ UNCHANGED <<row, claude, next, cards, ask, post, answer, clear, cancel, sends,
                 bridges, bounds, history>>

\* the child goes on to the message that lies behind the turn
TurnOver == claude = "stopped" /\ settle.pc = "stopped"

\* ... and written, for the turn's own generation only.
WritesSettled ==
  /\ settle # NoSettle /\ settle' = NoSettle /\ UNCHANGED open
  /\ IF settle.gen = gen
     THEN busy' = FALSE /\ awaiting' = settle.status /\ WroteLooked("settle", "settle")
     ELSE /\ old' = old \ {"settle"} /\ UNCHANGED <<busy, awaiting, bare>>
          /\ IF TurnOver THEN WroteHidden("older") ELSE UNCHANGED hid
  /\ claude' = IF TurnOver THEN IF next THEN "running" ELSE "idle"
               ELSE IF claude = settle.pc THEN "stopped" ELSE claude
  /\ next' = (next /\ ~TurnOver)
  /\ UNCHANGED <<gen, turn, captured, pending, waiters, reply, ask, post, answer, clear,
                 cancel, sends, bridges, bounds>>

\* A turn may end without a Stop hook.
StopsUnheard ==
  /\ claude = "live" /\ settle = NoSettle /\ Unblocked
  /\ claude' = "stopped"
  /\ UNCHANGED <<row, next, turn, captured, pending, cards, calls, bounds, history>>

Dies ==
  /\ claude \notin {"dead", "none"} /\ deaths < MaxDeaths
  /\ deaths' = deaths + 1
  /\ claude' = "dead" /\ next' = FALSE
  /\ UNCHANGED <<row, turn, captured, pending, cards, calls, cancels, history>>

\* run_pump_exit: busy is cleared for the pump's turn and orphaned prompts expire; if
\* there were any, the word is looked at again.
PumpExits ==
  /\ claude = "dead" /\ settle.pc # "stopped" /\ claude' = "none"
  /\ busy' = (busy /\ gen # turn)
  /\ Expires
  /\ clear' = [clear EXCEPT ![Exit] = IF Expired = {} THEN @ ELSE "look"]
  /\ UNCHANGED awaiting /\ WroteHidden("exit") /\ ChangedBare("exit")
  /\ UNCHANGED old
  /\ UNCHANGED <<gen, next, turn, captured, pending, ask, post, answer, settle, cancel,
                 sends, bridges, bounds>>

\* cancel_turn, once the interrupt is written: settle_awaiting_after_cancel.
CancelResets ==
  /\ cancel = "idle" /\ cancels < MaxCancels /\ claude \notin {"dead", "none"}
  /\ cancels' = cancels + 1 /\ cancel' = "reset"
  /\ awaiting' = "none" /\ UNCHANGED <<open, old>> /\ Wrote("cancel")
  /\ UNCHANGED <<busy, gen, child, waiters, reply, ask, post, answer, clear, settle,
                 sends, bridges, deaths>>

CancelExpires ==
  /\ cancel = "reset" /\ cancel' = "expired"
  /\ Expires /\ UNCHANGED awaiting /\ Changed("expire")
  /\ UNCHANGED <<busy, gen, child, ask, post, answer, clear, settle, sends, bridges,
                 bounds>>

CancelLooks ==
  /\ cancel = "expired"
  /\ cancel' = IF HasQuestion THEN "restore" ELSE "idle"
  /\ UNCHANGED <<row, child, cards, ask, post, answer, clear, settle, sends, bridges,
                 bounds, history>>

CancelRestores ==
  /\ cancel = "restore" /\ cancel' = "idle"
  /\ awaiting' = "question" /\ UNCHANGED open /\ WroteLooked("restore", "restore")
  /\ UNCHANGED <<busy, gen, child, waiters, reply, ask, post, answer, clear, settle,
                 sends, bridges, bounds>>

-------------------------------------------------------------------------------
(* Question cards.                                                          *)

\* post_fire_and_forget_question / raise_card: the record, then the word.
PostAdds(q) ==
  /\ post[q] = "idle"
  /\ q \in Asked => claude = "live" /\ settle = NoSettle
  /\ post' = [post EXCEPT ![q] = "added"]
  /\ open' = open \cup {q}
  /\ UNCHANGED awaiting /\ Changed("post")
  /\ UNCHANGED <<busy, gen, child, waiters, reply, ask, answer, clear, settle, cancel,
                 sends, bridges, bounds>>

PostMarks(q) ==
  /\ post[q] = "added"
  /\ post' = [post EXCEPT ![q] = "posted"]
  /\ awaiting' = "question" /\ UNCHANGED <<open, old>> /\ Wrote("late")
  /\ UNCHANGED <<busy, gen, child, waiters, reply, ask, answer, clear, settle, cancel,
                 sends, bridges, bounds>>

\* respond_question_as (or withdraw_card): the record goes, then the word if no
\* sibling needs it.  A skip, and what a daemon card is told, concern the model no
\* further ...
Answers(q, how) ==
  /\ q \in open /\ answer[q] = "none"
  /\ open' = open \ {q}
  /\ answer' = [answer EXCEPT ![q] = IF q \in Asked THEN how ELSE "done"]
  /\ clear' = [clear EXCEPT ![q] = "look"]
  /\ UNCHANGED awaiting /\ Changed("answer")
  /\ UNCHANGED <<busy, gen, child, waiters, reply, ask, post, settle, cancel, sends,
                 bridges, bounds>>

\* the turn generation a bridge was built in
BridgeGen == gen

\* ... and an answer to the model reads "working" until the message that carries it
\* opens a turn (bridge_to_followup_turn).
Bridges(q) ==
  /\ answer[q] = "answered" /\ clear[q] = "no"
  /\ answer' = [answer EXCEPT ![q] = "done"]
  /\ IF ~busy /\ awaiting = "none"
     THEN awaiting' = "working" /\ bridges' = bridges \cup {BridgeGen}
     ELSE UNCHANGED <<awaiting, bridges>>
  /\ UNCHANGED open /\ Changed("bridge")
  /\ UNCHANGED <<busy, gen, child, waiters, reply, ask, post, clear, settle, cancel,
                 sends, bounds>>

\* FOLLOWUP_BRIDGE later
BridgeEnds(g) ==
  /\ g \in bridges /\ bridges' = bridges \ {g}
  /\ awaiting' = IF ~busy /\ gen = g /\ awaiting = "working" THEN "none" ELSE awaiting
  /\ UNCHANGED <<busy, gen, child, cards, ask, post, answer, clear, settle, cancel, sends,
                 bounds, history>>

-------------------------------------------------------------------------------
(* Permission cards: one handler per request (ask_human).                   *)

AskStarts(p) ==
  /\ ask[p] = "idle" /\ claude = "live" /\ settle = NoSettle
  /\ ask' = [ask EXCEPT ![p] = "slot"]
  /\ UNCHANGED <<row, child, cards, post, answer, clear, settle, cancel, sends, bridges,
                 bounds, history>>

\* (fault) the second request waits for as long as the first card is up
WaitsForSlot(p) == FALSE

\* wait_for_permission_slot gives up after PROMPT_TIMEOUT
SlotTimesOut(p) == TRUE

\* The slot is free, or the request is denied unseen.
TakesSlot(p) ==
  /\ ask[p] = "slot"
  /\ \/ ~HasPermission /\ ask' = [ask EXCEPT ![p] = "free"]
     \/ HasPermission /\ SlotTimesOut(p) /\ ask' = [ask EXCEPT ![p] = "done"]
  /\ UNCHANGED <<row, child, cards, post, answer, clear, settle, cancel, sends, bridges,
                 bounds, history>>

AskRegisters(p) ==
  /\ ask[p] = "free" /\ ask' = [ask EXCEPT ![p] = "registered"]
  /\ waiters' = waiters \cup {p}
  /\ UNCHANGED <<row, child, open, reply, post, answer, clear, settle, cancel, sends,
                 bridges, bounds, history>>

AskShows(p) ==
  /\ ask[p] = "registered" /\ ask' = [ask EXCEPT ![p] = "shown"]
  /\ open' = open \cup {p}
  /\ UNCHANGED awaiting /\ Changed("show")
  /\ UNCHANGED <<busy, gen, child, waiters, reply, post, answer, clear, settle, cancel,
                 sends, bridges, bounds>>

AskMarks(p) ==
  /\ ask[p] = "shown" /\ ask' = [ask EXCEPT ![p] = "waiting"]
  /\ awaiting' = "question" /\ UNCHANGED <<open, old>> /\ Wrote("late")
  /\ UNCHANGED <<busy, gen, child, waiters, reply, post, answer, clear, settle, cancel,
                 sends, bridges, bounds>>

\* An answer, a dropped oneshot or PROMPT_TIMEOUT.
AskHears(p) ==
  /\ ask[p] = "waiting"
  /\ ask' = [ask EXCEPT ![p] = "clearing"]
  /\ clear' = [clear EXCEPT ![p] = "look"]
  /\ waiters' = waiters \ {p}
  /\ UNCHANGED <<row, child, open, reply, post, answer, settle, cancel, sends, bridges,
                 bounds, history>>

AskEnds(p) ==
  /\ ask[p] = "clearing" /\ clear[p] = "no"
  /\ ask' = [ask EXCEPT ![p] = "done"]
  /\ open' = open \ {p}
  /\ UNCHANGED awaiting /\ Changed("end")
  /\ UNCHANGED <<busy, gen, child, waiters, reply, post, answer, clear, settle, cancel,
                 sends, bridges, bounds>>

\* The request dies with the child that made it: axum drops the handler where it is.
AskDropped(p) ==
  /\ ask[p] \notin {"idle", "done", "gone"} /\ claude \in {"dead", "none"}
  /\ ask' = [ask EXCEPT ![p] = "gone"]
  /\ clear' = [clear EXCEPT ![p] = "no"]
  /\ old' = old \ {p}
  /\ UNCHANGED <<row, child, cards, post, answer, settle, cancel, sends, bridges, bounds,
                 hid, bare>>

\* respond_permission: the oneshot if it is still there, and the record; the word is
\* left to the handler.
Decides(p) ==
  /\ p \in open
  /\ waiters' = waiters \ {p}
  /\ reply' = [reply EXCEPT ![p] = IF p \in waiters THEN "human" ELSE @]
  /\ open' = open \ {p}
  /\ UNCHANGED awaiting /\ Changed("decide")
  /\ UNCHANGED <<busy, gen, child, calls, bounds>>

-------------------------------------------------------------------------------
TurnStep ==
  \/ \E answered \in SUBSET Questions : SendOpens(answered)
  \/ \E g \in sends : SendWrites(g) \/ SendFails(g)
  \/ Resume \/ Folds \/ SelfTurn \/ LineRead \/ GoesLive \/ StopsUnheard \/ Dies
  \/ \E s \in Status : Settles(s)

CancelStep == CancelExpires \/ CancelLooks \/ CancelRestores

HandlerStep(p) ==
  TakesSlot(p) \/ AskRegisters(p) \/ AskShows(p) \/ AskMarks(p) \/ AskHears(p)
  \/ AskEnds(p)

Next ==
  \/ TurnStep \/ WritesSettled \/ PumpExits \/ CancelResets \/ CancelStep
  \/ \E a \in Clearers : LooksForSiblings(a) \/ Clears(a)
  \/ \E q \in Questions : PostAdds(q) \/ PostMarks(q) \/ Bridges(q)
                          \/ Answers(q, "answered") \/ Answers(q, "done")
  \/ \E g \in bridges : BridgeEnds(g)
  \/ \E p \in Permissions : AskStarts(p) \/ HandlerStep(p) \/ AskDropped(p) \/ Decides(p)

\* The daemon's tasks run on and its timers fire; the user and claude owe nothing.
Fairness ==
  /\ \A p \in Permissions : WF_vars(HandlerStep(p))
  /\ \A a \in Clearers : WF_vars(LooksForSiblings(a) \/ Clears(a))

Spec == Init /\ [][Next]_vars
FairSpec == Spec /\ Fairness

-------------------------------------------------------------------------------
Words == {"none", "done", "working", "question"}

RowOK == busy \in BOOLEAN /\ awaiting \in Words /\ gen \in Nat

ChildOK ==
  /\ claude \in {"idle", "running", "live", "stopped", "dead", "none"}
  /\ next \in BOOLEAN /\ turn \in 0..gen /\ captured \in BOOLEAN /\ pending \in BOOLEAN

CardsOK ==
  /\ open \subseteq Cards /\ waiters \subseteq Permissions
  /\ reply \in [Permissions -> {"none", "human", "dropped"}]

CallsOK ==
  /\ ask \in [Permissions -> {"idle", "slot", "free", "registered", "shown", "waiting",
                              "clearing", "done", "gone"}]
  /\ post \in [Questions -> {"idle", "added", "posted"}]
  /\ answer \in [Questions -> {"none", "answered", "done"}]
  /\ clear \in [Clearers -> {"no", "look", "clear"}]
  /\ settle \in [pc : {"none", "live", "stopped"}, gen : Nat, status : Words]
  /\ cancel \in {"idle", "reset", "expired", "restore"}
  /\ sends \subseteq 1..gen /\ bridges \subseteq 0..gen

HistoryOK ==
  /\ deaths \in Nat /\ cancels \in Nat
  /\ hid \in BOOLEAN /\ bare \in BOOLEAN
  /\ old \subseteq Clearers \cup {"settle", "restore"}

TypeOK == RowOK /\ ChildOK /\ CardsOK /\ CallsOK /\ HistoryOK

\* Nothing of the chat is running or half done.
Calm ==
  /\ claude \in {"idle", "none"} /\ settle = NoSettle /\ cancel = "idle" /\ sends = {}
  /\ \A a \in Clearers : clear[a] = "no"
  /\ \A p \in Permissions : ask[p] \in {"idle", "done", "gone"}
  /\ \A q \in Questions : post[q] # "added" /\ answer[q] \in {"none", "done"}

\* A handler that blocks claude can be answered: its card is up and its oneshot
\* registered, or its answer is on the way.
BlockedIsAnswerable ==
  \A p \in Permissions :
    ask[p] = "waiting" /\ reply[p] = "none" => p \in open /\ p \in waiters

\* A question card that is up in a calm chat reads "question", unless a clear or a settle
\* that had looked before the card went up wrote after it, or the chat's last turn was
\* opened over the card and never settled: the child died in it, its send failed, its end
\* was heard for an older turn only, or the chat was only given a new child.
HiddenCardsAreKnown == Calm /\ Hidden => hid

\* A calm chat that reads "question" has a card to answer, unless a settle, a restore
\* or a mark wrote after the card it was for had gone, or the card of a handler that
\* died, or that another card's late mark had followed, was taken away.
BareQuestionsAreKnown == Calm /\ Bare => bare

\* Every permission request ends, whether or not the user ever answers, and also
\* behind the card of a handler that died.
RequestsEnd ==
  \A p \in Permissions : ask[p] = "slot" ~> ask[p] \in {"done", "gone"}
===============================================================================
