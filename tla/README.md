# Claude Conductor: a verification project

Claude Conductor runs many long-lived `claude` chats on one machine. A background **daemon** (Rust,
`src-tauri/src/daemon`) owns one child process per chat, a registry row per chat, the prompts the chats raise, a
scheduler, and a few files for what must outlive a restart. Desktop windows, a phone and other machines talk to
it over RPC and REST; the chats talk back through HTTP hooks.

What is hard about it is not data but timing. Every chat is a child that reads one pipe and writes another, a
pump that reads that pipe, hooks that arrive on sockets of their own, several senders, a watchdog and a human.
Each holds a piece of the truth, and the row a window shows ("In Progress", "Needs Input", "Done") is written
by all of them. The models here are about those orders of events.

Paths below are relative to `src/src-tauri/src` unless they start with another directory.

## 1. Inventory

| component | state | operations | what is hard |
|---|---|---|---|
| **Turn lifecycle**: `sessions/registry_*.rs`, `daemon/pump*`, `daemon/lifecycle/`, `daemon/methods/lifecycle/`, `hooks_server/stop.rs`, `daemon/busy_watchdog.rs` | row (busy, awaiting, turn_gen, pending generation, report, activity, closing), child, stdin, stdout, pump-local flags | send from desk and phone, wake drain, respawn, stream lines, result line, Stop hook, close and its confirmation, cancel, death and EOF, sweep | stdout lines carry no turn; everything hangs on a generation counter and the order of two pipes, hooks and RPCs |
| **Prompts**: `daemon/state/prompts.rs`, `hooks_server/question.rs`, `hooks_server/permission.rs`, `daemon/methods/permission.rs` | open cards, blocked oneshots, awaiting = "question" | post, raise, answer, skip, withdraw, ask and decide a permission, expire, settle, cancel | cards and word lie under different locks; handlers are dropped where they stand when a client dies |
| **Durable question cards**: `daemon/state/pending_questions.rs` | map in memory, numbered copies, file | add, remove, save, load, reconcile at boot | unordered and failing writes, death at any step |
| **Writer slot**: `daemon/subchats/writers.rs`, `held.rs`, `turn_end.rs`, `resume.rs`, `tool.rs`, `daemon/methods/spawn_chat/` | per project: holder, queue, `held.json`; per sub: row, child, launch and resume in flight, pending question, unsaved work | spawn now or queue, launch, first message, guard of an edit, follow-up that asks to write, question, finish, death, end, move, sweep, restart | a place in the queue is taken before the row exists, git is read without the lock, and every way out of a sub has to let go of the slot |
| **Waiting subs, worktrees, merge follow-ups**: `daemon/subchats/held.rs`, `worktree.rs`, `merge_followup.rs`, `resume.rs`, `finish.rs` | `held.json`, finish records, target branch and trees, refusals in memory, cards | spawn with `after`, pass over the held set, launch, finish, land, refuse, tell, ask Joe, merge again, leave, end, restart | "finished" comes before "merged", a pass goes by what it read, refusals live in memory, and three parties start the same sub |
| **Scheduler**: `sessions/scheduled_items.rs`, `daemon/schedule*.rs`, `daemon/methods/schedule.rs` | the file of items, the tick's list, firings in flight | create, update, delete, fire now, tick, guards, claim, send, finish, sweep at start | read-modify-write by several tasks, writes that fail, a claim that must survive a death exactly once |
| Resume queue: `daemon/rate_limit.rs`, `daemon/methods/lifecycle/account_move.rs` | scheduled resume items per account | enqueue, stagger, replace, requeue, move to another account | the slot is a count of what waits, taken at different moments |
| Wake queues: `daemon/repo_channel_wake.rs`, `daemon/jarvis_wake.rs` | bounded queue per chat | enqueue, notice, drain, push back | cap against push-back, grouping by author |
| Session map: `daemon/session.rs`, `daemon/lifecycle/` | id -> child | insert, remove at EOF, kill and wait | an old pump removing a new child by id |
| Commit lock, start tokens: `daemon/state/commit_lock.rs`, `daemon/start_tokens.rs` | holder and expiry; cell per token | acquire, release, claim | expiry while held, retry while spawning |
| Boot and restore: `daemon/boot.rs`, `sessions/persistence.rs`, `daemon/resume_interrupted.rs` | persisted chats | save, load, resume | what was in flight at the death |
| Stop verdict: `hooks_server/stop_verdict.rs` | per-turn counters | block, allow, nudge | policy over transcript text; only its effect (busy/awaiting) is modelled, as `Verdicts` |
| Gaming mode: `daemon/gaming_mode/` | frozen chats | freeze, thaw | a freeze in the middle of a turn |
| Meeting monitor: `daemon/meeting_monitor.rs` | last meeting seen | poll | a detector that latches on |
| Subchats, the rest: `daemon/subchats/` | cards, ceilings, stalls, checkups, decisions, closing | which card is raised when, what a transcript says of a finish, closing a main chat with its subs | policy over texts and clocks |
| Drafts: `daemon/draft_store.rs` | text per chat | set, clear | two windows typing |
| Machines: `daemon/machines/` | peers and mirrored instances | link, forward | unreliable network |
| Remote access, daemon link, push, previews, voice, storage, tokens, dashboards, parser, front ends | | | transport, I/O and rendering |

The parts interact through the **row** (turn lifecycle and prompts both write `awaiting`), through **stdin**
(sends, wakes, scheduled fires and interrupts all write one pipe), through the **cards** (daemon code raises cards,
when-done answers them) and through the **file of items** (the limiter, the account move and the RPCs all edit what
the tick loop fires).

What makes each part correct, in a sentence: a turn that runs is shown and a turn that ended is not; a card that
waits is shown and can be answered; a card that was acknowledged survives a restart and a settled one does not;
an armed item is sent once and decided in time; a limited chat resumes once; two subs never edit one checkout at
once, and a sub that waits starts once, on the work it waited for, or Joe is asked.

## 2. Plan

Done in this order: `QuestionStore` (with `CardFile` as its abstract promise), `Schedule`, `TurnLifecycle`,
`Prompts`, `WriterSlot`, `AfterHold`. What would come next, the most important first:

1. `ResumeQueue`: limited accounts, stagger slots, replacement and requeue, the account move. Abstract
   specification: every limited chat has at most one resume in flight. (Seen while reading: the slot counts
   *all* pending message items of the account, so items that fail at the same time get the same slot, although
   `daemon/schedule.rs:45-48` promises "single file rather than as a thundering herd".)
2. `WakeQueue`: cap, push-back, author groups; then a composition with `TurnLifecycle` in place of its bare wakers.
3. `SessionMap`: which child an id names during kill, timeout and respawn; refines "at most one living child".
4. A composition of `WriterSlot` and `AfterHold` over one `held.json`: a sub may wait for another one *and* for
   the slot. Today the first module has no targets and the second no slot, which is how the two settings of a project
   ("One at a time", "Worktree each") use them, except for a gate in a worktree project.
5. `CommitLock`, `StartTokens` (small), gaming mode over `TurnLifecycle`, closing a main chat with its subs.

Every safety property that a run checks is proved (section 5). Theorems worth proving next are those of the modules to
come, and the composition of `WriterSlot` and `AfterHold`, over the invariants both have now.

## 3. Modules

`X_proofs` holds the theorems about `X` (`TurnLatch_proofs` and `WriterQueue_proofs` the longer ones about
`TurnLifecycle` and `WriterSlot`); `MCX` and its `.cfg` files the instances TLC checks. Operators marked
`(fault)` in a module are not part of it: each is a plausible bug in the operator that follows it, kept to show that
the properties notice it.

### `CardFile`, `QuestionStore`: durable question cards

`CardFile` is what the file promises: it holds one of the lists of open cards that were taken, and only ever moves to
a later one. `QuestionStore` is the code: a handler changes the map under the prompts lock, releases it, takes it again
to copy and number the open cards, releases it, and writes the file under a second lock; a write may fail, the daemon
may die between any two steps, and boot loads and reconciles. `FileMovesForward` is
`CardFile` instantiated with a refinement mapping (the numbered copies so far, and the number of the one on disk).

### `Schedule`: scheduled items

State: the file (one record per item), the tick's list of due items, one job per actor in flight (tick loop,
`fire_now` and `update` calls), the turns of the target chats, the clock. Each operation on the file is a load, one
changed record and a rewrite under a lock (`Rewrite`, which may fail and is then only logged). `UpdateRead` and
`UpdateWrite` are two steps because the code holds no lock between them. Guards are commands with an unknown
verdict; `next_occurrence` is any later instant within a period; a meeting is seen or not seen at will. `Crash` drops
everything but the file; `Boot` sweeps Firing records to failed. An *arming* is a history notion: one write that leaves
an item Pending.

### `TurnLifecycle`: one chat's turns

State: the registry row, the child with its stdin and stdout as bounded queues, the pump's locals, one call per
opener, one cancel, one Stop hook. An opener is one send, and its name also names the turn it opens, so a property
can say which turn a line belongs to although the code cannot. `SendChecks`/`SendOpens`/`SendWrites` are the refusal,
the opening of the turn and the write to stdin of `send_message`; a drain checks, writes and opens in that other order
(`WakeChecks`, `WakeWrites`, `WakeOpens`). `PumpReads` takes one stdout line up to its first `await`, `PumpSettles` is
what follows a result line, `PumpExits` is EOF. `Resume`/`Spawn` start a new child with a replayed history. `Sweep` is
the busy watchdog. The child itself is external and may do anything the code is prepared for: stream or not, fold a
message into the running turn, run a turn nobody sent, hang, die.

Left out: freezes, forced restarts and ends, rate-limit retries, subs that hold a close.

History: `strayed` collects what may have left `busy` on (a wake opened after its turn had ended, a folded message, an
eventless result in the replay window, a death before the first line, a failed send counted over another turn, ...);
`crossed` says that two turns were open at once, or that a turn was opened over lines of an older one that would take its
generation: those of a turn nobody opened, or an init line behind the turn the pump is reading.

### `Prompts`: cards and the word

State: the `busy`/`awaiting`/generation part of the row, the open cards, the oneshots behind permission cards, and one program counter
per handler or call. What the code does under one lock is one step; a look at the cards and the write of the word that
follows are two, because they take different locks with an `await` between (`LooksForSiblings`/`Clears`,
`Settles`/`WritesSettled`, `CancelLooks`/`CancelRestores`). Dropping the records and the oneshots of an expiry
(`state/prompts.rs:187-228`, two locks one after the other), and the check and write of the 45 s bridge, are single steps here. `AskDropped` is axum dropping a handler whose `claude` died, at
any of its awaits, without its cleanup. The child is reduced to idle, running, live, stopped, dead and none, with a flag for a
message that lies behind its turn. A send is three steps: it settles the cards its message answers, clears the word and
opens the turn (`SendOpens`), and only then writes (`SendWrites`, into a new child if there is none) or fails
(`SendFails`, which takes `busy` back and nothing else). `Resume` gives a chat without a child a new one, its send yet to
come. `turn`, `captured` and `pending` are the hand-over of the generation to the pump (`LineRead`: the first line after an opening
takes it, whichever turn the line is of). `Asked` cards are the model's own questions, `Raised` ones the daemon's.

History: `hid` and `bare` say that what is wrong with the row now was left by one of the named races; `old` holds who
still has to write by a look that a card has since made stale. A card is hidden by *late* (somebody wrote by a look that was out of
date), *exit* (the child died in the turn opened over the card), *failed* (the send that opened the turn failed; `methods/lifecycle/core.rs:273-277`),
*older* (the end of that turn is heard for an older generation: its message was taken into a running turn, or a line before it had
taken the generation of a failed send) and *resume*. A bare word is left by *late*, by a decision or an expiry of a dead handler's
card (*decide*, *expire*), and by a permission that ends under another card's late mark (*end*).

Left out: secret prompts, quiet cards (they count for nothing here), render confirmation, auto-accepted permissions; wakes, which
write before they open (their subject is `TurnLifecycle`), the `close_failed` word, and the watchdog's clear of "working".

### `WriterSlot`: one writer at a time

One project under "One at a time". `holder` and `queue` are the slot of `writers.rs`; an entry is a *launch* (a sub
with a recipe) or a *wake* (a running sub that asked). What `writers.rs` does under its lock is one step: `Requests`
(`request_slot`), `Leave` (`leave`), `Advance` (`advance_locked`, with `Heal` before it and `Waits` for a gate while a
merge is in flight), `Sweep`. A spawn is `DecideSpawn`, then either `SpawnUp`, `MarkSub`, `SpawnSend` (adopted as holder) or
`Register`, `StoreRecipe` (queued); `RunStart`, `LaunchUp`, `TakesRecipe`, `LaunchSend` are `launch_held`, with its failures.
`LaunchUp` is the insertion of the child (`lifecycle/spawn.rs:262`) and `TakesRecipe` the release of the recipe
(`held.rs:408`): between them a sub is held and has a process, and everything else may happen (`HeldHasNotBegun` names that window).
`CheckWrite` is the edit guard, `EditLands` the edit it let through, `AskJoe`, `AskReadsGit`, `AskReleases` the three
parts of what happens to the slot when its holder asks Joe. `TurnEnds`, `Dies`, `Stop`, `EndSub`, `Move` are the ways out,
`Continue` is a follow-up; `SlotSweep`, `HeldSweep`, `SeesChild` the 60-second tick. `Restart` keeps rows and `held.json`.

Named races (`excused`), each a place where the code lets the promise go:
*dropped* (a claim or a queued entry whose row is not there yet, or not marked as a sub, is taken for stale by another
call's advance; `writers.rs:131-134`, against `:6-9`), *late* (the row is ended while its launch or resume is
awaited; `held.rs:379`), *loose* (the slot goes on what git said before an edit that has landed since; `writers.rs:460-472`),
*asked* (`subchat send` with `writes` puts a sub in the queue that has not started yet; `tool.rs:521-528`; no recipe is lost
by it, but the slot may come to a sub that is not started for it, or to a gate beside a merge), *silent* (a second
death in one turn looks like the first and does not let go; `turn_end.rs:186-189`).

Abstractions: `Settle` takes the recipes of the entries it drops together with their places (`clear_wait` runs after the table lock
is released, `writers.rs:439-444` and `:621-623`); a rewrite of `held.json` always succeeds (a failed one is only logged, `held.rs:177`).

Left out: the gate slot of a worktree project, the account and folder checks before a spawn, the words on the cards, and
whether a queued message is delivered to a running sub.

### `AfterHold`: subs that wait for another one

Every writer in its own worktree. `Standing` is `after_state`: what a waiter goes by. `Register` is `plan_after` and the
registration it chooses; a sub with nothing to wait for is started by its own task (`due`, `RunStart`). `PassStart` and
`PassTakes` are `release_ready`: a pass takes `held.json` once and then goes through it, and does nothing else while it
awaits a launch. `CatchUp`, `LaunchUp`, `LaunchSend` and their failures are `launch_held`; `by` says who awaits it, because
a failure is reported in three ways. `TurnFinishes` is `commit_finish` up to the start of the merge thread, and
`MergeLands`, `MergeConflicts`, `MergeRefused`, `MergeFails` what comes of it. `Tell`, `Continue` are follow-ups, by the
daemon and by Joe; `TryAgain`, `MergeAgain`, `LeaveIt` Joe's answers about a merge, `StartAnyway`, `SkipCard`, `DropIt`
about a waiting sub. `landed` and `based` are what git comes to here: whose last finished work is in the target branch, and
which trees had their target's work in them when they caught up.

Named races: for the base *merging* (decided while the target's merge is in flight), *again* (the target goes through
another round after the decision), *behind* (the tree cannot be brought up to date, and the launch goes on), *joe* (started
by Joe), *left*, *other*, *restart* (the refusal was left, of the passive kind, or lost with the process); for the card
*stale* (a pass read the held set before somebody else started the sub), *beside* (the card is raised, or open, beside a
launch), *late* (the sub was ended in its launch); for a finished sub *told* (a tell found the sub busy and put it back
among the finished), *crossed* (a follow-up crossed the first message).

Abstractions: a git command and what follows it under the repo's lock is one step; the cards of an ended sub go with it,
although the code drops them in a task of its own; `SkipCard` stands for a skip and for an answer in free text, which the code
only logs (`held.rs:537`); a card that is to be raised is raised (an error is logged, `held.rs:513`, or falls back to a passive
card, `merge_followup.rs:220` and `:288`); a failed launch parks the sub in the step that raises its card, which the code does after the await
(`held.rs:571-572`). Orphaned main chats and a finish record that cannot be written are left out.

## 4. Runs

All runs disable the deadlock check: a chat, a file or a scheduler with nothing left to do is a legal end, and the
bounds on deaths, turns and requests make such an end reachable.

| run | question | bounds |
|---|---|---|
| `question_store` | do acknowledged cards survive a death, do settled ones stay gone, is the file current when quiet, does it refine `CardFile`? | 3 cards, 2 handlers, 1 death |
| `schedule_races` | is an arming sent once, does every Firing record have an owner, is a skip the word of its own guard, does nothing deleted come back? | 1 recurring guarded item, tick and 2 callers, 2 requests, 1 failed write, 1 death |
| `schedule_live` | does a due message get decided although its chat may stay busy, and does the tick not collide with its own send? | 2 items on one chat (one held for meetings), 1 death |
| `turn_sends` | does busy latch only in the known ways; is an open turn shown; is a close settled, and a confirmation only consumed by ending? | a desk send with `/close --dont-close`, a phone send, 1 respawn with a replayed result, 1 cancel |
| `turn_wakes` | does busy latch only in the known ways with a wake and a turn nobody sent; is whatever is shown as working taken down at last? | 1 send, 1 wake, 1 self turn, 1 respawn |
| `prompts` | can a blocked handler always be answered; do cards and word disagree in a calm chat only after the named races? | 1 question, 1 permission, 2 turns, 1 death, 1 cancel |
| `prompts_live` | does every permission request end? | 2 permissions, 1 turn, 1 death, 1 cancel |
| `writer_slot` | do two subs never edit at once, is nobody twice in the queue, is every recipe reachable and of a sub that has not begun, does the slot leave the dead and stay with unsaved work, does an ended sub stay ended? | a writer and a gate, 1 restart, 1 fault (a failed step or a death), 1 question or follow-up |
| `writer_live` | does the slot go in queue order, to a gate only after the merge; does it move on, and is who it reaches started? | the same two, 1 fault, 1 merge |
| `writer_dropped` (violation) | does a queued sub start by itself? | the same two, nothing fails |
| `after_hold` | does a waiter start once, on its base, or is Joe asked; is his card about a sub that waits; is nobody finished in a turn; is a refusal seen to? | b waits for a, 1 pass, 2 troubles of any kind |
| `after_stuck` (violation) | is an unresolved refusal always told or on a card? | the same |

The bounds are small because every race in this code is between two parties over one row or one record: one card that
stays and one that goes, one turn and the one after it, one old writer and one new. One death and one failed write are
enough to make every recovery path run, and a second turn is enough for every stale generation. Three cards
are needed for order (`SeqFollowsAskOrder`). What small bounds may hide is a race that needs three senders; for the
safety properties the theorems of section 5 close that gap.

Other instances of the two subchat modules were checked once, without errors, and are too long to repeat:
`WriterSlot` with all four bounds at 1 (2.1 million states), with two faults and two questions, and with
three subs; `AfterHold` with three troubles (6.5 million states, the inductive invariant of its proof
included) and with two passes. So was `Prompts` with two questions, one of them the daemon's, and no permission
(4.4 million states). Every trouble of `AfterHold` draws on one counter, so that
two of any kind may meet; its longest named exception (a passive failure after a refusal) needs exactly two.

**Fairness.** `TurnLifecycle`: the daemon's own tasks (pump, settles, opened calls, sweep) run on, each being a
tokio task nothing cancels; nothing is assumed of the child, the user or the callers. `Schedule`: the clock runs, a dead daemon
is started again, the tick loop runs on since each await in it has a timeout or ends with its child; callers and turns
owe nothing. `Prompts`: handlers and looks run on, and `PROMPT_TIMEOUT` fires; the user never has to answer, and
claude never has to end its turn. `WriterSlot` and `AfterHold`: tasks the daemon has begun run on (a spawn call, a launch,
a resume, a pass) and the 60-second tick comes; nothing is assumed of Joe, of the subs, of git, or that a
launch ever succeeds. No strong fairness is used anywhere.

**Liveness.** `DueIsDecided` (an overdue item does not wait for ever on a busy chat), `ShownWorkEnds` (the
watchdog's promise), `RequestsEnd` (a permission request ends also behind the ghost card of a dead handler), `SlotMovesOn` (a slot does
not stay with a sub that is gone), `ReachedIsStarted` (who the slot comes to is started, or Joe is asked) and
`WaiterIsDecided` (a waiter whose target is done is started, or Joe is asked, whatever launch the pass is busy with).

### Where the code and its words disagree

Two runs are violations, each of a sentence in the repository; `PROJECT.json` quotes the sentences.

- `writer_dropped`: a queued spawn is in the queue before it has a row, and whoever advances the queue in between drops it.
  Its recipe is stored afterwards and nothing will start it before a restart, although `register_queued` says of it that no pass
  "starts it: the slot does" (`daemon/subchats/writers.rs:295-298`).
- `after_stuck`: a refused merge whose next try fails in the passive way stays unresolved with nobody told and no card
  open, and its waiters wait until a restart (`daemon/subchats/merge_followup.rs:41-42` against `:141`).

Others were met on the way and are recorded as hazards, or as named exceptions of an invariant:

- a claim whose rewrite fails is used all the same: the prompt goes out, the outcome is dropped and each later tick sends it
  again (`sessions/scheduled_items.rs:333` against `:313`; the exception `unsaved` of `SavedClaimSentOnce`);
- the idle check of a wake is stale when its write happens, and the wake joins a turn a send has opened since
  (`daemon/repo_channel_wake.rs:166` against `:6`);
- `close_failed` is stamped without the generation guard, over the turn that was sent since (`daemon/pump.rs:507` against `:364`);
- the shared tail of the responders assumes that permissions never set `awaiting`; answering a question takes the row of a
  chat blocked on a permission off Needs Input (`daemon/methods/permission.rs:34` against `hooks_server/question.rs:24-27`);
- a child that dies between the write of a message and its first line leaves `busy` to the watchdog: the pump exits
  with the generation of the turn before (`daemon/pump/exit.rs:39`; "unheard");
- a result line read after an interrupt was flagged ends the live turn even in the replay window
  (`daemon/pump/turn_boundary.rs:70`; "cut"), and an eventless rejection in that window is swallowed (`:54`; "swallowed");
- a send that is opened while the lines of a turn nobody sent (a background task) lie unread behind the end of a turn the Stop
  hook has settled gives its generation to that turn, whose result then takes `busy` off the send (`daemon/pump.rs:122`; the
  attempt to prove `OpenTurnIsShown` found it, beyond the bounds of the run; it now counts as `crossed`);
- an item moved to a later time while the tick waits for guards is claimed at once (`daemon/schedule.rs:255`);
- an item edited and claimed again while it fires takes the outcome of its first firing (`sessions/scheduled_items.rs:352`);
- a held message item whose meeting detector latches on is deferred for ever if its chat is busy at each tick
  (`daemon/schedule.rs:139`);
- two permission requests can both see a free slot (`hooks_server/permission.rs:90-155`), after which the
  first to end clears the word of the other;
- a send that cannot be written has cleared the word of a card it did not answer, and its failure takes back only `busy`
  (`methods/lifecycle/core.rs:267` and `:274`; "failed" in `Prompts`);
- `schedule_update` looks an item up and writes it back later: a delete in between is undone (`daemon/methods/schedule.rs:81-96`;
  excepted by name in `OutcomeNeverResurrects`, which is about outcomes);
- a child that dies in a turn opened over a question card leaves the card unshown: the exit looks again only if a
  permission expired (`daemon/pump/exit.rs:51`);
- a pump that exits removes its chat from the session map by id, which after the five seconds of
  `kill_and_wait_for_teardown` may be the next child's (`daemon/pump/exit.rs:22`; not in the model);
- a file of items that cannot be read for a moment loads as empty, and the next rewrite erases the rest
  (`sessions/scheduled_items.rs:224`; loads do not fail in the model);
- in the writer slot: "Try again" on a card, and a follow-up, start a gate without the slot and without waiting for merges;
  a daemon that dies between the release of a recipe and the first message brings back a sub that never ran and
  has no recipe (`daemon/subchats/held.rs:408`); a registration that fails at its last write leaves a row
  without a child; a wake that cannot be delivered leaves a holder that does not know it holds the slot;
- `finished` is set before the merge and `after_state` does not look at merges in flight, so any pass in between starts the
  waiter, although `daemon/subchats/mod.rs:130-131` says it "see[s] what landed" ("merging");
- a refusal of the passive kind counts as clean for a waiter, refusals and landings in flight are forgotten in a restart, and
  a card about a refusal that is skipped leaves the waiters waiting ("other", "restart", "skipped");
- a branch that cannot be brought up to date does not stop the launch, although `held.rs:385-386` says that a failure does ("behind");
- the blocked card is raised again at the tick while Joe's "Start it anyway" is still setting up the tree, and its
  "Drop it" then ends the sub that has begun to run ("beside"); a pass that comes late to a sub somebody has started asks
  Joe why it "could not start" ("stale");
- a tell refused because its sub is busy puts that working sub back among the finished (`merge_followup.rs:149`; "told");
- the tick awaits its launches one after the other, worktree set-up included, and everything after it waits (`stuck.rs:166`).

## 5. Proofs

Every theorem is about `Spec` with any sets and bounds that satisfy the named `ASSUME`s of its module
(`CrashBound`, `ScheduleConstants`, `TurnConstants`, `PromptConstants`, `SlotConstants`, `HoldConstants`): disjointness of
names and bounds in `Nat`. `FirersAreNamed` and `LookersAreNamed` say the same of two history variables: the names of the
actors are not the strings that stand for "nobody", "the user", "the settle" and "the restore", which are no names in the code either.

- **`QuestionStore_proofs`**: `TypeCorrect`, `PostedSurvives`, `SettledGone`, `QuietCurrent`, `SeqOrder`, and
  `Refinement` (`QuestionStore` implements `CardFile`). The inductive `Inv` adds what the code never states: copies
  are numbered in the order they were taken and never ahead of `version` (`Numbering`), an insert is of a fresh id, an
  acknowledged post is in every list from some number on, a settled card in no list a worker may still write, and
  the last list taken is the memory whenever no handler is between its change and its copy.
- **`Schedule_proofs`**: `TypeCorrect`, `SentOnce`, `FiringOwned`, `OwnGuard`, `NeverResurrected`, `NoCollision`. `SentOnce` needs that
  armings in flight lie in the past (`ArmingsPast`), that the record of a claimed arming is no longer Pending
  with that number unless its write failed (`TakenNotPending`), and that two actors never carry the same saved arming (`CarriedOnce`).
  `NoCollision` needs that a chat the tick has found idle is not busy with the tick's own prompt until it sends (`TickFoundIdle`).
- **`TurnLifecycle_proofs`**: `TypeCorrect`, `CloseSettled`, `ConfirmedCloseKept`. `CloseIsSettled` talks about quiet
  states only; `CloseInv` says why they are settled: a close in flight always has a result line or an exit ahead of
  it, every stream line has a result behind it unless its child still runs or is dying, and a reaped child has
  nothing unread.
- **`TurnLatch_proofs`**: `LatchesKnown`, `TurnShown`. Three layers. `PipesInv` says what the pipes may hold: history lines come first
  and are results only, every line of a turn has an end behind it unless its child still runs, two ends have an init line between
  them, nothing is found of a message before it is written. `GensInv`: while the child lives the row's generation is pending or the pump's,
  and no Stop hook has seen a later one. On them stand two invariants about who may clear `busy`. `LatchInv` says that *somebody* will: "quiet implies not
  busy" is not inductive, because the pump may be in the middle of a turn of an older generation; then there must be a
  newer turn behind it (`PendingIsBehind`). `ShownInv` says that *nobody else* will: a turn that comes has at most the rest of one other turn
  before it, which the pump has begun and holds the generation of (`ComesBehind`); so it is while the child works at it
  (`RunsBehind`); no line in the middle of being settled, no replayed line and no waiting Stop hook has its generation. Both rest on lemmas about appending to, reading from and
  removing from a sequence.
- **`Prompts_proofs`**: `TypeCorrect`, `BlockedAnswerable`, `HiddenKnown`, `BareKnown`. The inductive `HandlersOK` owes the oneshot from the moment
  a handler registers it and the card from the moment it is shown, which every expiry, decision and timeout repays by a reply or by
  ending the wait. A calm chat says little about the states before it, so `LooksInv` says of every look at the cards what it saw and whether a
  card has come or gone since, `HiddenInv` who has still to show a card that is
  not shown, and `BareInv` who has still to take a word back that has no card.
- **`WriterSlot_proofs`**: `TypeCorrect`, `HeldNotBegun`, `EndedStays`, `SlotDistinct`, `DeadLeave`, `DirtyKeep`,
  `OneEdits`. The invariant is built in layers, each using only the ones before it: `Life` (what a sub's call, recipe,
  launch, resume and process may be together), `Placed` (holder and queue hold nobody twice, by lemmas on `Requests`, `Leave`
  and `Advance` over any queue), `RestOK` (types), `Waiting` (a sub is waited
  for by one card, one launch or one place in the queue), `Editing` and `EditorHolds`: whoever has an edit let through is the holder or has
  lost the slot by a named race. `OneEditor`
  follows, because there is one holder.
- **`WriterQueue_proofs`**: `RecipesReachable`, `NoOvertaking`, `GatesWait`. They rest on what `Advance`, `Requests` and `Leave` do to *any* queue,
  stated once: who is handed the slot, who stays queued and in which order (`HandsOn`), and who may be let go of
  (`LetsGo`). `RecipeInv` says of each stage of a spawn what stands for its recipe; the two action properties follow
  step by step from `Handed`.
- **`AfterHold_proofs`**: `TypeCorrect`, `OneStart`, `CardOfHeld`, `IdleWhenFinished`, `RefusalsHandled`, `OnItsBase`, for any
  `after` relation, circular ones included. `OnItsBase` is the long one: finished work is landed, on its way, refused or named as lost
  (`Accounted`); so a start that is decided, by a look at the target or by having none, was decided on landed work or in a
  named race (`DecidedWell`); so what caught up did so with its target's work (`CaughtUp`). `CardOfHeld` needs to know what each
  kind of launch still owes (`Cards`), `RefusalsHandled` that a refusal is also accounted for while its sub *would* be
  finished again (`Refusals`).

The type invariants are theorems of all six modules; runs check them too where they have caught a modelling slip
(`QuestionStore`, `Schedule`).

Two proofs changed the model. `RecipeIsReachable` had an exception that the proof did not need (a follow-up with `writes` to a
sub that has not started), and it is gone. `OpenTurnIsShown` was false beyond the bounds of its run, as section 4 says.

Every invariant and action property of a passing run is proved. Only model-checked are the six liveness properties (the prover handles
neither fairness nor ENABLED), and the two sentences of the repository that TLC refutes. Nothing here is
defined by recursion, so no induction over data is needed (the installed provers could not do it, nor use a RECURSIVE operator).

## 6. Not modelled

`PROJECT.json` lists every component with its status. Besides the planned ones: transport, authentication and
pairing; rendering and the transcript parser (pure translation of data); SQLite rows and token statistics; operating-system adapters. The
`claude` CLI, the pipes, axum and the operating system are modelled only by how this code uses them, and marked external in the map.
