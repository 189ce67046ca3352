---------------------------- MODULE QuestionStore ----------------------------
(***************************************************************************)
(* The durable question cards of the daemon and the file that carries them *)
(* across a restart (daemon/state/pending_questions.rs and the two halves  *)
(* of daemon/state/prompts.rs that add and remove a card).                 *)
(*                                                                         *)
(* A handler changes the in-memory map under the prompts lock, lets the    *)
(* lock go, takes it again to copy the open cards and to number the copy,  *)
(* lets it go again, and only then writes the file under a second lock.    *)
(* Handlers interleave at each of those points, a write may fail, and the  *)
(* daemon may die between any two steps.                                   *)
(***************************************************************************)
EXTENDS Naturals, Sequences, FiniteSets

CONSTANTS
  Cards,            \* question cards; an id is a fresh uuid, used once
  Workers,          \* handlers that can be in flight at the same time
  MaxCrashes        \* bound: how often the daemon may die

ASSUME CrashBound == MaxCrashes \in Nat

VARIABLES
  phase,            \* "down", "booting" (serving, not reconciled) or "up"
  crashes,          \* number of deaths so far
  open,             \* pending_prompts: the cards open in memory
  seqOf,            \* payload.seq of each card
  nextSeq,          \* prompt_seq
  version,          \* pending_questions_version
  written,          \* pending_questions_written
  disk,             \* the cards in pending-questions.json
  pc, op, subject,  \* per worker: where it is, what it does, to which cards
  ver, body,        \* per worker: the numbered copy it is about to write
  \* history
  drawn,            \* the cards in the order their seq was drawn
  lists,            \* every numbered copy since the last boot; lists[1] = file at boot
  diskVer,          \* the version of the copy on disk (0: the file at boot)
  tainted,          \* a death came while the last write attempted had failed
  posted,           \* cards whose post was acknowledged to the asking hook
  settled           \* cards whose removal was acknowledged to its caller

memory  == <<open, nextSeq, version, written>>
jobs    == <<pc, op, subject, ver, body>>
history == <<drawn, lists, diskVer, tainted, posted, settled>>
vars    == <<phase, crashes, memory, seqOf, disk, jobs, history>>

Serving == phase \in {"booting", "up"}
Used    == {drawn[i] : i \in DOMAIN drawn}

Init ==
  /\ phase = "booting" /\ crashes = 0
  /\ open = {} /\ nextSeq = 0 /\ version = 0 /\ written = 0
  /\ seqOf = [c \in Cards |-> 0]
  /\ disk = {}
  /\ pc = [w \in Workers |-> "idle"]
  /\ op = [w \in Workers |-> "add"]
  /\ subject = [w \in Workers |-> {}]
  /\ ver = [w \in Workers |-> 0]
  /\ body = [w \in Workers |-> {}]
  /\ drawn = <<>> /\ lists = <<{}>> /\ diskVer = 0 /\ tainted = FALSE
  /\ posted = {} /\ settled = {}

-------------------------------------------------------------------------------
\* The ask hook numbers its card before it awaits anything (next_prompt_seq).
DrawSeq(w, c) ==
  /\ Serving /\ pc[w] = "idle" /\ c \notin Used
  /\ seqOf' = [seqOf EXCEPT ![c] = nextSeq]
  /\ nextSeq' = nextSeq + 1
  /\ drawn' = Append(drawn, c)
  /\ pc' = [pc EXCEPT ![w] = "insert"]
  /\ op' = [op EXCEPT ![w] = "add"]
  /\ subject' = [subject EXCEPT ![w] = {c}]
  /\ UNCHANGED <<phase, crashes, open, version, written, disk, ver, body,
                 lists, diskVer, tainted, posted, settled>>

\* add_prompt: the record goes in under the prompts lock.
Insert(w) ==
  /\ pc[w] = "insert"
  /\ open' = open \cup subject[w]
  /\ pc' = [pc EXCEPT ![w] = "snapshot"]
  /\ UNCHANGED <<phase, crashes, nextSeq, version, written, seqOf, disk, op,
                 subject, ver, body, history>>

\* (fault) the removal is never saved
RemoveUnsaved(w, c) ==
  /\ Serving /\ pc[w] = "idle" /\ c \in open
  /\ open' = open \ {c}
  /\ settled' = settled \cup {c}
  /\ UNCHANGED <<phase, crashes, nextSeq, version, written, seqOf, disk, jobs,
                 drawn, lists, diskVer, tainted, posted>>

\* remove_prompt on an open card: answered or skipped.
Remove(w, c) ==
  /\ Serving /\ pc[w] = "idle" /\ c \in open
  /\ open' = open \ {c}
  /\ pc' = [pc EXCEPT ![w] = "snapshot"]
  /\ op' = [op EXCEPT ![w] = "remove"]
  /\ subject' = [subject EXCEPT ![w] = {c}]
  /\ UNCHANGED <<phase, crashes, nextSeq, version, written, seqOf, disk, ver,
                 body, history>>

\* (fault) the version counter is decremented
VersionDown == version - 1

NextVersion == version + 1

\* persist_pending_questions, first half: copy and number under the lock.
Snapshot(w) ==
  /\ pc[w] = "snapshot"
  /\ version' = NextVersion
  /\ ver' = [ver EXCEPT ![w] = NextVersion]
  /\ body' = [body EXCEPT ![w] = open]
  /\ lists' = Append(lists, open)
  /\ pc' = [pc EXCEPT ![w] = "write"]
  /\ UNCHANGED <<phase, crashes, open, nextSeq, written, seqOf, disk, op,
                 subject, drawn, diskVer, tainted, posted, settled>>

\* The handler returns to whoever asked for the change; its locals are gone.
Acknowledge(w) ==
  /\ pc' = [pc EXCEPT ![w] = "idle"]
  /\ subject' = [subject EXCEPT ![w] = {}]
  /\ ver' = [ver EXCEPT ![w] = 0]
  /\ body' = [body EXCEPT ![w] = {}]
  /\ UNCHANGED op
  /\ posted'  = IF op[w] = "add" THEN posted \cup subject[w] ELSE posted
  /\ settled' = IF op[w] = "remove" THEN settled \cup subject[w] ELSE settled

\* (fault) the copy is written whatever was written before it
AnyCopy(w) == ver[w] > 0

\* The copy was numbered after the last one a write was attempted for.
Newer(w) == ver[w] > written

\* persist_pending_questions, second half, under the write lock: a copy that is
\* not newer than the last one attempted is dropped ...
SkipWrite(w) ==
  /\ pc[w] = "write" /\ ~Newer(w)
  /\ Acknowledge(w)
  /\ UNCHANGED <<phase, crashes, memory, seqOf, disk, drawn, lists, diskVer, tainted>>

\* ... a newer one replaces the file (tmp + rename) ...
WriteFile(w) ==
  /\ pc[w] = "write" /\ Newer(w)
  /\ written' = ver[w]
  /\ disk' = body[w]
  /\ diskVer' = ver[w]
  /\ Acknowledge(w)
  /\ UNCHANGED <<phase, crashes, open, nextSeq, version, seqOf, drawn, lists,
                 tainted>>

\* ... or fails, which is logged and otherwise ignored.
WriteFails(w) ==
  /\ pc[w] = "write" /\ Newer(w)
  /\ written' = ver[w]
  /\ Acknowledge(w)
  /\ UNCHANGED <<phase, crashes, open, nextSeq, version, seqOf, disk, drawn,
                 lists, diskVer, tainted>>

-------------------------------------------------------------------------------
\* The daemon dies: memory and every handler in flight are gone.
Crash ==
  /\ Serving /\ crashes < MaxCrashes
  /\ phase' = "down" /\ crashes' = crashes + 1
  /\ open' = {} /\ nextSeq' = 0 /\ version' = 0 /\ written' = 0
  /\ pc' = [w \in Workers |-> "idle"]
  /\ subject' = [w \in Workers |-> {}]
  /\ ver' = [w \in Workers |-> 0]
  /\ body' = [w \in Workers |-> {}]
  /\ lists' = <<disk>> /\ diskVer' = 0
  /\ tainted' = (tainted \/ diskVer # written)
  /\ UNCHANGED <<seqOf, disk, op, drawn, posted, settled>>

\* (fault) off by one: prompt_seq.fetch_max(max)
NumbersFrom(n, restored) ==
  IF restored = {} THEN n = 0
  ELSE /\ \E c \in restored : n = seqOf[c]
       /\ \A c \in restored : seqOf[c] <= n

\* prompt_seq.fetch_max(max + 1) over the restored cards, from a fresh counter.
NumbersAbove(n, restored) ==
  IF restored = {} THEN n = 0
  ELSE /\ \E c \in restored : n = seqOf[c] + 1
       /\ \A c \in restored : seqOf[c] < n

\* init_pending_questions, before anything is served.
Boot ==
  /\ phase = "down"
  /\ phase' = "booting"
  /\ open' = disk
  /\ \E n \in {0} \cup UNION {{seqOf[c], seqOf[c] + 1} : c \in disk} :
        NumbersAbove(n, disk) /\ nextSeq' = n
  /\ UNCHANGED <<crashes, version, written, seqOf, disk, jobs, history>>

\* (fault) the shortened list is not saved again
ReconcileUnsaved(w) ==
  /\ phase = "booting" /\ pc[w] = "idle"
  /\ \E orphans \in SUBSET open : open' = open \ orphans
  /\ phase' = "up"
  /\ UNCHANGED <<crashes, nextSeq, version, written, seqOf, disk, jobs, history>>

\* reconcile_pending_questions: the cards of sessions the registry does not have,
\* or has as ended, go; the list is saved again only if some did.
Reconcile(w) ==
  /\ phase = "booting" /\ pc[w] = "idle"
  /\ \E orphans \in SUBSET open :
        /\ open' = open \ orphans
        /\ subject' = [subject EXCEPT ![w] = orphans]
        /\ pc' = [pc EXCEPT ![w] = IF orphans = {} THEN @ ELSE "snapshot"]
  /\ op' = [op EXCEPT ![w] = "remove"]
  /\ phase' = "up"
  /\ UNCHANGED <<crashes, nextSeq, version, written, seqOf, disk, ver, body,
                 history>>

Next ==
  \/ \E w \in Workers, c \in Cards : DrawSeq(w, c) \/ Remove(w, c)
  \/ \E w \in Workers :
        \/ Insert(w) \/ Snapshot(w)
        \/ SkipWrite(w) \/ WriteFile(w) \/ WriteFails(w)
        \/ Reconcile(w)
  \/ Crash
  \/ Boot

Spec == Init /\ [][Next]_vars

-------------------------------------------------------------------------------
TypeOK ==
  /\ phase \in {"down", "booting", "up"}
  /\ crashes \in Nat
  /\ open \subseteq Cards
  /\ seqOf \in [Cards -> Nat]
  /\ nextSeq \in Nat /\ version \in Nat /\ written \in Nat
  /\ disk \subseteq Cards
  /\ pc \in [Workers -> {"idle", "insert", "snapshot", "write"}]
  /\ op \in [Workers -> {"add", "remove"}]
  /\ subject \in [Workers -> SUBSET Cards]
  /\ ver \in [Workers -> Nat]
  /\ body \in [Workers -> SUBSET Cards]
  /\ drawn \in Seq(Cards)
  /\ lists \in Seq(SUBSET Cards)
  /\ diskVer \in Nat /\ tainted \in BOOLEAN
  /\ posted \subseteq Cards /\ settled \subseteq Cards

\* The last write attempted succeeded, and no death lost a failed one.
DiskHealthy == diskVer = written /\ ~tainted

\* A card whose post was acknowledged and that is still open is in the file: a
\* restart brings it back, whatever other saves were in flight at that moment.
PostedCardSurvives ==
  Serving /\ DiskHealthy => posted \cap open \subseteq disk

\* A card whose answer was acknowledged is not in the file: a restart never asks
\* an answered question again.
SettledCardStaysGone ==
  Serving /\ DiskHealthy => settled \cap disk = {}

\* With no save in flight the file is exactly the open cards: no interleaving of
\* the two locks loses the last change.
QuietFileIsCurrent ==
  /\ Serving /\ DiskHealthy
  /\ \A w \in Workers : pc[w] \notin {"snapshot", "write"}
  => disk = open

\* Of two open cards the one asked later carries the larger seq, also when a
\* restart lies between them: the windows order cards by it.
SeqFollowsAskOrder ==
  \A i, j \in DOMAIN drawn :
     i < j /\ {drawn[i], drawn[j]} \subseteq open
       => seqOf[drawn[i]] < seqOf[drawn[j]]

\* The file only moves to lists taken later (see CardFile).
File == INSTANCE CardFile WITH at <- diskVer + 1, file <- disk
FileMovesForward == File!Spec
===============================================================================
