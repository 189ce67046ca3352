------------------------------- MODULE CardFile -------------------------------
(***************************************************************************)
(* What the file of durable question cards promises a daemon that may be   *)
(* killed at any moment: the saves are numbered in the order their lists   *)
(* were taken, the file holds exactly one of those lists, and it only ever *)
(* moves to a list taken LATER than the one it holds.  A restart begins a  *)
(* new numbering from the list it found.                                   *)
(*                                                                         *)
(* Saves may be skipped and may fail: the promise is about order, not about *)
(* every list reaching the disk.                                           *)
(***************************************************************************)
EXTENDS Naturals, Sequences

CONSTANT Cards      \* identities of question cards

VARIABLES
  lists,            \* the lists taken since the last restart, in order
  at,               \* which of them the file holds
  file              \* the contents of the file

fileVars == <<lists, at, file>>

Init ==
  /\ lists = <<{}>>
  /\ at = 1
  /\ file = {}

\* A save takes its copy of the open cards.
TakeList ==
  /\ \E open \in SUBSET Cards : lists' = Append(lists, open)
  /\ UNCHANGED <<at, file>>

\* A save reaches the disk: only a list newer than the one there.
Save ==
  /\ \E i \in DOMAIN lists :
        /\ i > at
        /\ at' = i
        /\ file' = lists[i]
  /\ UNCHANGED lists

\* The daemon dies; the next one numbers its lists from the file it finds.
Restart ==
  /\ lists' = <<file>>
  /\ at' = 1
  /\ UNCHANGED file

Next == TakeList \/ Save \/ Restart

Spec == Init /\ [][Next]_fileVars
===============================================================================
