------------------------------ MODULE MCSchedule ------------------------------
(* Model-checking instances of Schedule.                                     *)
EXTENDS Schedule, TLC

CONSTANTS a, b, s

\* Who fires into a chat: every item, or none (all open new chats).
OneChat  == [i \in Items |-> s]
NewChats == [i \in Items |-> NoSession]

\* RPC calls are interchangeable.
Symmetry == Permutations(Callers)
===============================================================================
