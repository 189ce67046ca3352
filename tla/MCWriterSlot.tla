----------------------------- MODULE MCWriterSlot -----------------------------
(* Model-checking instances of WriterSlot.                                   *)
EXTENDS WriterSlot
===============================================================================
