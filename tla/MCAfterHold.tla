------------------------------ MODULE MCAfterHold ------------------------------
(* Model-checking instances of AfterHold: b waits for a.                     *)
EXTENDS AfterHold

CONSTANTS a, b
Waiting == [s \in {a, b} |-> IF s = b THEN a ELSE None]
===============================================================================
