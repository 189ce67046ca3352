------------------------------- MODULE MCPrompts -------------------------------
(* Model-checking instances of Prompts.                                      *)
EXTENDS Prompts
===============================================================================
