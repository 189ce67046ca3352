--------------------------- MODULE MCQuestionStore ---------------------------
(* Model-checking instance of QuestionStore: three cards, two handlers.      *)
EXTENDS QuestionStore, TLC

\* Cards and handlers are interchangeable.
Symmetry == Permutations(Cards) \cup Permutations(Workers)
===============================================================================
