---------------------------- MODULE Prompts_proofs ----------------------------
(***************************************************************************)
(* What holds of the cards of a chat for every set of cards, every bound   *)
(* and every order of the steps.                                           *)
(***************************************************************************)
EXTENDS Prompts, TLAPS

-------------------------------------------------------------------------------
(* Type correctness, one part of TypeOK at a time.                          *)

LEMMA RowStep == TypeOK /\ [Next]_vars => RowOK'
<1> SUFFICES ASSUME TypeOK, [Next]_vars PROVE RowOK'
  OBVIOUS
<1> USE PromptConstants DEF TypeOK, RowOK, CallsOK, Words, row, child, cards, calls,
         bounds, history
<1>1. ASSUME NEW answered \in SUBSET Questions, SendOpens(answered) PROVE RowOK'
  BY <1>1 DEF SendOpens
<1>1a. ASSUME NEW g \in sends, SendWrites(g) \/ SendFails(g) PROVE RowOK'
  BY <1>1a DEF SendWrites, SendFails, Spawned
<1>1b. ASSUME Resume \/ Folds \/ LineRead PROVE RowOK'
  BY <1>1b DEF Resume, Folds, LineRead, Reads, Spawned
<1>2. ASSUME GoesLive PROVE RowOK'
  BY <1>2 DEF GoesLive, Reads
<1>3. ASSUME NEW s \in Status, Settles(s) PROVE RowOK'
  BY <1>3 DEF Settles, Reads, SettledFor, Backed, NoSettle
<1>4. ASSUME WritesSettled PROVE RowOK'
  BY <1>4 DEF WritesSettled, TurnOver, NoSettle
<1>5. ASSUME PumpExits PROVE RowOK'
  BY <1>5 DEF PumpExits, Expires, Expired, DropsOneshots
<1>6. ASSUME CancelResets PROVE RowOK'
  BY <1>6 DEF CancelResets
<1>7. ASSUME CancelRestores PROVE RowOK'
  BY <1>7 DEF CancelRestores
<1>8. ASSUME NEW a \in Clearers, Clears(a) PROVE RowOK'
  BY <1>8 DEF Clears
<1>9. ASSUME NEW q \in Questions, PostMarks(q) PROVE RowOK'
  BY <1>9 DEF PostMarks
<1>10. ASSUME NEW q \in Questions, Bridges(q) PROVE RowOK'
  BY <1>10 DEF Bridges, BridgeGen
<1>11. ASSUME NEW g \in bridges, BridgeEnds(g) PROVE RowOK'
  BY <1>11 DEF BridgeEnds
<1>12. ASSUME NEW p \in Permissions, AskMarks(p) PROVE RowOK'
  BY <1>12 DEF AskMarks
<1>13. ASSUME SelfTurn \/ StopsUnheard \/ Dies \/ CancelExpires \/ CancelLooks PROVE RowOK'
  BY <1>13 DEF SelfTurn, StopsUnheard, Dies, CancelExpires, Expires, Expired,
         DropsOneshots, CancelLooks
<1>14. ASSUME NEW a \in Clearers, LooksForSiblings(a) PROVE RowOK'
  BY <1>14 DEF LooksForSiblings
<1>15. ASSUME NEW q \in Questions, PostAdds(q) PROVE RowOK'
  BY <1>15 DEF PostAdds
<1>16. ASSUME NEW q \in Questions, NEW how \in {"answered", "done"}, Answers(q, how) PROVE RowOK'
  BY <1>16 DEF Answers
<1>17. ASSUME NEW p \in Permissions,
         AskStarts(p) \/ TakesSlot(p) \/ AskRegisters(p) \/ AskShows(p) \/
         AskHears(p) \/ AskEnds(p) \/ AskDropped(p) \/ Decides(p)
  PROVE RowOK'
  BY <1>17 DEF AskStarts, TakesSlot, AskRegisters, AskShows, AskHears, AskEnds,
         AskDropped, Decides
<1>18. ASSUME UNCHANGED vars PROVE RowOK'
  BY <1>18 DEF vars
<1> QED BY <1>1, <1>1a, <1>1b, <1>2, <1>3, <1>4, <1>5, <1>6, <1>7, <1>8, <1>9, <1>10, <1>11,
         <1>12, <1>13, <1>14, <1>15, <1>16, <1>17, <1>18
     DEF Next, TurnStep, CancelStep, HandlerStep

LEMMA ChildStep == TypeOK /\ [Next]_vars => ChildOK'
<1> SUFFICES ASSUME TypeOK, [Next]_vars PROVE ChildOK'
  OBVIOUS
<1> USE PromptConstants DEF TypeOK, RowOK, ChildOK, row, child, cards, calls,
         bounds, history
<1>1. ASSUME NEW answered \in SUBSET Questions, SendOpens(answered) PROVE ChildOK'
  <2>1. gen \in Nat /\ gen' = gen + 1 /\ turn \in 0..gen
    BY <1>1 DEF SendOpens
  <2>2. UNCHANGED <<claude, turn, next, captured>> /\ pending' = TRUE
    BY <1>1 DEF SendOpens
  <2>3. turn' \in 0..gen'
    BY <2>1, <2>2
  <2> QED BY <2>2, <2>3
<1>1a. ASSUME NEW g \in sends, SendWrites(g) \/ SendFails(g) PROVE ChildOK'
  <2>1. gen' = gen /\ turn' \in {turn, gen} /\ captured' \in {captured, FALSE}
    BY <1>1a DEF SendWrites, SendFails, Spawned
  <2>2. turn' \in 0..gen'
    BY <2>1
  <2>3. pending' = pending /\ claude' \in {claude, "running"} /\ next' \in BOOLEAN
    BY <1>1a DEF SendWrites, SendFails
  <2> QED BY <2>1, <2>2, <2>3
<1>1b. ASSUME Resume \/ Folds \/ LineRead PROVE ChildOK'
  <2>1. gen' = gen /\ turn' \in {turn, gen} /\ captured' \in BOOLEAN
    BY <1>1b DEF Resume, Folds, LineRead, Reads, Spawned
  <2>2. turn' \in 0..gen'
    BY <2>1
  <2>3. pending' \in BOOLEAN /\ claude' \in {claude, "idle"} /\ next' \in {next, FALSE}
    BY <1>1b DEF Resume, Folds, LineRead, Reads
  <2> QED BY <2>1, <2>2, <2>3
<1>2. ASSUME SelfTurn PROVE ChildOK'
  BY <1>2 DEF SelfTurn
<1>3. ASSUME GoesLive PROVE ChildOK'
  BY <1>3 DEF GoesLive, Reads
<1>4. ASSUME StopsUnheard PROVE ChildOK'
  BY <1>4 DEF StopsUnheard
<1>5. ASSUME Dies PROVE ChildOK'
  BY <1>5 DEF Dies
<1>6. ASSUME WritesSettled PROVE ChildOK'
  BY <1>6 DEF WritesSettled, TurnOver, NoSettle
<1>7. ASSUME PumpExits PROVE ChildOK'
  BY <1>7 DEF PumpExits, Expires, Expired, DropsOneshots
<1>8. ASSUME NEW s \in Status, Settles(s) PROVE ChildOK'
  <2>1. gen' = gen /\ turn' \in {turn, gen}
    BY <1>8 DEF Settles, Reads
  <2>2. turn' \in 0..gen'
    BY <2>1
  <2>3. /\ UNCHANGED <<claude, next>> /\ captured' \in {captured, FALSE}
        /\ pending' \in BOOLEAN
    BY <1>8 DEF Settles, Reads
  <2> QED BY <2>2, <2>3
<1>9. ASSUME CancelResets \/ CancelExpires \/ CancelLooks \/ CancelRestores PROVE ChildOK'
  BY <1>9 DEF CancelResets, CancelExpires, Expires, Expired, DropsOneshots,
         CancelLooks, CancelRestores
<1>10. ASSUME NEW a \in Clearers, LooksForSiblings(a) \/ Clears(a) PROVE ChildOK'
  BY <1>10 DEF LooksForSiblings, Clears
<1>11. ASSUME NEW q \in Questions, PostAdds(q) \/ PostMarks(q) \/ Bridges(q) PROVE ChildOK'
  BY <1>11 DEF PostAdds, PostMarks, Bridges
<1>12. ASSUME NEW q \in Questions, NEW how \in {"answered", "done"}, Answers(q, how) PROVE ChildOK'
  BY <1>12 DEF Answers
<1>13. ASSUME NEW g \in bridges, BridgeEnds(g) PROVE ChildOK'
  BY <1>13 DEF BridgeEnds
<1>14. ASSUME NEW p \in Permissions,
         AskStarts(p) \/ TakesSlot(p) \/ AskRegisters(p) \/ AskShows(p) \/ AskMarks(p) \/
         AskHears(p) \/ AskEnds(p) \/ AskDropped(p) \/ Decides(p)
  PROVE ChildOK'
  BY <1>14 DEF AskStarts, TakesSlot, AskRegisters, AskShows, AskMarks, AskHears,
         AskEnds, AskDropped, Decides
<1>15. ASSUME UNCHANGED vars PROVE ChildOK'
  BY <1>15 DEF vars
<1> QED BY <1>1, <1>1a, <1>1b, <1>2, <1>3, <1>4, <1>5, <1>6, <1>7, <1>8, <1>9, <1>10, <1>11,
         <1>12, <1>13, <1>14, <1>15
     DEF Next, TurnStep, CancelStep, HandlerStep

LEMMA CardsStep == TypeOK /\ [Next]_vars => CardsOK'
<1> SUFFICES ASSUME TypeOK, [Next]_vars PROVE CardsOK'
  OBVIOUS
<1> USE PromptConstants DEF TypeOK, CardsOK, Cards, Questions, row, child, cards,
         calls, bounds, history
<1>1. ASSUME NEW answered \in SUBSET Questions, SendOpens(answered) PROVE CardsOK'
  BY <1>1 DEF SendOpens
<1>1a. ASSUME NEW g \in sends, SendWrites(g) \/ SendFails(g) PROVE CardsOK'
  BY <1>1a DEF SendWrites, SendFails, Spawned
<1>1b. ASSUME Resume \/ Folds \/ LineRead PROVE CardsOK'
  BY <1>1b DEF Resume, Folds, LineRead, Reads, Spawned
<1>2. ASSUME PumpExits PROVE CardsOK'
  BY <1>2 DEF PumpExits, Expires, Expired, DropsOneshots
<1>3. ASSUME CancelExpires PROVE CardsOK'
  BY <1>3 DEF CancelExpires, Expires, Expired, DropsOneshots
<1>4. ASSUME NEW q \in Questions, PostAdds(q) PROVE CardsOK'
  BY <1>4 DEF PostAdds
<1>5. ASSUME NEW q \in Questions, NEW how \in {"answered", "done"}, Answers(q, how)
  PROVE CardsOK'
  BY <1>5 DEF Answers
<1>6. ASSUME NEW p \in Permissions, AskRegisters(p) PROVE CardsOK'
  BY <1>6 DEF AskRegisters
<1>7. ASSUME NEW p \in Permissions, AskShows(p)
  PROVE CardsOK'
  BY <1>7 DEF AskShows
<1>8. ASSUME NEW p \in Permissions, AskHears(p) PROVE CardsOK'
  BY <1>8 DEF AskHears
<1>9. ASSUME NEW p \in Permissions, AskEnds(p) PROVE CardsOK'
  BY <1>9 DEF AskEnds
<1>10. ASSUME NEW p \in Permissions, Decides(p) PROVE CardsOK'
  BY <1>10 DEF Decides
<1>11. ASSUME
         SelfTurn \/ GoesLive \/ StopsUnheard \/ Dies \/
         WritesSettled \/ CancelResets \/ CancelLooks \/ CancelRestores
  PROVE CardsOK'
  BY <1>11 DEF SelfTurn, GoesLive, Reads, StopsUnheard, Dies, WritesSettled, CancelResets,
         CancelLooks, CancelRestores
<1>12. ASSUME NEW s \in Status, Settles(s) PROVE CardsOK'
  BY <1>12 DEF Settles, Reads
<1>13. ASSUME NEW a \in Clearers, LooksForSiblings(a) \/ Clears(a) PROVE CardsOK'
  BY <1>13 DEF LooksForSiblings, Clears
<1>14. ASSUME NEW q \in Questions, PostMarks(q) \/ Bridges(q) PROVE CardsOK'
  BY <1>14 DEF PostMarks, Bridges
<1>15. ASSUME NEW g \in bridges, BridgeEnds(g) PROVE CardsOK'
  BY <1>15 DEF BridgeEnds
<1>16. ASSUME NEW p \in Permissions,
         AskStarts(p) \/ TakesSlot(p) \/ AskMarks(p) \/ AskDropped(p) PROVE CardsOK'
  BY <1>16 DEF AskStarts, TakesSlot, AskMarks, AskDropped
<1>17. ASSUME UNCHANGED vars PROVE CardsOK'
  BY <1>17 DEF vars
<1> QED BY <1>1, <1>1a, <1>1b, <1>2, <1>3, <1>4, <1>5, <1>6, <1>7, <1>8, <1>9, <1>10, <1>11,
         <1>12, <1>13, <1>14, <1>15, <1>16, <1>17
     DEF Next, TurnStep, CancelStep, HandlerStep

LEMMA CallsStep == TypeOK /\ [Next]_vars => CallsOK'
<1> SUFFICES ASSUME TypeOK, [Next]_vars PROVE CallsOK'
  OBVIOUS
<1> USE PromptConstants DEF TypeOK, RowOK, ChildOK, CallsOK, Words, Clearers, Cards,
         Questions, row, child, cards, calls, bounds, history
<1>1. ASSUME NEW answered \in SUBSET Questions, SendOpens(answered) PROVE CallsOK'
  BY <1>1 DEF SendOpens
<1>1a. ASSUME NEW g \in sends, SendWrites(g) \/ SendFails(g) PROVE CallsOK'
  BY <1>1a DEF SendWrites, SendFails, Spawned
<1>1b. ASSUME Resume \/ Folds \/ LineRead PROVE CallsOK'
  BY <1>1b DEF Resume, Folds, LineRead, Reads, Spawned
<1>2. ASSUME NEW s \in Status, Settles(s) PROVE CallsOK'
  BY <1>2 DEF Settles, Reads, SettledFor, Backed, NoSettle
<1>3. ASSUME WritesSettled PROVE CallsOK'
  BY <1>3 DEF WritesSettled, TurnOver, NoSettle
<1>4. ASSUME PumpExits PROVE CallsOK'
  BY <1>4 DEF PumpExits, Expires, Expired, DropsOneshots
<1>5. ASSUME CancelResets PROVE CallsOK'
  BY <1>5 DEF CancelResets
<1>6. ASSUME CancelExpires PROVE CallsOK'
  BY <1>6 DEF CancelExpires, Expires, Expired, DropsOneshots
<1>7. ASSUME CancelLooks PROVE CallsOK'
  BY <1>7 DEF CancelLooks
<1>8. ASSUME CancelRestores PROVE CallsOK'
  BY <1>8 DEF CancelRestores
<1>9. ASSUME NEW a \in Clearers, LooksForSiblings(a) PROVE CallsOK'
  BY <1>9 DEF LooksForSiblings
<1>10. ASSUME NEW a \in Clearers, Clears(a) PROVE CallsOK'
  BY <1>10 DEF Clears
<1>11. ASSUME NEW q \in Questions, PostAdds(q) PROVE CallsOK'
  BY <1>11 DEF PostAdds
<1>12. ASSUME NEW q \in Questions, PostMarks(q) PROVE CallsOK'
  BY <1>12 DEF PostMarks
<1>13. ASSUME NEW q \in Questions, Bridges(q) PROVE CallsOK'
  <2>1. gen \in Nat /\ gen' = gen /\ bridges' \subseteq bridges \cup {gen}
    BY <1>13 DEF Bridges, BridgeGen
  <2>2. bridges' \subseteq 0..gen'
    BY <2>1
  <2>3. answer' \in [Questions -> {"none", "answered", "done"}]
    BY <1>13 DEF Bridges
  <2>4. UNCHANGED <<ask, post, clear, settle, cancel, sends>> /\ gen' = gen
    BY <1>13 DEF Bridges
  <2> QED BY <2>2, <2>3, <2>4
<1>14. ASSUME NEW q \in Questions, NEW how \in {"answered", "done"}, Answers(q, how)
  PROVE CallsOK'
  BY <1>14 DEF Answers
<1>15. ASSUME NEW g \in bridges, BridgeEnds(g) PROVE CallsOK'
  BY <1>15 DEF BridgeEnds
<1>16. ASSUME NEW p \in Permissions, AskStarts(p) PROVE CallsOK'
  BY <1>16 DEF AskStarts
<1>17. ASSUME NEW p \in Permissions, TakesSlot(p) PROVE CallsOK'
  BY <1>17 DEF TakesSlot
<1>18. ASSUME NEW p \in Permissions, AskRegisters(p) PROVE CallsOK'
  BY <1>18 DEF AskRegisters
<1>19. ASSUME NEW p \in Permissions, AskShows(p)
  PROVE CallsOK'
  BY <1>19 DEF AskShows
<1>20. ASSUME NEW p \in Permissions, AskMarks(p) PROVE CallsOK'
  BY <1>20 DEF AskMarks
<1>21. ASSUME NEW p \in Permissions, AskHears(p) PROVE CallsOK'
  BY <1>21 DEF AskHears
<1>22. ASSUME NEW p \in Permissions, AskEnds(p) PROVE CallsOK'
  BY <1>22 DEF AskEnds
<1>23. ASSUME NEW p \in Permissions, AskDropped(p) PROVE CallsOK'
  BY <1>23 DEF AskDropped
<1>24. ASSUME SelfTurn \/ GoesLive \/ StopsUnheard \/ Dies PROVE CallsOK'
  BY <1>24 DEF SelfTurn, GoesLive, Reads, StopsUnheard, Dies
<1>25. ASSUME NEW p \in Permissions, Decides(p) PROVE CallsOK'
  BY <1>25 DEF Decides
<1>26. ASSUME UNCHANGED vars PROVE CallsOK'
  BY <1>26 DEF vars
<1> QED BY <1>1, <1>1a, <1>1b, <1>2, <1>3, <1>4, <1>5, <1>6, <1>7, <1>8, <1>9, <1>10, <1>11,
         <1>12, <1>13, <1>14, <1>15, <1>16, <1>17, <1>18, <1>19, <1>20, <1>21,
         <1>22, <1>23, <1>24, <1>25, <1>26
     DEF Next, TurnStep, CancelStep, HandlerStep

LEMMA HistoryStep == TypeOK /\ [Next]_vars => HistoryOK'
<1> SUFFICES ASSUME TypeOK, [Next]_vars PROVE HistoryOK'
  OBVIOUS
<1> USE PromptConstants DEF TypeOK, HistoryOK, Clearers, Cards, Questions, row,
         child, cards, calls, bounds, history
<1>1. ASSUME NEW answered \in SUBSET Questions, SendOpens(answered) PROVE HistoryOK'
  BY <1>1 DEF SendOpens, Wrote, WroteHidden, WroteLooked, ChangedBare, Changed,
         Ages, Lookers
<1>1a. ASSUME NEW g \in sends, SendWrites(g) \/ SendFails(g) PROVE HistoryOK'
  BY <1>1a DEF SendWrites, SendFails, Spawned, WroteHidden, Wrote
<1>1b. ASSUME Resume \/ Folds \/ LineRead PROVE HistoryOK'
  BY <1>1b DEF Resume, Folds, LineRead, Reads, Spawned, WroteHidden, Wrote
<1>2. ASSUME GoesLive PROVE HistoryOK'
  BY <1>2 DEF GoesLive, Reads, Wrote, WroteHidden, WroteLooked, ChangedBare, Changed, Ages,
         Lookers
<1>3. ASSUME Dies PROVE HistoryOK'
  BY <1>3 DEF Dies, Wrote, WroteHidden, WroteLooked, ChangedBare, Changed, Ages,
         Lookers
<1>4. ASSUME WritesSettled PROVE HistoryOK'
  BY <1>4 DEF WritesSettled, TurnOver, NoSettle, Wrote, WroteHidden, WroteLooked, ChangedBare,
         Changed, Ages, Lookers
<1>5. ASSUME PumpExits PROVE HistoryOK'
  BY <1>5 DEF PumpExits, Expires, Expired, DropsOneshots, Wrote, WroteHidden,
         WroteLooked, ChangedBare, Changed, Ages, Lookers
<1>6. ASSUME CancelResets PROVE HistoryOK'
  BY <1>6 DEF CancelResets, Wrote, WroteHidden, WroteLooked, ChangedBare, Changed,
         Ages, Lookers
<1>7. ASSUME CancelExpires PROVE HistoryOK'
  BY <1>7 DEF CancelExpires, Expires, Expired, DropsOneshots, Wrote, WroteHidden,
         WroteLooked, ChangedBare, Changed, Ages, Lookers
<1>8. ASSUME CancelRestores PROVE HistoryOK'
  BY <1>8 DEF CancelRestores, Wrote, WroteHidden, WroteLooked, ChangedBare, Changed,
         Ages, Lookers
<1>9. ASSUME NEW a \in Clearers, Clears(a) PROVE HistoryOK'
  BY <1>9 DEF Clears, Wrote, WroteHidden, WroteLooked, ChangedBare, Changed, Ages,
         Lookers
<1>10. ASSUME NEW q \in Questions, PostAdds(q) PROVE HistoryOK'
  BY <1>10 DEF PostAdds, Wrote, WroteHidden, WroteLooked, ChangedBare, Changed,
         Ages, Lookers
<1>11. ASSUME NEW q \in Questions, PostMarks(q) PROVE HistoryOK'
  BY <1>11 DEF PostMarks, Wrote, WroteHidden, WroteLooked, ChangedBare, Changed,
         Ages, Lookers
<1>12. ASSUME NEW q \in Questions, Bridges(q) PROVE HistoryOK'
  BY <1>12 DEF Bridges, BridgeGen, Wrote, WroteHidden, WroteLooked, ChangedBare,
         Changed, Ages, Lookers
<1>13. ASSUME NEW q \in Questions, NEW how \in {"answered", "done"}, Answers(q, how)
  PROVE HistoryOK'
  BY <1>13 DEF Answers, Wrote, WroteHidden, WroteLooked, ChangedBare, Changed, Ages,
         Lookers
<1>14. ASSUME NEW p \in Permissions, AskShows(p)
  PROVE HistoryOK'
  BY <1>14 DEF AskShows, Wrote, WroteHidden, WroteLooked, ChangedBare, Changed,
         Ages, Lookers
<1>15. ASSUME NEW p \in Permissions, AskMarks(p) PROVE HistoryOK'
  BY <1>15 DEF AskMarks, Wrote, WroteHidden, WroteLooked, ChangedBare, Changed,
         Ages, Lookers
<1>16. ASSUME NEW p \in Permissions, AskEnds(p) PROVE HistoryOK'
  BY <1>16 DEF AskEnds, Wrote, WroteHidden, WroteLooked, ChangedBare, Changed, Ages,
         Lookers
<1>17. ASSUME NEW p \in Permissions, AskDropped(p) PROVE HistoryOK'
  BY <1>17 DEF AskDropped, Wrote, WroteHidden, WroteLooked, ChangedBare, Changed,
         Ages, Lookers
<1>18. ASSUME NEW p \in Permissions, Decides(p) PROVE HistoryOK'
  BY <1>18 DEF Decides, Wrote, WroteHidden, WroteLooked, ChangedBare, Changed, Ages,
         Lookers
<1>19. ASSUME SelfTurn \/ StopsUnheard \/ CancelLooks PROVE HistoryOK'
  BY <1>19 DEF SelfTurn, StopsUnheard, CancelLooks, Wrote, WroteHidden, WroteLooked,
         ChangedBare, Changed, Ages, Lookers
<1>20. ASSUME NEW s \in Status, Settles(s) PROVE HistoryOK'
  BY <1>20 DEF Settles, Reads, Wrote, WroteHidden, WroteLooked, ChangedBare, Changed, Ages,
         Lookers
<1>21. ASSUME NEW a \in Clearers, LooksForSiblings(a) PROVE HistoryOK'
  BY <1>21 DEF LooksForSiblings, Wrote, WroteHidden, WroteLooked, ChangedBare,
         Changed, Ages, Lookers
<1>22. ASSUME NEW g \in bridges, BridgeEnds(g) PROVE HistoryOK'
  BY <1>22 DEF BridgeEnds, Wrote, WroteHidden, WroteLooked, ChangedBare, Changed,
         Ages, Lookers
<1>23. ASSUME NEW p \in Permissions,
         AskStarts(p) \/ TakesSlot(p) \/ AskRegisters(p) \/
         AskHears(p) PROVE HistoryOK'
  BY <1>23 DEF AskStarts, TakesSlot, AskRegisters, AskHears, Wrote, WroteHidden,
         WroteLooked, ChangedBare, Changed, Ages, Lookers
<1>24. ASSUME UNCHANGED vars PROVE HistoryOK'
  BY <1>24 DEF vars
<1> QED BY <1>1, <1>1a, <1>1b, <1>2, <1>3, <1>4, <1>5, <1>6, <1>7, <1>8, <1>9, <1>10, <1>11,
         <1>12, <1>13, <1>14, <1>15, <1>16, <1>17, <1>18, <1>19, <1>20, <1>21,
         <1>22, <1>23, <1>24
     DEF Next, TurnStep, CancelStep, HandlerStep

(* The type invariant: every variable of the chat keeps its type, and a bridge is of
   no generation the row has not reached. *)
THEOREM TypeCorrect == Spec => []TypeOK
<1>1. Init => TypeOK
  <2> SUFFICES ASSUME Init PROVE TypeOK
    OBVIOUS
  <2>1. RowOK
    BY DEF Init, RowOK, Words
  <2>2. ChildOK
    <3>1. gen = 0 /\ turn = 0 /\ turn \in 0..gen
      BY DEF Init
    <3> QED BY <3>1 DEF Init, ChildOK
  <2>3. CardsOK
    BY DEF Init, CardsOK
  <2>4. CallsOK
    BY DEF Init, NoSettle, CallsOK, Words
  <2>5. HistoryOK
    BY DEF Init, HistoryOK
  <2> QED BY <2>1, <2>2, <2>3, <2>4, <2>5 DEF TypeOK
<1>2. TypeOK /\ [Next]_vars => TypeOK'
  BY RowStep, ChildStep, CardsStep, CallsStep, HistoryStep DEF TypeOK
<1> QED BY <1>1, <1>2, PTL DEF Spec

-------------------------------------------------------------------------------
(* A blocked handler can be answered.                                        *)

(* BlockedIsAnswerable is not inductive: a handler registers its oneshot and shows its
   card before it waits, so both are owed from there on. *)
HandlersOK ==
  \A p \in Permissions : reply[p] = "none" =>
    /\ ask[p] \in {"registered", "shown", "waiting"} => p \in waiters
    /\ ask[p] \in {"shown", "waiting"} => p \in open

LEMMA HandlersStep == TypeOK /\ HandlersOK /\ [Next]_vars => HandlersOK'
<1> SUFFICES ASSUME TypeOK, HandlersOK, [Next]_vars PROVE HandlersOK'
  OBVIOUS
<1> USE PromptConstants DEF TypeOK, CardsOK, CallsOK, HandlersOK, Cards, Questions,
         row, child, cards, calls, bounds, history
<1>1. ASSUME NEW answered \in SUBSET Questions, SendOpens(answered) PROVE HandlersOK'
  BY <1>1 DEF SendOpens
<1>1a. ASSUME NEW g \in sends, SendWrites(g) \/ SendFails(g) PROVE HandlersOK'
  BY <1>1a DEF SendWrites, SendFails, Spawned
<1>1b. ASSUME Resume \/ Folds \/ LineRead PROVE HandlersOK'
  BY <1>1b DEF Resume, Folds, LineRead, Reads, Spawned
<1>2. ASSUME PumpExits PROVE HandlersOK'
  BY <1>2 DEF PumpExits, Expires, Expired, DropsOneshots
<1>3. ASSUME CancelExpires PROVE HandlersOK'
  BY <1>3 DEF CancelExpires, Expires, Expired, DropsOneshots
<1>4. ASSUME NEW q \in Questions, PostAdds(q) PROVE HandlersOK'
  BY <1>4 DEF PostAdds
<1>5. ASSUME NEW q \in Questions, NEW how \in {"answered", "done"}, Answers(q, how)
  PROVE HandlersOK'
  BY <1>5 DEF Answers
<1>6. ASSUME NEW p \in Permissions, AskStarts(p) PROVE HandlersOK'
  BY <1>6 DEF AskStarts
<1>7. ASSUME NEW p \in Permissions, TakesSlot(p) PROVE HandlersOK'
  BY <1>7 DEF TakesSlot
<1>8. ASSUME NEW p \in Permissions, AskRegisters(p) PROVE HandlersOK'
  BY <1>8 DEF AskRegisters
<1>9. ASSUME NEW p \in Permissions, AskShows(p)
  PROVE HandlersOK'
  BY <1>9 DEF AskShows
<1>10. ASSUME NEW p \in Permissions, AskMarks(p) PROVE HandlersOK'
  BY <1>10 DEF AskMarks
<1>11. ASSUME NEW p \in Permissions, AskHears(p) PROVE HandlersOK'
  BY <1>11 DEF AskHears
<1>12. ASSUME NEW p \in Permissions, AskEnds(p) PROVE HandlersOK'
  BY <1>12 DEF AskEnds
<1>13. ASSUME NEW p \in Permissions, AskDropped(p) PROVE HandlersOK'
  BY <1>13 DEF AskDropped
<1>14. ASSUME NEW p \in Permissions, Decides(p) PROVE HandlersOK'
  BY <1>14 DEF Decides
<1>15. ASSUME
         SelfTurn \/ GoesLive \/ StopsUnheard \/ Dies \/
         WritesSettled \/ CancelResets \/ CancelLooks \/ CancelRestores
  PROVE HandlersOK'
  BY <1>15 DEF SelfTurn, GoesLive, Reads, StopsUnheard, Dies, WritesSettled, CancelResets,
         CancelLooks, CancelRestores
<1>16. ASSUME NEW s \in Status, Settles(s) PROVE HandlersOK'
  BY <1>16 DEF Settles, Reads
<1>17. ASSUME NEW a \in Clearers, LooksForSiblings(a) \/ Clears(a) PROVE HandlersOK'
  BY <1>17 DEF LooksForSiblings, Clears
<1>18. ASSUME NEW q \in Questions, PostMarks(q) \/ Bridges(q) PROVE HandlersOK'
  BY <1>18 DEF PostMarks, Bridges
<1>19. ASSUME NEW g \in bridges, BridgeEnds(g) PROVE HandlersOK'
  BY <1>19 DEF BridgeEnds
<1>20. ASSUME UNCHANGED vars PROVE HandlersOK'
  BY <1>20 DEF vars
<1> QED BY <1>1, <1>1a, <1>1b, <1>2, <1>3, <1>4, <1>5, <1>6, <1>7, <1>8, <1>9, <1>10, <1>11,
         <1>12, <1>13, <1>14, <1>15, <1>16, <1>17, <1>18, <1>19, <1>20
     DEF Next, TurnStep, CancelStep, HandlerStep

(* Whatever is swept, cancelled, decided or lost: while a handler waits for an answer that
   has not come, its card is up and its oneshot registered. *)
THEOREM BlockedAnswerable == Spec => []BlockedIsAnswerable
<1>1. Init => HandlersOK
  BY DEF Init, HandlersOK
<1>2. TypeOK /\ HandlersOK /\ [Next]_vars => HandlersOK'
  BY HandlersStep
<1>3. HandlersOK => BlockedIsAnswerable
  BY DEF HandlersOK, BlockedIsAnswerable
<1> QED BY <1>1, <1>2, <1>3, TypeCorrect, PTL DEF Spec

-------------------------------------------------------------------------------
(* Looks at the cards that are out of date.                                  *)

(* A look that is not out of date is right: what the settle, the restore or a clear is
   about to write fits the question cards that are up. *)
SettleLook == settle # NoSettle /\ "settle" \notin old
                => (HasQuestion <=> settle.status = "question")
RestoreLook == cancel = "restore" /\ "restore" \notin old => HasQuestion
ClearLooks == \A a \in Clearers : clear[a] = "clear" /\ a \notin old => ~HasQuestion

LooksInv == SettleLook /\ RestoreLook /\ ClearLooks

(* No look is new: a question that comes or goes puts all of them out of date. *)
NoNewLook ==
  /\ settle' \in {settle, NoSettle}
  /\ cancel' = "restore" => cancel = "restore"
  /\ \A a \in Clearers : clear'[a] = "clear" => clear[a] = "clear"

LEMMA LooksAge == LooksInv /\ NoNewLook /\ Ages => LooksInv'
<1> SUFFICES ASSUME LooksInv, NoNewLook, Ages PROVE LooksInv'
  OBVIOUS
<1>1. CASE open' \cap Questions = open \cap Questions
  <2>1. old' = old /\ HasQuestion' = HasQuestion
    BY <1>1 DEF Ages, HasQuestion
  <2> QED BY <2>1 DEF LooksInv, SettleLook, RestoreLook, ClearLooks, NoNewLook
<1>2. CASE open' \cap Questions # open \cap Questions
  <2>1. old' = old \cup Lookers
    BY <1>2 DEF Ages
  <2>2. settle' # NoSettle => "settle" \in old'
    BY <2>1 DEF Lookers, NoNewLook
  <2>3. cancel' = "restore" => "restore" \in old'
    BY <2>1 DEF Lookers, NoNewLook
  <2>4. \A a \in Clearers : clear'[a] = "clear" => a \in old'
    BY <2>1 DEF Lookers, NoNewLook
  <2> QED BY <2>2, <2>3, <2>4 DEF LooksInv, SettleLook, RestoreLook, ClearLooks
<1> QED BY <1>1, <1>2

(* Steps that leave the questions alone. *)
LEMMA LooksStay == LooksInv /\ NoNewLook /\ UNCHANGED <<open, old>> => LooksInv'
BY LooksAge DEF Ages

(* One look is written, and forgotten. *)
LEMMA LookEnds ==
  ASSUME LooksInv, NoNewLook, open' = open,
         NEW who, old' = old \ {who},
         who = "settle" => settle' = NoSettle,
         who = "restore" => cancel' # "restore",
         who \in Clearers => clear'[who] # "clear"
  PROVE  LooksInv'
<1>1. HasQuestion' = HasQuestion
  BY DEF HasQuestion
<1> QED BY <1>1 DEF LooksInv, SettleLook, RestoreLook, ClearLooks, NoNewLook

LEMMA LooksStep == TypeOK /\ LooksInv /\ [Next]_vars => LooksInv'
<1> SUFFICES ASSUME TypeOK, LooksInv, [Next]_vars PROVE LooksInv'
  OBVIOUS
<1> USE DEF row, child, cards, calls, bounds, history
<1>1. ASSUME NEW answered \in SUBSET Questions, SendOpens(answered) PROVE LooksInv'
  BY <1>1, LooksAge DEF SendOpens, NoNewLook
<1>1a. ASSUME NEW g \in sends, SendWrites(g) \/ SendFails(g) PROVE LooksInv'
  BY <1>1a, LooksStay DEF SendWrites, SendFails, NoNewLook
<1>1b. ASSUME Resume \/ Folds \/ LineRead PROVE LooksInv'
  BY <1>1b, LooksStay DEF Resume, Folds, LineRead, NoNewLook
<1>2. ASSUME SelfTurn \/ StopsUnheard \/ Dies PROVE LooksInv'
  BY <1>2, LooksStay DEF SelfTurn, StopsUnheard, Dies, NoNewLook
<1>3. ASSUME GoesLive PROVE LooksInv'
  BY <1>3, LooksStay DEF GoesLive, Reads, NoNewLook
<1>4. ASSUME NEW s \in Status, Settles(s) PROVE LooksInv'
  <2>1. UNCHANGED <<open, old, clear, cancel>> /\ HasQuestion' = HasQuestion
    BY <1>4 DEF Settles, Reads, HasQuestion
  <2>2. settle'.status = SettledFor(s)
    BY <1>4 DEF Settles, Reads
  <2>3. HasQuestion <=> settle'.status = "question"
    BY <2>2 DEF SettledFor, Backed
  <2> QED BY <2>1, <2>3 DEF LooksInv, SettleLook, RestoreLook, ClearLooks
<1>5. ASSUME WritesSettled PROVE LooksInv'
  <2>1. settle' = NoSettle /\ UNCHANGED <<open, clear, cancel>> /\ old' = old \ {"settle"}
    BY <1>5 DEF WritesSettled, TurnOver, WroteLooked
  <2> QED BY <2>1, LookEnds, LookersAreNamed DEF NoNewLook
<1>6. ASSUME PumpExits PROVE LooksInv'
  <2>1. open' \cap Questions = open \cap Questions /\ old' = old
    BY <1>6, PromptConstants DEF PumpExits, Expires, Expired
  <2>2. NoNewLook
    BY <1>6 DEF PumpExits, NoNewLook, TypeOK, CallsOK
  <2> QED BY <2>1, <2>2, LooksAge DEF Ages
<1>7. ASSUME CancelResets PROVE LooksInv'
  BY <1>7, LooksStay DEF CancelResets, NoNewLook
<1>8. ASSUME CancelExpires PROVE LooksInv'
  BY <1>8, LooksAge DEF CancelExpires, NoNewLook, Changed
<1>9. ASSUME CancelLooks PROVE LooksInv'
  <2>1. UNCHANGED <<open, old, clear, settle>> /\ HasQuestion' = HasQuestion
    BY <1>9 DEF CancelLooks, HasQuestion
  <2>2. cancel' = "restore" => HasQuestion
    BY <1>9 DEF CancelLooks
  <2> QED BY <2>1, <2>2 DEF LooksInv, SettleLook, RestoreLook, ClearLooks
<1>10. ASSUME CancelRestores PROVE LooksInv'
  <2>1. cancel' = "idle" /\ UNCHANGED <<open, clear, settle>> /\ old' = old \ {"restore"}
    BY <1>10 DEF CancelRestores, WroteLooked
  <2> QED BY <2>1, LookEnds, LookersAreNamed DEF NoNewLook
<1>11. ASSUME NEW a \in Clearers, LooksForSiblings(a) PROVE LooksInv'
  <2>1. UNCHANGED <<open, old, settle, cancel>> /\ HasQuestion' = HasQuestion
    BY <1>11 DEF LooksForSiblings, HasQuestion
  <2>2. \A b \in Clearers : clear'[b] = "clear" => clear[b] = "clear" \/ ~HasQuestion
    BY <1>11 DEF LooksForSiblings, NoSiblings, TypeOK, CallsOK
  <2> QED BY <2>1, <2>2 DEF LooksInv, SettleLook, RestoreLook, ClearLooks
<1>12. ASSUME NEW a \in Clearers, Clears(a) PROVE LooksInv'
  <2>1. UNCHANGED <<open, settle, cancel>> /\ old' = old \ {a}
    BY <1>12 DEF Clears, WroteLooked
  <2>2. clear'[a] = "no" /\ \A b \in Clearers : clear'[b] = "clear" => clear[b] = "clear"
    BY <1>12 DEF Clears, TypeOK, CallsOK
  <2> QED BY <2>1, <2>2, LookEnds, LookersAreNamed DEF NoNewLook
<1>13. ASSUME NEW q \in Questions, PostAdds(q) PROVE LooksInv'
  BY <1>13, LooksAge DEF PostAdds, NoNewLook, Changed
<1>14. ASSUME NEW q \in Questions, PostMarks(q) PROVE LooksInv'
  BY <1>14, LooksStay DEF PostMarks, NoNewLook
<1>15. ASSUME NEW q \in Questions, Bridges(q) PROVE LooksInv'
  BY <1>15, LooksAge DEF Bridges, NoNewLook, Changed
<1>16. ASSUME NEW q \in Questions, NEW how \in {"answered", "done"}, Answers(q, how)
  PROVE LooksInv'
  <2>1. NoNewLook
    BY <1>16 DEF Answers, NoNewLook, Clearers, Cards, TypeOK, CallsOK
  <2> QED BY <1>16, <2>1, LooksAge DEF Answers, Changed
<1>17. ASSUME NEW g \in bridges, BridgeEnds(g) PROVE LooksInv'
  BY <1>17, LooksStay DEF BridgeEnds, NoNewLook
<1>18. ASSUME NEW p \in Permissions, AskStarts(p) \/ TakesSlot(p) \/ AskRegisters(p)
  PROVE LooksInv'
  BY <1>18, LooksStay DEF AskStarts, TakesSlot, AskRegisters, NoNewLook
<1>19. ASSUME NEW p \in Permissions, AskShows(p) \/ AskEnds(p) \/ Decides(p)
  PROVE LooksInv'
  BY <1>19, LooksAge DEF AskShows, AskEnds, Decides, NoNewLook, Changed
<1>20. ASSUME NEW p \in Permissions, AskMarks(p) PROVE LooksInv'
  BY <1>20, LooksStay DEF AskMarks, NoNewLook
<1>21. ASSUME NEW p \in Permissions, AskHears(p) PROVE LooksInv'
  <2>1. NoNewLook
    BY <1>21 DEF AskHears, NoNewLook, Clearers, Cards, TypeOK, CallsOK
  <2> QED BY <1>21, <2>1, LooksStay DEF AskHears
<1>22. ASSUME NEW p \in Permissions, AskDropped(p) PROVE LooksInv'
  <2>1. UNCHANGED <<open, settle, cancel>> /\ old' = old \ {p} /\ p \in Clearers
    BY <1>22 DEF AskDropped, Clearers, Cards
  <2>2. clear'[p] = "no" /\ \A b \in Clearers : clear'[b] = "clear" => clear[b] = "clear"
    BY <1>22, <2>1 DEF AskDropped, TypeOK, CallsOK
  <2> QED BY <2>1, <2>2, LookEnds, LookersAreNamed DEF NoNewLook
<1>23. ASSUME UNCHANGED vars PROVE LooksInv'
  BY <1>23, LooksStay DEF vars, NoNewLook
<1> QED BY <1>1, <1>1a, <1>1b, <1>2, <1>3, <1>4, <1>5, <1>6, <1>7, <1>8, <1>9, <1>10, <1>11,
         <1>12, <1>13, <1>14, <1>15, <1>16, <1>17, <1>18, <1>19, <1>20, <1>21,
         <1>22, <1>23
     DEF Next, TurnStep, CancelStep, HandlerStep

-------------------------------------------------------------------------------
(* A card that nobody sees.                                                  *)

(* What may still bring an unshown card to light: a turn that has to settle, a cancel
   that has to look, the mark of a card just added, or a send that has to be written. *)
ToBeShown ==
  \/ claude \notin {"idle", "none"}
  \/ cancel # "idle"
  \/ \E q \in Questions : post[q] = "added"
  \/ sends # {}

HiddenInv == Hidden /\ ~hid => ToBeShown

(* Nobody wrote, and no question came. *)
LEMMA HiddenStays ==
  ASSUME HiddenInv, Hidden' => Hidden, hid' = hid, ToBeShown => ToBeShown'
  PROVE  HiddenInv'
BY DEF HiddenInv

LEMMA ToBeShownStays ==
  ToBeShown /\ UNCHANGED <<claude, cancel, post, sends>> => ToBeShown'
BY DEF ToBeShown

(* A card that comes or goes is hidden only if a question was hidden before. *)
LEMMA ChangeHides ==
  ASSUME NEW why, Changed(why), why \notin HidingRaces, Hidden' => Hidden, HiddenInv,
         ToBeShown => ToBeShown'
  PROVE  HiddenInv'
BY DEF Changed, HiddenInv

LEMMA HiddenStep == TypeOK /\ LooksInv /\ HiddenInv /\ [Next]_vars => HiddenInv'
<1> SUFFICES ASSUME TypeOK, LooksInv, HiddenInv, [Next]_vars PROVE HiddenInv'
  OBVIOUS
<1> USE DEF HidingRaces, row, child, cards, calls, bounds, history
<1>1. ASSUME NEW answered \in SUBSET Questions, SendOpens(answered) PROVE HiddenInv'
  BY <1>1 DEF SendOpens, HiddenInv, ToBeShown
<1>1a. ASSUME NEW g \in sends, SendWrites(g) \/ SendFails(g) PROVE HiddenInv'
  <2>1. CASE SendWrites(g)
    <3>1. claude' \notin {"idle", "none"}
      BY <2>1 DEF SendWrites
    <3> QED BY <3>1 DEF HiddenInv, ToBeShown
  <2>2. CASE SendFails(g)
    BY <2>2 DEF SendFails, WroteHidden, HiddenInv
  <2> QED BY <1>1a, <2>1, <2>2
<1>1b. ASSUME Resume \/ Folds \/ LineRead PROVE HiddenInv'
  <2>1. CASE Resume
    BY <2>1 DEF Resume, Wrote, WroteHidden, HiddenInv
  <2>2. CASE Folds \/ LineRead
    BY <2>2, HiddenStays, ToBeShownStays DEF Folds, LineRead, Hidden, HasQuestion
  <2> QED BY <1>1b, <2>1, <2>2
<1>2. ASSUME SelfTurn \/ GoesLive \/ StopsUnheard \/ Dies PROVE HiddenInv'
  BY <1>2 DEF SelfTurn, GoesLive, StopsUnheard, Dies, HiddenInv, ToBeShown
<1>3. ASSUME NEW s \in Status, Settles(s) PROVE HiddenInv'
  BY <1>3, HiddenStays, ToBeShownStays DEF Settles, Hidden, HasQuestion
<1>4. ASSUME WritesSettled PROVE HiddenInv'
  <2>1. settle # NoSettle /\ HasQuestion' = HasQuestion /\ UNCHANGED <<cancel, post>>
    BY <1>4 DEF WritesSettled, TurnOver, HasQuestion
  <2>2. CASE settle.gen = gen /\ "settle" \in old
    BY <1>4, <2>2 DEF WritesSettled, TurnOver, WroteLooked, Wrote, WroteHidden, HiddenInv
  <2>3. CASE settle.gen = gen /\ "settle" \notin old
    <3>1. HasQuestion <=> settle.status = "question"
      BY <2>1, <2>3 DEF LooksInv, SettleLook
    <3>2. awaiting' = settle.status
      BY <1>4, <2>3 DEF WritesSettled, TurnOver
    <3> QED BY <2>1, <3>1, <3>2 DEF Hidden, HiddenInv
  <2>4. CASE settle.gen # gen /\ TurnOver
    BY <1>4, <2>4 DEF WritesSettled, WroteHidden, HiddenInv
  <2>5. CASE settle.gen # gen /\ ~TurnOver
    <3>1. UNCHANGED <<awaiting, hid, sends>> /\ claude' \in {claude, "stopped"}
      BY <1>4, <2>5 DEF WritesSettled
    <3>2. Hidden' = Hidden
      BY <2>1, <3>1 DEF Hidden
    <3>3. ToBeShown => ToBeShown'
      BY <2>1, <3>1 DEF ToBeShown
    <3> QED BY <3>1, <3>2, <3>3, HiddenStays
  <2> QED BY <2>2, <2>3, <2>4, <2>5
<1>5. ASSUME PumpExits PROVE HiddenInv'
  BY <1>5 DEF PumpExits, WroteHidden, HiddenInv
<1>6. ASSUME CancelResets \/ CancelExpires PROVE HiddenInv'
  BY <1>6 DEF CancelResets, CancelExpires, HiddenInv, ToBeShown
<1>7. ASSUME CancelLooks PROVE HiddenInv'
  BY <1>7 DEF CancelLooks, HiddenInv, ToBeShown, Hidden, HasQuestion
<1>8. ASSUME CancelRestores PROVE HiddenInv'
  BY <1>8 DEF CancelRestores, HiddenInv, Hidden
<1>9. ASSUME NEW a \in Clearers, LooksForSiblings(a) PROVE HiddenInv'
  BY <1>9, HiddenStays, ToBeShownStays DEF LooksForSiblings, Hidden, HasQuestion
<1>10. ASSUME NEW a \in Clearers, Clears(a) PROVE HiddenInv'
  <2>1. clear[a] = "clear" /\ HasQuestion' = HasQuestion /\ UNCHANGED <<claude, cancel, post, sends>>
    BY <1>10 DEF Clears, HasQuestion
  <2>2. CASE awaiting # "question"
    <3>1. UNCHANGED <<awaiting, hid>>
      BY <1>10, <2>2 DEF Clears
    <3> QED BY <2>1, <3>1, HiddenStays, ToBeShownStays DEF Hidden
  <2>3. CASE awaiting = "question" /\ a \in old
    BY <1>10, <2>3 DEF Clears, WroteLooked, Wrote, WroteHidden, HiddenInv
  <2>4. CASE awaiting = "question" /\ a \notin old
    BY <2>1, <2>4 DEF LooksInv, ClearLooks, Hidden, HiddenInv
  <2> QED BY <2>2, <2>3, <2>4
<1>11. ASSUME NEW q \in Questions, PostAdds(q) PROVE HiddenInv'
  <2>1. post'[q] = "added"
    BY <1>11 DEF PostAdds, TypeOK, CallsOK
  <2> QED BY <2>1 DEF HiddenInv, ToBeShown
<1>12. ASSUME NEW q \in Questions, PostMarks(q) PROVE HiddenInv'
  BY <1>12 DEF PostMarks, HiddenInv, Hidden
<1>13. ASSUME NEW q \in Questions, Bridges(q) PROVE HiddenInv'
  <2>1. Changed("bridge") /\ UNCHANGED <<claude, cancel, post, sends>>
    BY <1>13 DEF Bridges
  <2>2. Hidden' => Hidden
    BY <1>13 DEF Bridges, Hidden, HasQuestion
  <2> QED BY <2>1, <2>2, ChangeHides, ToBeShownStays
<1>14. ASSUME NEW q \in Questions, NEW how \in {"answered", "done"}, Answers(q, how)
  PROVE HiddenInv'
  <2>1. Changed("answer") /\ UNCHANGED <<claude, cancel, post, sends>>
    BY <1>14 DEF Answers
  <2>2. Hidden' => Hidden
    BY <1>14 DEF Answers, Hidden, HasQuestion
  <2> QED BY <2>1, <2>2, ChangeHides, ToBeShownStays
<1>15. ASSUME NEW g \in bridges, BridgeEnds(g) PROVE HiddenInv'
  <2>1. UNCHANGED <<claude, cancel, post, sends, hid>>
    BY <1>15 DEF BridgeEnds
  <2>2. Hidden' => Hidden
    BY <1>15 DEF BridgeEnds, Hidden, HasQuestion
  <2> QED BY <2>1, <2>2, HiddenStays, ToBeShownStays
<1>16. ASSUME NEW p \in Permissions,
         AskStarts(p) \/ TakesSlot(p) \/ AskRegisters(p) \/ AskHears(p) \/ AskDropped(p)
  PROVE HiddenInv'
  <2>1. UNCHANGED <<claude, cancel, post, sends, hid, open, awaiting>>
    BY <1>16 DEF AskStarts, TakesSlot, AskRegisters, AskHears, AskDropped
  <2> QED BY <2>1, HiddenStays, ToBeShownStays DEF Hidden, HasQuestion
<1>17. ASSUME NEW p \in Permissions, AskShows(p) \/ AskEnds(p) \/ Decides(p)
  PROVE HiddenInv'
  <2>1. /\ UNCHANGED <<claude, cancel, post, sends>>
        /\ Changed("show") \/ Changed("end") \/ Changed("decide")
    BY <1>17 DEF AskShows, AskEnds, Decides
  <2>2. open' \cap Questions = open \cap Questions /\ UNCHANGED awaiting
    BY <1>17, PromptConstants DEF AskShows, AskEnds, Decides
  <2> QED BY <2>1, <2>2, ChangeHides, ToBeShownStays DEF Hidden, HasQuestion
<1>18. ASSUME NEW p \in Permissions, AskMarks(p) PROVE HiddenInv'
  BY <1>18 DEF AskMarks, HiddenInv, Hidden
<1>19. ASSUME UNCHANGED vars PROVE HiddenInv'
  BY <1>19, HiddenStays, ToBeShownStays DEF vars, Hidden, HasQuestion
<1> QED BY <1>1, <1>1a, <1>1b, <1>2, <1>3, <1>4, <1>5, <1>6, <1>7, <1>8, <1>9, <1>10, <1>11,
         <1>12, <1>13, <1>14, <1>15, <1>16, <1>17, <1>18, <1>19
     DEF Next, TurnStep, CancelStep, HandlerStep

(* However the settles, cancels, clears and posts of a chat interleave: a question card
   that a calm chat does not show was lost in one of the named ways: a write by a look
   that was out of date, or a turn opened over the card that never settled the row (its
   child died, its send failed, its end was heard for an older turn), or a resume. *)
THEOREM HiddenKnown == Spec => []HiddenCardsAreKnown
<1>1. Init => LooksInv /\ HiddenInv
  BY DEF Init, NoSettle, LooksInv, SettleLook, RestoreLook, ClearLooks,
         HiddenInv, Hidden, HasQuestion
<1>2. TypeOK /\ (LooksInv /\ HiddenInv) /\ [Next]_vars
        => (LooksInv /\ HiddenInv)'
  BY LooksStep, HiddenStep
<1>3. HiddenInv => HiddenCardsAreKnown
  BY DEF HiddenInv, ToBeShown, HiddenCardsAreKnown, Calm
<1> QED BY <1>1, <1>2, <1>3, TypeCorrect, PTL DEF Spec

-------------------------------------------------------------------------------
(* A "question" with nothing behind it.                                      *)

(* What may still clear it: somebody who took a question away, or swept the cards of a
   child that died, and has to look or to clear. *)
ToBeCleared == \E a \in Questions \cup {Exit} : clear[a] # "no"

BareInv == Bare /\ ~bare => ToBeCleared

LEMMA BareStays ==
  ASSUME BareInv, Bare' => Bare, bare' = bare, ToBeCleared => ToBeCleared'
  PROVE  BareInv'
BY DEF BareInv

LEMMA ToBeClearedStays == ToBeCleared /\ UNCHANGED clear => ToBeCleared'
BY DEF ToBeCleared

(* Who takes a card away by a way that is known to race may leave it bare. *)
LEMMA ChangeBares ==
  ASSUME NEW why, ChangedBare(why), Bare' => Bare \/ why \in BaringRaces, BareInv,
         ToBeCleared => ToBeCleared'
  PROVE  BareInv'
BY DEF ChangedBare, BareInv

LEMMA BareStep == TypeOK /\ LooksInv /\ BareInv /\ [Next]_vars => BareInv'
<1> SUFFICES ASSUME TypeOK, LooksInv, BareInv, [Next]_vars PROVE BareInv'
  OBVIOUS
<1> USE DEF BaringRaces, row, child, cards, calls, bounds, history
<1>1. ASSUME NEW answered \in SUBSET Questions, SendOpens(answered) PROVE BareInv'
  BY <1>1 DEF SendOpens, BareInv, Bare
<1>1a. ASSUME NEW g \in sends, SendWrites(g) \/ SendFails(g) PROVE BareInv'
  <2>1. UNCHANGED <<open, awaiting, bare, clear>>
    BY <1>1a DEF SendWrites, SendFails
  <2> QED BY <2>1, BareStays, ToBeClearedStays DEF Bare
<1>1b. ASSUME Resume \/ Folds \/ LineRead PROVE BareInv'
  <2>1. CASE Resume
    BY <2>1 DEF Resume, BareInv, Bare
  <2>2. CASE Folds \/ LineRead
    BY <2>2, BareStays, ToBeClearedStays DEF Folds, LineRead, Bare
  <2> QED BY <1>1b, <2>1, <2>2
<1>2. ASSUME GoesLive \/ CancelResets PROVE BareInv'
  BY <1>2 DEF GoesLive, Reads, CancelResets, BareInv, Bare
<1>3. ASSUME SelfTurn \/ StopsUnheard \/ Dies \/ CancelLooks PROVE BareInv'
  <2>1. UNCHANGED <<open, awaiting, bare, clear>>
    BY <1>3 DEF SelfTurn, StopsUnheard, Dies, CancelLooks
  <2> QED BY <2>1, BareStays, ToBeClearedStays DEF Bare
<1>4. ASSUME NEW s \in Status, Settles(s) PROVE BareInv'
  BY <1>4, BareStays, ToBeClearedStays DEF Settles, Reads, Bare
<1>5. ASSUME WritesSettled PROVE BareInv'
  <2>1. settle # NoSettle /\ UNCHANGED <<open, clear>>
    BY <1>5 DEF WritesSettled, TurnOver
  <2>2. CASE settle.gen = gen /\ "settle" \in old
    BY <1>5, <2>2 DEF WritesSettled, TurnOver, WroteLooked, Wrote, BareInv
  <2>3. CASE settle.gen = gen /\ "settle" \notin old
    <3>1. HasQuestion <=> settle.status = "question"
      BY <2>1, <2>3 DEF LooksInv, SettleLook
    <3>2. awaiting' = settle.status
      BY <1>5, <2>3 DEF WritesSettled, TurnOver
    <3> QED BY <2>1, <3>1, <3>2 DEF Bare, HasQuestion, BareInv
  <2>4. CASE settle.gen # gen
    <3>1. UNCHANGED <<awaiting, bare>>
      BY <1>5, <2>4 DEF WritesSettled, TurnOver
    <3> QED BY <2>1, <3>1, BareStays, ToBeClearedStays DEF Bare
  <2> QED BY <2>2, <2>3, <2>4
<1>6. ASSUME PumpExits PROVE BareInv'
  <2>1. Exit \in Clearers /\ ChangedBare("exit") /\ UNCHANGED awaiting
    BY <1>6 DEF PumpExits, Clearers
  <2>2. CASE Expired = {}
    <3>1. open' = open /\ UNCHANGED clear
      BY <1>6, <2>2 DEF PumpExits, Expires, TypeOK, CallsOK
    <3> QED BY <2>1, <3>1, ChangeBares, ToBeClearedStays DEF Bare
  <2>3. CASE Expired # {}
    <3>1. clear'[Exit] = "look"
      BY <1>6, <2>1, <2>3 DEF PumpExits, TypeOK, CallsOK
    <3> QED BY <3>1 DEF BareInv, ToBeCleared
  <2> QED BY <2>2, <2>3
<1>7. ASSUME CancelExpires PROVE BareInv'
  BY <1>7, ChangeBares, ToBeClearedStays DEF CancelExpires, Changed
<1>8. ASSUME CancelRestores PROVE BareInv'
  <2>1. open' = open /\ WroteLooked("restore", "restore") /\ cancel = "restore"
    BY <1>8 DEF CancelRestores
  <2>2. CASE "restore" \in old
    BY <2>1, <2>2 DEF WroteLooked, Wrote, BareInv
  <2>3. CASE "restore" \notin old
    BY <2>1, <2>3 DEF LooksInv, RestoreLook, HasQuestion, Bare, BareInv
  <2> QED BY <2>2, <2>3
<1>9. ASSUME NEW a \in Clearers, LooksForSiblings(a) PROVE BareInv'
  <2>1. UNCHANGED <<open, awaiting, bare>>
    BY <1>9 DEF LooksForSiblings
  <2>2. ASSUME Bare, NEW b \in Questions \cup {Exit}, clear[b] # "no" PROVE clear'[b] # "no"
    <3>1. NoSiblings
      BY <2>2 DEF Bare, NoSiblings, HasQuestion
    <3> QED BY <1>9, <2>2, <3>1 DEF LooksForSiblings, Clearers, Cards, TypeOK, CallsOK
  <2> QED BY <2>1, <2>2 DEF BareInv, Bare, ToBeCleared
<1>10. ASSUME NEW a \in Clearers, Clears(a) PROVE BareInv'
  BY <1>10 DEF Clears, BareInv, Bare
<1>11. ASSUME NEW q \in Questions, PostAdds(q) PROVE BareInv'
  BY <1>11 DEF PostAdds, BareInv, Bare
<1>12. ASSUME NEW q \in Questions, PostMarks(q) PROVE BareInv'
  BY <1>12 DEF PostMarks, Wrote, BareInv
<1>13. ASSUME NEW q \in Questions, Bridges(q) PROVE BareInv'
  <2>1. Changed("bridge") /\ UNCHANGED clear
    BY <1>13 DEF Bridges
  <2>2. Bare' => Bare
    BY <1>13 DEF Bridges, Bare
  <2> QED BY <2>1, <2>2, ChangeBares, ToBeClearedStays DEF Changed
<1>14. ASSUME NEW q \in Questions, NEW how \in {"answered", "done"}, Answers(q, how)
  PROVE BareInv'
  <2>1. clear'[q] = "look"
    BY <1>14 DEF Answers, Clearers, Cards, TypeOK, CallsOK
  <2> QED BY <2>1 DEF BareInv, ToBeCleared
<1>15. ASSUME NEW g \in bridges, BridgeEnds(g) PROVE BareInv'
  <2>1. UNCHANGED <<clear, bare>>
    BY <1>15 DEF BridgeEnds
  <2>2. Bare' => Bare
    BY <1>15 DEF BridgeEnds, Bare
  <2> QED BY <2>1, <2>2, BareStays, ToBeClearedStays
<1>16. ASSUME NEW p \in Permissions,
         AskStarts(p) \/ TakesSlot(p) \/ AskRegisters(p) \/ AskHears(p) \/ AskDropped(p)
  PROVE BareInv'
  <2>1. UNCHANGED <<bare, open, awaiting>>
    BY <1>16 DEF AskStarts, TakesSlot, AskRegisters, AskHears, AskDropped
  <2>2. ASSUME NEW a \in Questions \cup {Exit} PROVE clear'[a] = clear[a]
    <3>1. a # p /\ a \in Clearers
      BY PromptConstants DEF Clearers, Cards
    <3> QED BY <1>16, <3>1
         DEF AskStarts, TakesSlot, AskRegisters, AskHears, AskDropped, TypeOK, CallsOK
  <2> QED BY <2>1, <2>2, BareStays DEF Bare, ToBeCleared
<1>17. ASSUME NEW p \in Permissions, AskShows(p) PROVE BareInv'
  BY <1>17 DEF AskShows, BareInv, Bare
<1>18. ASSUME NEW p \in Permissions, AskEnds(p) \/ Decides(p) PROVE BareInv'
  <2>1. UNCHANGED clear /\ (Changed("end") \/ Changed("decide"))
    BY <1>18 DEF AskEnds, Decides
  <2> QED BY <2>1, ChangeBares, ToBeClearedStays DEF Changed
<1>19. ASSUME NEW p \in Permissions, AskMarks(p) PROVE BareInv'
  BY <1>19 DEF AskMarks, Wrote, BareInv
<1>20. ASSUME UNCHANGED vars PROVE BareInv'
  BY <1>20, BareStays, ToBeClearedStays DEF vars, Bare
<1> QED BY <1>1, <1>1a, <1>1b, <1>2, <1>3, <1>4, <1>5, <1>6, <1>7, <1>8, <1>9, <1>10, <1>11,
         <1>12, <1>13, <1>14, <1>15, <1>16, <1>17, <1>18, <1>19, <1>20
     DEF Next, TurnStep, CancelStep, HandlerStep

(* However they interleave: a calm chat that reads "question" without a card came to it
   by one of the four known races, a write that came late or the end of a permission card
   that had lost its handler or another card's mark behind it. *)
THEOREM BareKnown == Spec => []BareQuestionsAreKnown
<1>1. Init => LooksInv /\ BareInv
  BY DEF Init, NoSettle, LooksInv, SettleLook, RestoreLook, ClearLooks, BareInv, Bare
<1>2. TypeOK /\ (LooksInv /\ BareInv) /\ [Next]_vars => (LooksInv /\ BareInv)'
  BY LooksStep, BareStep
<1>3. BareInv => BareQuestionsAreKnown
  BY DEF BareInv, ToBeCleared, BareQuestionsAreKnown, Calm, Clearers, Cards
<1> QED BY <1>1, <1>2, <1>3, TypeCorrect, PTL DEF Spec

===============================================================================
