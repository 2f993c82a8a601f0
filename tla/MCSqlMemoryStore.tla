-------------------------- MODULE MCSqlMemoryStore --------------------------
(* Four turns save at once, three of them in the same conversation; the    *)
(* limit of two turns makes the third save of the conversation trim.       *)
EXTENDS SqlMemoryStore

MCTurns == {"t1", "t2", "t3", "t4"}
MCScopes == {"chat", "other"}
MCScopeOf == [t \in MCTurns |-> IF t = "t4" THEN "other" ELSE "chat"]
MCContexts == {"empty", "full"}
MCContextOf == [t \in MCTurns |-> IF t \in {"t1", "t4"} THEN "full" ELSE "empty"]
=============================================================================
