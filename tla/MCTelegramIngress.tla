------------------------- MODULE MCTelegramIngress -------------------------
(* Two processes and two deliveries: of two messages of one chat, of the   *)
(* same message twice, or of a command without an id beside one.           *)
EXTENDS TelegramIngress, TLC

MCServers == {"s1", "s2"}
MCUpdates == {"u1", "u2", "bad"}
MCChatOf == [u \in MCUpdates |-> "chat"]
MCKindOf == [u \in MCUpdates |-> IF u = "bad" THEN "malformed" ELSE "message"]
MCDeliveries == {"d1", "d2"}
=============================================================================
