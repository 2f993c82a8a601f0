------------------------- MODULE ConversationMemory -------------------------
(***************************************************************************)
(* What a conversation memory store promises: per scope the newest         *)
(* messages of whole turns and the context of the turn saved last, each    *)
(* turn saved in one step.  A message is [turn, role]; the context, the    *)
(* resolved entities with the pending clarification, is left abstract.     *)
(***************************************************************************)
EXTENDS Integers, Sequences

CONSTANTS
    Scopes,       \* MemoryScope: conversation, owner and student
    Turns,        \* identities of the turns that may be saved
    Contexts,     \* what a turn may leave behind for the next one
    NoContext,    \* the context of a conversation that has no turn yet
    MaxMessages   \* MAX_MEMORY_MESSAGES

ASSUME MaxMessagesAssumption == MaxMessages \in Nat /\ MaxMessages >= 2
ASSUME NoContextAssumption == NoContext \in Contexts

VARIABLE memory   \* per scope what `load` returns

Roles == {"user", "assistant"}
Messages == [turn : Turns, role : Roles]

MemoryTypeOK ==
    memory \in [Scopes -> [messages : Seq(Messages), context : Contexts]]

TurnMessages(t) == <<[turn |-> t, role |-> "user"], [turn |-> t, role |-> "assistant"]>>

\* messages[-MaxMessages:]
Newest(s) == IF Len(s) > MaxMessages
             THEN SubSeq(s, Len(s) - MaxMessages + 1, Len(s)) ELSE s

MemoryInit ==
    memory = [s \in Scopes |-> [messages |-> <<>>, context |-> NoContext]]

(* save_turn of a turn whose status is completed or partial.               *)
SaveTurn(s, t, c) ==
    memory' = [memory EXCEPT ![s] =
                  [messages |-> Newest(@.messages \o TurnMessages(t)), context |-> c]]

MemoryNext == \E s \in Scopes, t \in Turns, c \in Contexts : SaveTurn(s, t, c)

MemorySpec == MemoryInit /\ [][MemoryNext]_memory
=============================================================================
