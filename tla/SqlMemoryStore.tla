--------------------------- MODULE SqlMemoryStore ---------------------------
(***************************************************************************)
(* SQLAlchemyConversationMemoryStore.save_turn as the transactions it      *)
(* runs: an advisory lock per scope, two INSERTs, a DELETE of what exceeds *)
(* the limit, COMMIT.  Several turns save at once; each statement sees the *)
(* rows committed before it and its own (READ COMMITTED), ids come from a  *)
(* sequence, and a failed statement or a lost connection rolls back.       *)
(***************************************************************************)
EXTENDS Integers, Sequences, FiniteSets

CONSTANTS
    Scopes, Turns, Contexts, NoContext, MaxMessages,
    ScopeOf,      \* the scope each turn is saved in
    ContextOf     \* the entities and clarification each turn is saved with

ASSUME ScopeOfAssumption == ScopeOf \in [Turns -> Scopes]
ASSUME ContextOfAssumption == ContextOf \in [Turns -> Contexts]
ASSUME LimitAssumption == MaxMessages \in Nat /\ MaxMessages >= 2 /\ MaxMessages % 2 = 0
ASSUME TurnsAssumption == IsFiniteSet(Turns) /\ "none" \notin Turns

VARIABLES
    table,    \* committed rows of conversation_memory_messages
    nextId,   \* the id sequence of the table
    holder,   \* per scope the transaction that holds its advisory lock
    stage,    \* how far each turn's save_turn has come
    written,  \* rows each open transaction has inserted
    doomed    \* rows each open transaction has deleted

vars == <<table, nextId, holder, stage, written, doomed>>

Roles == {"user", "assistant"}
Open == {"called", "locked", "user_row", "both_rows", "trimmed"}
-----------------------------------------------------------------------------
InScope(rows, s) == {r \in rows : r.scope = s}

\* Mutant of Beyond: the offset is one too small, half a turn is kept.
BeyondOneLess(rows) == {r \in rows : Cardinality({q \in rows : q.id > r.id}) >= MaxMessages - 1}

\* ORDER BY id DESC OFFSET limit: the rows that have `limit` newer ones.
Beyond(rows) == {r \in rows : Cardinality({q \in rows : q.id > r.id}) >= MaxMessages}

\* What a statement of turn t sees of its scope.
Visible(t) == InScope((table \cup written[t]) \ doomed[t], ScopeOf[t])

Init ==
    /\ table = {}
    /\ nextId = 1
    /\ holder = [s \in Scopes |-> "none"]
    /\ stage = [t \in Turns |-> "called"]
    /\ written = [t \in Turns |-> {}]
    /\ doomed = [t \in Turns |-> {}]

\* Mutant of AcquireLock: the turn does not wait for the lock.
AcquireNoLock(t) ==
    /\ stage[t] = "called"
    /\ stage' = [stage EXCEPT ![t] = "locked"]
    /\ UNCHANGED <<table, nextId, holder, written, doomed>>

(* pg_advisory_xact_lock waits until no other transaction holds the key.   *)
AcquireLock(t) ==
    /\ stage[t] = "called"
    /\ holder[ScopeOf[t]] = "none"
    /\ holder' = [holder EXCEPT ![ScopeOf[t]] = t]
    /\ stage' = [stage EXCEPT ![t] = "locked"]
    /\ UNCHANGED <<table, nextId, written, doomed>>

InsertRow(t, from, to, role) ==
    /\ stage[t] = from
    /\ written' = [written EXCEPT ![t] = @ \cup
                      {[id |-> nextId, scope |-> ScopeOf[t], turn |-> t,
                        role |-> role, context |-> ContextOf[t]]}]
    /\ nextId' = nextId + 1
    /\ stage' = [stage EXCEPT ![t] = to]
    /\ UNCHANGED <<table, holder, doomed>>

InsertUser(t) == InsertRow(t, "locked", "user_row", "user")
InsertAssistant(t) == InsertRow(t, "user_row", "both_rows", "assistant")

DeleteBeyondLimit(t) ==
    /\ stage[t] = "both_rows"
    /\ doomed' = [doomed EXCEPT ![t] = Beyond(Visible(t))]
    /\ stage' = [stage EXCEPT ![t] = "trimmed"]
    /\ UNCHANGED <<table, nextId, holder, written>>

\* Mutant of Release: pg_advisory_lock, held by the pooled session.
KeepLock(t) == UNCHANGED holder

\* The end of a transaction releases its advisory lock.
Release(t) == holder' = [s \in Scopes |-> IF holder[s] = t THEN "none" ELSE holder[s]]

Commit(t) ==
    /\ stage[t] = "trimmed"
    /\ table' = (table \cup written[t]) \ doomed[t]
    /\ stage' = [stage EXCEPT ![t] = "committed"]
    /\ Release(t)
    /\ UNCHANGED <<nextId, written, doomed>>

(* A statement raises or the process is lost before COMMIT is executed.    *)
Rollback(t) ==
    /\ stage[t] \in Open
    /\ stage' = [stage EXCEPT ![t] = "raised"]
    /\ written' = [written EXCEPT ![t] = {}]
    /\ doomed' = [doomed EXCEPT ![t] = {}]
    /\ Release(t)
    /\ UNCHANGED <<table, nextId>>

Proceed(t) ==
    \/ AcquireLock(t) \/ InsertUser(t) \/ InsertAssistant(t)
    \/ DeleteBeyondLimit(t) \/ Commit(t)

Next == \E t \in Turns : Proceed(t) \/ Rollback(t)

Spec == Init /\ [][Next]_vars

(* The database executes every statement it is sent; nothing has to fail.  *)
FairSpec == Spec /\ \A t \in Turns : WF_vars(Proceed(t))
-----------------------------------------------------------------------------
(* What `load` returns: rows of the scope, oldest first, no more than the  *)
(* limit, and the context on the newest of them.                           *)
LoadRows(s) == InScope(table, s) \ Beyond(InScope(table, s))

Load(s) ==
    LET rows == LoadRows(s)
        sorted == [k \in 1..Cardinality(rows) |->
                      CHOOSE r \in rows : Cardinality({q \in rows : q.id <= r.id}) = k]
    IN  [messages |-> [k \in DOMAIN sorted |-> [turn |-> sorted[k].turn, role |-> sorted[k].role]],
         context  |-> IF rows = {} THEN NoContext ELSE sorted[Len(sorted)].context]

(* However many turns of a scope save at once, and whichever of them fail, *)
(* the table holds the newest committed messages of the scope, as many as  *)
(* the limit allows (the DELETE and the lock it runs under).               *)
RetentionHolds ==
    \A s \in Scopes :
        LET saved == UNION {written[t] : t \in {u \in Turns : stage[u] = "committed"
                                                             /\ ScopeOf[u] = s}}
            kept == InScope(table, s)
        IN  /\ kept \subseteq saved
            /\ Cardinality(kept) <= MaxMessages
            /\ kept # saved => Cardinality(kept) = MaxMessages
            /\ \A r \in kept, gone \in saved \ kept : gone.id < r.id

(* The store implements the abstract memory: a commit is one SaveTurn, and *)
(* everything else leaves what `load` returns as it was.                   *)
Abstract == INSTANCE ConversationMemory WITH memory <- [s \in Scopes |-> Load(s)]
ImplementsMemory == Abstract!MemorySpec

(* Every save_turn returns or raises; none waits for the lock for ever.    *)
EverySaveEnds == \A t \in Turns : <>(stage[t] \in {"committed", "raised"})
=============================================================================
