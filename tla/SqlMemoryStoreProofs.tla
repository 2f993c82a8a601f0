------------------------ MODULE SqlMemoryStoreProofs -------------------------
(***************************************************************************)
(* The table keeps the newest messages of every conversation and the store *)
(* implements the abstract memory, for any number of turns saving at once, *)
(* of conversations, and for any (even) limit.                             *)
(*                                                                         *)
(* The argument: a row's position is the number of rows of its scope that  *)
(* are not newer; the DELETE removes exactly the first positions, so what  *)
(* stays is the suffix `Newest` takes.  The lock makes what the DELETE saw *)
(* still the whole scope when its transaction commits, and it gives the    *)
(* rows of a later transaction greater ids.                                *)
(***************************************************************************)
EXTENDS SqlMemoryStore, FiniteSetTheorems, SequenceTheorems, TLAPS

Rows == [id : Nat \ {0}, scope : Scopes, turn : Turns, role : Roles, context : Contexts]

(* A finite set of rows with ids of their own. *)
RowSet(S) ==
    /\ S \subseteq Rows /\ IsFiniteSet(S)
    /\ \A r, q \in S : r.id = q.id => r = q

(* How many rows of S are not newer than r. *)
Pos(S, r) == Cardinality({q \in S : q.id <= r.id})
-----------------------------------------------------------------------------
(* A newer row has a greater position.                                     *)
LEMMA PosLess ==
    ASSUME NEW S, RowSet(S), NEW r \in S, NEW q \in S, r.id < q.id
    PROVE  Pos(S, r) < Pos(S, q)
<1> DEFINE low == {x \in S : x.id <= r.id}
           high == {x \in S : x.id <= q.id}
<1>1. \A x \in S : x.id \in Nat
  BY DEF RowSet, Rows
<1>2. low \in SUBSET high /\ q \in high /\ q \notin low
  BY <1>1
<1>3. IsFiniteSet(high)
  BY FS_Subset, high \in SUBSET S DEF RowSet
<1>4. /\ IsFiniteSet(low) /\ Cardinality(low) <= Cardinality(high)
      /\ Cardinality(low) # Cardinality(high)
  BY <1>2, <1>3, FS_Subset
<1>5. Cardinality(low) \in Nat /\ Cardinality(high) \in Nat
  BY <1>3, <1>4, FS_CardinalityType
<1> QED
  BY <1>4, <1>5 DEF Pos

(* The positions number the rows of S from 1 on.                           *)
LEMMA PosBijection ==
    ASSUME NEW S, RowSet(S)
    PROVE  /\ Cardinality(S) \in Nat
           /\ \A r \in S : Pos(S, r) \in 1..Cardinality(S)
           /\ \A k \in 1..Cardinality(S) : \E r \in S : Pos(S, r) = k
           /\ \A r, q \in S : Pos(S, r) = Pos(S, q) => r = q
           /\ \A r, q \in S : Pos(S, r) < Pos(S, q) => r.id < q.id
<1> DEFINE n == Cardinality(S)
           pos == [r \in S |-> Pos(S, r)]
<1>1. n \in Nat /\ \A x \in S : x.id \in Nat
  BY FS_CardinalityType DEF RowSet, Rows
<1>2. ASSUME NEW r \in S PROVE Pos(S, r) \in 1..n
  <2> DEFINE upto == {q \in S : q.id <= r.id}
  <2>1. IsFiniteSet(upto) /\ Cardinality(upto) <= n
    BY FS_Subset, upto \in SUBSET S DEF RowSet
  <2>2. r \in upto
    BY <1>1
  <2>3. Cardinality(upto) \in Nat /\ Cardinality(upto) # 0
    BY <2>1, <2>2, FS_CardinalityType, FS_EmptySet
  <2> QED
    BY <1>1, <2>1, <2>3 DEF Pos
<1>3. ASSUME NEW r \in S, NEW q \in S, Pos(S, r) = Pos(S, q) PROVE r = q
  <2>1. ~(r.id < q.id) /\ ~(q.id < r.id)
    BY <1>1, <1>2, <1>3, PosLess
  <2> QED
    BY <1>1, <2>1 DEF RowSet
<1>4. pos \in Injection(S, 1..n)
  BY <1>2, <1>3 DEF Injection, IsInjective
<1>5. IsFiniteSet(1..n) /\ Cardinality(1..n) = n
  BY <1>1, FS_Interval
<1>6. pos \in Surjection(S, 1..n)
  BY <1>4, <1>5, FS_Injection
<1>7. \A k \in 1..n : \E r \in S : Pos(S, r) = k
  BY <1>6 DEF Surjection
<1>8. ASSUME NEW r \in S, NEW q \in S, Pos(S, r) < Pos(S, q) PROVE r.id < q.id
  <2>1. ~(q.id < r.id)
    BY <1>2, <1>8, PosLess
  <2>2. r.id # q.id
    BY <1>2, <1>8 DEF RowSet
  <2> QED
    BY <1>1, <2>1, <2>2
<1> QED
  BY <1>1, <1>2, <1>3, <1>7, <1>8

(* What exceeds the limit are the first positions, and no more.            *)
LEMMA BeyondProperties ==
    ASSUME NEW S, RowSet(S)
    PROVE  LET n == Cardinality(S)
               excess == IF n > MaxMessages THEN n - MaxMessages ELSE 0
           IN  /\ excess \in Nat
               /\ Beyond(S) = {r \in S : Pos(S, r) <= excess}
               /\ IsFiniteSet(Beyond(S)) /\ Cardinality(Beyond(S)) = excess
<1> DEFINE n == Cardinality(S)
           excess == IF n > MaxMessages THEN n - MaxMessages ELSE 0
           first == {r \in S : Pos(S, r) <= excess}
           pos == [r \in first |-> Pos(S, r)]
<1>1. /\ n \in Nat /\ MaxMessages \in Nat
      /\ \A r \in S : Pos(S, r) \in 1..n /\ r.id \in Nat
      /\ \A k \in 1..n : \E r \in S : Pos(S, r) = k
      /\ \A r, q \in S : Pos(S, r) = Pos(S, q) => r = q
  BY PosBijection, LimitAssumption DEF RowSet, Rows
<1>2. excess \in Nat /\ excess <= n
  BY <1>1
<1>3. ASSUME NEW r \in S
      PROVE  Cardinality({q \in S : q.id > r.id}) = n - Pos(S, r)
  <2> DEFINE upto == {q \in S : q.id <= r.id}
             newer == {q \in S : q.id > r.id}
  <2>1. newer = S \ upto /\ S \cap upto = upto
    BY <1>1
  <2>2. Cardinality(S \ upto) = n - Cardinality(S \cap upto)
    BY FS_Difference DEF RowSet
  <2> QED
    BY <2>1, <2>2 DEF Pos
<1>4. \A r \in S : n - Pos(S, r) >= MaxMessages <=> Pos(S, r) <= excess
  BY <1>1
<1>5. Beyond(S) = first
  BY <1>3, <1>4 DEF Beyond
<1>6. IsFiniteSet(first)
  BY FS_Subset, first \in SUBSET S DEF RowSet
<1>7. pos \in Bijection(first, 1..excess)
  <2>1. \A r \in first : pos[r] \in 1..excess
    BY <1>1, <1>2
  <2>2. \A r, q \in first : pos[r] = pos[q] => r = q
    BY <1>1
  <2>3. \A k \in 1..excess : \E r \in first : pos[r] = k
    BY <1>1, <1>2
  <2> QED
    BY <2>1, <2>2, <2>3 DEF Bijection, Injection, Surjection, IsInjective
<1>8. Cardinality(1..excess) = Cardinality(first)
  BY <1>6, <1>7, FS_Bijection DEF ExistsBijection
<1>9. Cardinality(1..excess) = excess
  BY <1>2, FS_Interval
<1> QED
  BY <1>2, <1>5, <1>6, <1>8, <1>9

(* The rows that stay: as many as the limit allows, newer than all that    *)
(* are removed, in the same order.                                         *)
LEMMA KeptProperties ==
    ASSUME NEW S, RowSet(S)
    PROVE  LET n == Cardinality(S)
               excess == IF n > MaxMessages THEN n - MaxMessages ELSE 0
               kept == S \ Beyond(S)
           IN  /\ RowSet(kept) /\ Cardinality(kept) = n - excess
               /\ \A r \in S : r \in kept <=> Pos(S, r) > excess
               /\ \A r \in kept : Pos(kept, r) = Pos(S, r) - excess
               /\ \A r \in kept, q \in Beyond(S) : q.id < r.id
<1> DEFINE n == Cardinality(S)
           excess == IF n > MaxMessages THEN n - MaxMessages ELSE 0
           gone == Beyond(S)
           kept == S \ gone
<1>1. /\ excess \in Nat
      /\ gone = {r \in S : Pos(S, r) <= excess}
      /\ IsFiniteSet(gone) /\ Cardinality(gone) = excess
  BY BeyondProperties
<1>2. /\ n \in Nat
      /\ \A r \in S : Pos(S, r) \in 1..n /\ r.id \in Nat
      /\ \A r, q \in S : Pos(S, r) < Pos(S, q) => r.id < q.id
  BY PosBijection DEF RowSet, Rows
<1> HIDE DEF excess
<1>3. S \cap gone = gone
  BY <1>1
<1>4. IsFiniteSet(kept) /\ Cardinality(kept) = n - excess
  BY <1>1, <1>3, FS_Difference DEF RowSet
<1>5. RowSet(kept)
  BY <1>4 DEF RowSet
<1>6. \A r \in S : r \in kept <=> Pos(S, r) > excess
  BY <1>1, <1>2
<1>7. \A r \in kept, q \in gone : q.id < r.id
  BY <1>1, <1>2
<1>8. ASSUME NEW r \in kept PROVE Pos(kept, r) = Pos(S, r) - excess
  <2> DEFINE upto == {q \in S : q.id <= r.id}
             keptUpto == {q \in kept : q.id <= r.id}
  <2>1. IsFiniteSet(upto)
    BY FS_Subset, upto \in SUBSET S DEF RowSet
  <2>2. \A q \in gone : q.id <= r.id /\ q \in S
    BY <1>1, <1>2, <1>7
  <2>3. keptUpto = upto \ gone /\ upto \cap gone = gone
    BY <2>2
  <2>4. Cardinality(upto \ gone) = Cardinality(upto) - Cardinality(upto \cap gone)
    BY <2>1, FS_Difference
  <2> QED
    BY <1>1, <2>3, <2>4 DEF Pos
<1> QED
  BY <1>4, <1>5, <1>6, <1>7, <1>8 DEF excess

(* Two newer rows take the next two positions.                             *)
LEMMA TwoMore ==
    ASSUME NEW K, RowSet(K), NEW a \in Rows, NEW b \in Rows, a.id < b.id,
           \A r \in K : r.id < a.id
    PROVE  LET S == K \cup {a, b} IN
           /\ RowSet(S) /\ Cardinality(S) = Cardinality(K) + 2
           /\ \A r \in K : Pos(S, r) = Pos(K, r)
           /\ Pos(S, a) = Cardinality(K) + 1 /\ Pos(S, b) = Cardinality(K) + 2
<1> DEFINE S == K \cup {a, b}
           K1 == K \cup {a}
<1>1. IsFiniteSet(K) /\ Cardinality(K) \in Nat
  BY FS_CardinalityType DEF RowSet
<1>2. a.id \in Nat /\ b.id \in Nat /\ \A r \in K : r.id \in Nat
  BY DEF RowSet, Rows
<1>3. a \notin K /\ b \notin K1 /\ S = K1 \cup {b}
  BY <1>2
<1>4. IsFiniteSet(K1) /\ Cardinality(K1) = Cardinality(K) + 1
  BY <1>1, <1>3, FS_AddElement
<1>5. IsFiniteSet(S) /\ Cardinality(S) = Cardinality(K) + 2
  <2>1. IsFiniteSet(K1 \cup {b}) /\ Cardinality(K1 \cup {b}) = Cardinality(K1) + 1
    BY <1>3, <1>4, FS_AddElement
  <2>2. S = K1 \cup {b}
    BY <1>3
  <2> HIDE DEF S, K1
  <2>3. IsFiniteSet(S) /\ Cardinality(S) = Cardinality(K1) + 1
    BY <2>1, <2>2
  <2> QED
    BY <1>1, <1>4, <2>3
<1>6. \A r, q \in S : r.id = q.id => r = q
  BY <1>2 DEF RowSet
<1>7. RowSet(S)
  BY <1>5, <1>6 DEF RowSet
<1>8. \A r \in K : {q \in S : q.id <= r.id} = {q \in K : q.id <= r.id}
  BY <1>2
<1>9. {q \in S : q.id <= a.id} = K1
  BY <1>2
<1>10. {q \in S : q.id <= b.id} = S
  BY <1>2
<1> QED
  BY <1>4, <1>5, <1>7, <1>8, <1>9, <1>10 DEF Pos
-----------------------------------------------------------------------------
(* What `load` makes of the rows of a scope.                               *)
Sorted(rows) ==
    [k \in 1..Cardinality(rows) |->
        CHOOSE r \in rows : Cardinality({q \in rows : q.id <= r.id}) = k]

MessageOf(row) == [turn |-> row.turn, role |-> row.role]

MessagesOf(rows) == [k \in 1..Cardinality(rows) |-> MessageOf(Sorted(rows)[k])]

ContextIn(rows) == IF rows = {} THEN NoContext ELSE Sorted(rows)[Cardinality(rows)].context

LEMMA SortedProperties ==
    ASSUME NEW S, RowSet(S)
    PROVE  /\ Cardinality(S) \in Nat /\ DOMAIN Sorted(S) = 1..Cardinality(S)
           /\ \A k \in 1..Cardinality(S) : Sorted(S)[k] \in S /\ Pos(S, Sorted(S)[k]) = k
           /\ \A r \in S : Pos(S, r) \in 1..Cardinality(S) /\ Sorted(S)[Pos(S, r)] = r
<1>1. /\ Cardinality(S) \in Nat
      /\ \A r \in S : Pos(S, r) \in 1..Cardinality(S)
      /\ \A k \in 1..Cardinality(S) : \E r \in S : Pos(S, r) = k
      /\ \A r, q \in S : Pos(S, r) = Pos(S, q) => r = q
  BY PosBijection
<1>2. \A k \in 1..Cardinality(S) : Sorted(S)[k] = CHOOSE r \in S : Pos(S, r) = k
  BY DEF Sorted, Pos
<1>3. \A k \in 1..Cardinality(S) : Sorted(S)[k] \in S /\ Pos(S, Sorted(S)[k]) = k
  BY <1>1, <1>2
<1>4. \A r \in S : Sorted(S)[Pos(S, r)] = r
  BY <1>1, <1>3
<1>5. DOMAIN Sorted(S) = 1..Cardinality(S)
  BY DEF Sorted
<1> QED
  BY <1>1, <1>3, <1>4, <1>5

Messages == [turn : Turns, role : Roles]

LEMMA MessagesProperties ==
    ASSUME NEW S, RowSet(S)
    PROVE  /\ MessagesOf(S) \in Seq(Messages) /\ Len(MessagesOf(S)) = Cardinality(S)
           /\ \A k \in 1..Cardinality(S) : MessagesOf(S)[k] = MessageOf(Sorted(S)[k])
<1>1. /\ Cardinality(S) \in Nat
      /\ \A k \in 1..Cardinality(S) : Sorted(S)[k] \in Rows
  BY SortedProperties DEF RowSet
<1>2. \A k \in 1..Cardinality(S) : MessageOf(Sorted(S)[k]) \in Messages
  BY <1>1 DEF Rows, MessageOf, Messages
<1>3. MessagesOf(S) \in [1..Cardinality(S) -> Messages]
  BY <1>2 DEF MessagesOf
<1>4. MessagesOf(S) \in Seq(Messages)
  BY <1>1, <1>3, IsASeq
<1>5. Len(MessagesOf(S)) = Cardinality(S)
  BY <1>1, <1>3, <1>4, LenProperties
<1> QED
  BY <1>4, <1>5 DEF MessagesOf

(* What a load of a scope makes of the rows it finds there.               *)
ReadBack(rows) ==
    LET sorted == Sorted(rows \ Beyond(rows))
    IN  [messages |-> [k \in DOMAIN sorted |-> [turn |-> sorted[k].turn, role |-> sorted[k].role]],
         context  |-> IF rows \ Beyond(rows) = {} THEN NoContext ELSE sorted[Len(sorted)].context]

LEMMA LoadReadsBack == \A s : Load(s) = ReadBack(InScope(table, s))
BY DEF Load, LoadRows, Sorted, ReadBack

(* Rows within the limit are returned whole.                               *)
LEMMA WithinLimit ==
    ASSUME NEW S, RowSet(S), Cardinality(S) <= MaxMessages
    PROVE  ReadBack(S) = [messages |-> MessagesOf(S), context |-> ContextIn(S)]
<1>1. Cardinality(S) \in Nat /\ DOMAIN Sorted(S) = 1..Cardinality(S)
  BY SortedProperties
<1>2. S \ Beyond(S) = S
  <2>1. \A r \in S : Pos(S, r) \in 1..Cardinality(S)
    BY PosBijection
  <2>2. ~(Cardinality(S) > MaxMessages)
    BY <1>1, LimitAssumption
  <2>3. Beyond(S) = {r \in S : Pos(S, r) <= 0}
    BY <2>2, BeyondProperties
  <2> QED
    BY <2>1, <2>3
<1>3. Len(Sorted(S)) = Cardinality(S)
  <2>1. \A k \in 1..Cardinality(S) : Sorted(S)[k] \in Rows
    BY SortedProperties DEF RowSet
  <2>2. Sorted(S) \in [1..Cardinality(S) -> Rows]
    BY <2>1 DEF Sorted
  <2> QED
    BY <1>1, <2>2, IsASeq, LenProperties
<1>4. ReadBack(S) = [messages |-> [k \in DOMAIN Sorted(S) |->
                                     [turn |-> Sorted(S)[k].turn, role |-> Sorted(S)[k].role]],
                     context  |-> IF S = {} THEN NoContext
                                  ELSE Sorted(S)[Len(Sorted(S))].context]
  BY <1>2 DEF ReadBack
<1> QED
  BY <1>1, <1>3, <1>4 DEF MessagesOf, MessageOf, ContextIn
-----------------------------------------------------------------------------
(* Inserting two newer rows appends their messages.                        *)
LEMMA InsertsAppend ==
    ASSUME NEW K, RowSet(K), NEW a \in Rows, NEW b \in Rows, a.id < b.id,
           \A r \in K : r.id < a.id
    PROVE  MessagesOf(K \cup {a, b}) = MessagesOf(K) \o <<MessageOf(a), MessageOf(b)>>
<1> DEFINE S == K \cup {a, b}
           n == Cardinality(K)
           two == <<MessageOf(a), MessageOf(b)>>
           new == MessagesOf(K) \o two
<1>1. /\ RowSet(S) /\ Cardinality(S) = n + 2
      /\ \A r \in K : Pos(S, r) = Pos(K, r)
      /\ Pos(S, a) = n + 1 /\ Pos(S, b) = n + 2
  BY TwoMore
<1>2. /\ n \in Nat
      /\ \A k \in 1..n : Sorted(K)[k] \in K /\ Pos(K, Sorted(K)[k]) = k
  BY SortedProperties
<1> HIDE DEF S
<1>3. \A r \in S : Sorted(S)[Pos(S, r)] = r
  BY <1>1, SortedProperties
<1>4. /\ MessagesOf(K) \in Seq(Messages) /\ Len(MessagesOf(K)) = n
      /\ \A k \in 1..n : MessagesOf(K)[k] = MessageOf(Sorted(K)[k])
  BY MessagesProperties
<1>5. /\ MessagesOf(S) \in Seq(Messages) /\ Len(MessagesOf(S)) = n + 2
      /\ \A k \in 1..(n + 2) : MessagesOf(S)[k] = MessageOf(Sorted(S)[k])
  BY <1>1, MessagesProperties
<1>6. MessageOf(a) \in Messages /\ MessageOf(b) \in Messages
  BY DEF Rows, MessageOf, Messages
<1>7. two \in Seq(Messages) /\ Len(two) = 2 /\ two[1] = MessageOf(a) /\ two[2] = MessageOf(b)
  BY <1>6
<1> HIDE DEF two
<1>8. /\ new \in Seq(Messages) /\ Len(new) = n + 2
      /\ \A k \in 1..(n + 2) : new[k] = IF k <= n THEN MessagesOf(K)[k] ELSE two[k - n]
  <2>1. /\ new \in Seq(Messages)
        /\ Len(new) = Len(MessagesOf(K)) + Len(two)
        /\ \A k \in 1..(Len(MessagesOf(K)) + Len(two)) :
              new[k] = IF k <= Len(MessagesOf(K)) THEN MessagesOf(K)[k]
                       ELSE two[k - Len(MessagesOf(K))]
    BY <1>4, <1>7, ConcatProperties
  <2>2. Len(MessagesOf(K)) = n /\ Len(two) = 2
    BY <1>4, <1>7
  <2> HIDE DEF new, n
  <2> QED
    BY <2>1, <2>2
<1>9. \A k \in 1..n : Sorted(S)[k] = Sorted(K)[k]
  BY <1>1, <1>2, <1>3 DEF S
<1>10. Sorted(S)[n + 1] = a /\ Sorted(S)[n + 2] = b
  BY <1>1, <1>3 DEF S
<1>11. ASSUME NEW k \in 1..(n + 2) PROVE MessagesOf(S)[k] = new[k]
  <2> HIDE DEF new, n
  <2>1. CASE k \in 1..n
    BY <1>2, <1>4, <1>5, <1>8, <1>9, <2>1
  <2>2. CASE k = n + 1
    <3>1. k - n = 1 /\ ~(k <= n)
      BY <1>2, <2>2
    <3> QED
      BY <1>5, <1>7, <1>8, <1>10, <2>2, <3>1
  <2>3. CASE k = n + 2
    <3>1. k - n = 2 /\ ~(k <= n)
      BY <1>2, <2>3
    <3> QED
      BY <1>5, <1>7, <1>8, <1>10, <2>3, <3>1
  <2> QED
    BY <1>2, <2>1, <2>2, <2>3
<1>12. MessagesOf(S) = new
  BY <1>5, <1>8, <1>11, SeqEqual
<1> QED
  BY <1>12 DEF S, two

(* The DELETE keeps the messages that messages[-limit:] keeps, and the     *)
(* newest row.                                                             *)
LEMMA DeleteIsNewest ==
    ASSUME NEW S, RowSet(S)
    PROVE  /\ MessagesOf(S \ Beyond(S)) = Abstract!Newest(MessagesOf(S))
           /\ ContextIn(S \ Beyond(S)) = ContextIn(S)
<1> DEFINE n == Cardinality(S)
           excess == IF n > MaxMessages THEN n - MaxMessages ELSE 0
           kept == S \ Beyond(S)
           m == n - excess
<1>1. /\ RowSet(kept) /\ Cardinality(kept) = m
      /\ \A r \in S : r \in kept <=> Pos(S, r) > excess
      /\ \A r \in kept : Pos(kept, r) = Pos(S, r) - excess
  BY KeptProperties
<1>2. /\ n \in Nat
      /\ \A k \in 1..n : Sorted(S)[k] \in S /\ Pos(S, Sorted(S)[k]) = k
  BY SortedProperties
<1>3. MaxMessages \in Nat /\ MaxMessages >= 2
  BY LimitAssumption
<1>4. excess \in Nat /\ m \in Nat /\ m <= n /\ (n > 0 => m > 0) /\ m + excess = n
  <2>1. n \in Nat
    BY <1>2
  <2> HIDE DEF n
  <2> QED
    BY <1>3, <2>1
<1>5. \A k \in 1..m : Sorted(kept)[k] = Sorted(S)[k + excess]
  <2> SUFFICES ASSUME NEW k \in 1..m PROVE Sorted(kept)[k] = Sorted(S)[k + excess]
    OBVIOUS
  <2> DEFINE r == Sorted(S)[k + excess]
  <2> HIDE DEF kept, excess, m, n
  <2>1. k + excess \in 1..n /\ k + excess > excess
    BY <1>2, <1>4
  <2>2. r \in S /\ Pos(S, r) = k + excess
    BY <1>2, <2>1
  <2>3. r \in kept /\ Pos(kept, r) = k
    BY <1>1, <1>4, <2>1, <2>2
  <2> QED
    BY <1>1, <2>3, SortedProperties
<1>6. /\ MessagesOf(S) \in Seq(Messages) /\ Len(MessagesOf(S)) = n
      /\ \A k \in 1..n : MessagesOf(S)[k] = MessageOf(Sorted(S)[k])
  BY MessagesProperties
<1>7. /\ MessagesOf(kept) \in Seq(Messages) /\ Len(MessagesOf(kept)) = m
      /\ \A k \in 1..m : MessagesOf(kept)[k] = MessageOf(Sorted(kept)[k])
  BY <1>1, MessagesProperties
<1>8. \A k \in 1..m : MessagesOf(kept)[k] = MessagesOf(S)[k + excess]
  <2> HIDE DEF kept, excess, m, n
  <2> QED
    BY <1>2, <1>4, <1>5, <1>6, <1>7
<1>9. MessagesOf(kept) = Abstract!Newest(MessagesOf(S))
  <2>1. CASE n > MaxMessages
    <3> DEFINE suffix == SubSeq(MessagesOf(S), n - MaxMessages + 1, n)
    <3>1. \A i \in (n - MaxMessages + 1)..n : MessagesOf(S)[i] \in Messages
      BY <1>2, <1>3, <1>6, <2>1
    <3>2. /\ suffix \in Seq(Messages) /\ Len(suffix) = MaxMessages
          /\ \A i \in 1..MaxMessages :
                suffix[i] = MessagesOf(S)[n - MaxMessages + 1 + i - 1]
      <4>1. n - MaxMessages + 1 \in Int /\ n \in Int
        BY <1>2, <1>3
      <4>2. /\ suffix \in Seq(Messages)
            /\ Len(suffix) = IF n - MaxMessages + 1 <= n
                             THEN n - (n - MaxMessages + 1) + 1 ELSE 0
            /\ \A i \in 1..(n - (n - MaxMessages + 1) + 1) :
                  suffix[i] = MessagesOf(S)[n - MaxMessages + 1 + i - 1]
        BY <3>1, <4>1, SubSeqProperties
      <4>3. n - (n - MaxMessages + 1) + 1 = MaxMessages /\ n - MaxMessages + 1 <= n
        BY <1>2, <1>3
      <4> HIDE DEF suffix
      <4> QED
        BY <4>2, <4>3
    <3>3. m = MaxMessages /\ excess = n - MaxMessages
      BY <1>2, <1>3, <2>1
    <3>4. \A i \in 1..m : MessagesOf(kept)[i] = suffix[i]
      <4> HIDE DEF suffix, kept, excess, m
      <4>1. \A i \in 1..m : n - MaxMessages + 1 + i - 1 = i + excess
        BY <1>2, <1>3, <3>3
      <4> QED
        BY <1>8, <3>2, <3>3, <4>1
    <3> HIDE DEF suffix
    <3>5. MessagesOf(kept) = suffix
      BY <1>7, <3>2, <3>3, <3>4, SeqEqual
    <3> QED
      BY <1>6, <2>1, <3>5 DEF Abstract!Newest, suffix
  <2>2. CASE ~(n > MaxMessages)
    <3>1. excess = 0 /\ m = n
      BY <1>2, <2>2
    <3>2. \A i \in 1..m : MessagesOf(kept)[i] = MessagesOf(S)[i]
      <4> HIDE DEF kept, m, excess
      <4> QED
        BY <1>2, <1>8, <3>1
    <3>3. MessagesOf(kept) = MessagesOf(S)
      BY <1>6, <1>7, <3>1, <3>2, SeqEqual
    <3> QED
      BY <1>6, <2>2, <3>3 DEF Abstract!Newest
  <2> QED
    BY <2>1, <2>2
<1>10. ContextIn(kept) = ContextIn(S)
  <2>1. CASE S = {}
    BY <2>1
  <2>2. CASE S # {}
    <3>1. n > 0
      BY <1>2, <2>2, FS_EmptySet DEF RowSet
    <3> HIDE DEF kept, m, excess, n
    <3>2. kept # {}
      BY <1>1, <1>4, <3>1, FS_EmptySet DEF RowSet
    <3>3. Sorted(kept)[m] = Sorted(S)[n]
      BY <1>2, <1>4, <1>5, <3>1
    <3> QED
      BY <1>1, <2>2, <3>2, <3>3 DEF ContextIn, n
  <2> QED
    BY <2>1, <2>2
<1> QED
  BY <1>9, <1>10

(* One transaction, from the rows of its scope to those it leaves.         *)
LEMMA TransactionIsSave ==
    ASSUME NEW K, RowSet(K), NEW t \in Turns,
           NEW a \in Rows, NEW b \in Rows, a.id < b.id, \A r \in K : r.id < a.id,
           a.turn = t, b.turn = t, a.role = "user", b.role = "assistant"
    PROVE  LET T == (K \cup {a, b}) \ Beyond(K \cup {a, b}) IN
           /\ MessagesOf(T) = Abstract!Newest(MessagesOf(K) \o Abstract!TurnMessages(t))
           /\ ContextIn(T) = b.context
<1> DEFINE S == K \cup {a, b}
<1>1. MessagesOf(S) = MessagesOf(K) \o Abstract!TurnMessages(t)
  BY InsertsAppend DEF MessageOf, Abstract!TurnMessages
<1>2. RowSet(S) /\ Pos(S, b) = Cardinality(S) /\ b \in S /\ S # {}
  BY TwoMore
<1> HIDE DEF S
<1>3. ContextIn(S) = b.context
  BY <1>2, SortedProperties DEF ContextIn
<1>4. /\ MessagesOf(S \ Beyond(S)) = Abstract!Newest(MessagesOf(S))
      /\ ContextIn(S \ Beyond(S)) = ContextIn(S)
  BY <1>2, DeleteIsNewest
<1> QED
  BY <1>1, <1>3, <1>4 DEF S
-----------------------------------------------------------------------------
(* The inductive invariant.                                                *)

Locked == {"locked", "user_row", "both_rows", "trimmed"}
Written == {"both_rows", "trimmed", "committed"}

StoreTypes ==
    /\ table \in SUBSET Rows /\ IsFiniteSet(table)
    /\ nextId \in Nat \ {0}
    /\ holder \in [Scopes -> Turns \cup {"none"}]
    /\ stage \in [Turns -> Open \cup {"committed", "raised"}]
    /\ written \in [Turns -> SUBSET Rows]
    /\ doomed \in [Turns -> SUBSET Rows]

(* The transactions between their lock and their end hold the lock of      *)
(* their scope, and they alone.                                            *)
LockIsHeld ==
    /\ \A t \in Turns : stage[t] \in Locked <=> holder[ScopeOf[t]] = t
    /\ \A s \in Scopes : holder[s] # "none" => ScopeOf[holder[s]] = s

RowOf(t, i, role) ==
    [id |-> i, scope |-> ScopeOf[t], turn |-> t, role |-> role, context |-> ContextOf[t]]

(* What a transaction has inserted is what its stage says, under ids the   *)
(* sequence has handed out.                                                *)
WrittenSoFar ==
    \A t \in Turns :
        /\ stage[t] \in {"called", "locked", "raised"} => written[t] = {}
        /\ stage[t] = "user_row" => \E i \in 1..(nextId - 1) : written[t] = {RowOf(t, i, "user")}
        /\ stage[t] \in Written =>
              \E i, j \in 1..(nextId - 1) :
                  i < j /\ written[t] = {RowOf(t, i, "user"), RowOf(t, j, "assistant")}

IdsAreTheirOwn ==
    \A t, u \in Turns : \A r \in written[t], q \in written[u] : r.id = q.id => r = q

(* The holder of a lock inserts newer rows than all that were committed    *)
(* under it.                                                               *)
LockOrders ==
    \A t, u \in Turns :
        stage[t] \in Locked /\ stage[u] = "committed" /\ ScopeOf[u] = ScopeOf[t]
            => \A r \in written[t], q \in written[u] : q.id < r.id

(* What the DELETE has seen is still what there is.                        *)
DeleteIsCurrent ==
    \A t \in Turns :
        /\ stage[t] \in {"called", "locked", "user_row", "both_rows"} => doomed[t] = {}
        /\ stage[t] = "trimmed" => doomed[t] = Beyond(InScope(table, ScopeOf[t]) \cup written[t])

IInv ==
    /\ StoreTypes /\ LockIsHeld /\ WrittenSoFar /\ IdsAreTheirOwn
    /\ LockOrders /\ DeleteIsCurrent /\ RetentionHolds
-----------------------------------------------------------------------------
(* The rows committed for a scope, and what retention says of them.        *)
Saved(s) == {r \in Rows : \E t \in Turns :
                stage[t] = "committed" /\ ScopeOf[t] = s /\ r \in written[t]}

KeepsNewest(kept, saved) ==
    /\ kept \subseteq saved
    /\ Cardinality(kept) <= MaxMessages
    /\ kept # saved => Cardinality(kept) = MaxMessages
    /\ \A r \in kept, gone \in saved \ kept : gone.id < r.id

LEMMA RetentionIs ==
    ASSUME written \in [Turns -> SUBSET Rows]
    PROVE  RetentionHolds <=> \A s \in Scopes : KeepsNewest(InScope(table, s), Saved(s))
<1>1. ASSUME NEW s \in Scopes
      PROVE  Saved(s) = UNION {written[t] : t \in {u \in Turns : stage[u] = "committed"
                                                             /\ ScopeOf[u] = s}}
  BY DEF Saved
<1> QED
  BY <1>1 DEF RetentionHolds, KeepsNewest

(* A step that leaves the table and the committed transactions alone       *)
(* leaves the retention alone.                                             *)
LEMMA NothingCommitted ==
    ASSUME RetentionHolds, written \in [Turns -> SUBSET Rows], written' \in [Turns -> SUBSET Rows],
           table' = table,
           \A t \in Turns : stage'[t] = "committed" <=> stage[t] = "committed",
           \A t \in Turns : stage[t] = "committed" => written'[t] = written[t]
    PROVE  RetentionHolds'
<1>1. \A s \in Scopes : Saved(s)' = Saved(s)
  BY DEF Saved
<1>2. \A s \in Scopes : InScope(table', s) = InScope(table, s)
  OBVIOUS
<1>3. \A s \in Scopes : KeepsNewest(InScope(table, s), Saved(s))
  BY RetentionIs
<1>4. \A s \in Scopes : KeepsNewest(InScope(table, s), Saved(s))'
  BY <1>1, <1>2, <1>3 DEF KeepsNewest
<1>5. RetentionHolds' <=> \A s \in Scopes : KeepsNewest(InScope(table, s), Saved(s))'
  <2>1. ASSUME NEW s \in Scopes
        PROVE  Saved(s)' = UNION {written'[t] : t \in {u \in Turns : stage'[u] = "committed"
                                                               /\ ScopeOf[u] = s}}
    BY DEF Saved
  <2> QED
    BY <2>1 DEF RetentionHolds, KeepsNewest
<1> QED
  BY <1>4, <1>5

LEMMA InitInvariant == Init => IInv
<1> SUFFICES ASSUME Init PROVE IInv
  OBVIOUS
<1> USE DEF Init
<1>1. StoreTypes
  BY FS_EmptySet DEF StoreTypes, Open
<1>2. LockIsHeld
  BY ScopeOfAssumption, TurnsAssumption DEF LockIsHeld, Locked
<1>3. WrittenSoFar
  BY DEF WrittenSoFar, Written
<1>4. IdsAreTheirOwn /\ LockOrders
  BY DEF IdsAreTheirOwn, LockOrders
<1>5. DeleteIsCurrent
  BY DEF DeleteIsCurrent
<1>6. RetentionHolds
  <2>1. \A s \in Scopes : InScope(table, s) = {} /\ Saved(s) = {}
    BY DEF InScope, Saved
  <2>2. \A s \in Scopes : KeepsNewest(InScope(table, s), Saved(s))
    BY <2>1, FS_EmptySet, LimitAssumption DEF KeepsNewest
  <2> QED
    BY <1>1, <2>2, RetentionIs DEF StoreTypes
<1> QED
  BY <1>1, <1>2, <1>3, <1>4, <1>5, <1>6 DEF IInv

LEMMA AcquireLockInvariant == ASSUME IInv, NEW t \in Turns, AcquireLock(t) PROVE IInv'
<1> USE DEF AcquireLock, IInv
<1>1. /\ stage[t] = "called" /\ holder[ScopeOf[t]] = "none"
      /\ stage'[t] = "locked" /\ holder'[ScopeOf[t]] = t
      /\ \A u \in Turns \ {t} : stage'[u] = stage[u]
      /\ \A s \in Scopes \ {ScopeOf[t]} : holder'[s] = holder[s]
      /\ table' = table /\ nextId' = nextId /\ written' = written /\ doomed' = doomed
  BY ScopeOfAssumption DEF StoreTypes
<1>2. StoreTypes'
  BY ScopeOfAssumption DEF StoreTypes, Open
<1>3. LockIsHeld'
  <2>1. \A u \in Turns : stage'[u] \in Locked <=> holder'[ScopeOf[u]] = u
    BY <1>1, ScopeOfAssumption, TurnsAssumption DEF LockIsHeld, Locked
  <2>2. \A s \in Scopes : holder'[s] # "none" => ScopeOf[holder'[s]] = s
    BY <1>1, ScopeOfAssumption DEF LockIsHeld
  <2> QED
    BY <2>1, <2>2 DEF LockIsHeld
<1>4. WrittenSoFar'
  BY <1>1 DEF WrittenSoFar, Written, RowOf
<1>5. IdsAreTheirOwn'
  BY <1>1 DEF IdsAreTheirOwn
<1>6. LockOrders'
  BY <1>1 DEF LockOrders, WrittenSoFar, Locked
<1>7. DeleteIsCurrent'
  BY <1>1 DEF DeleteIsCurrent
<1>8. RetentionHolds'
  BY <1>1, <1>2, NothingCommitted DEF StoreTypes
<1> QED
  BY <1>2, <1>3, <1>4, <1>5, <1>6, <1>7, <1>8

LEMMA InsertInvariant ==
    ASSUME IInv, NEW t \in Turns, InsertUser(t) \/ InsertAssistant(t)
    PROVE  IInv'
<1> USE DEF IInv
<1>1. PICK from, to, role :
        /\ InsertRow(t, from, to, role)
        /\ \/ from = "locked" /\ to = "user_row" /\ role = "user"
           \/ from = "user_row" /\ to = "both_rows" /\ role = "assistant"
  BY DEF InsertUser, InsertAssistant
<1> DEFINE new == RowOf(t, nextId, role)
<1>2. /\ stage[t] = from /\ from \in Locked /\ to \in Locked /\ to # "trimmed"
      /\ from # "trimmed" /\ from # "both_rows"
      /\ stage'[t] = to /\ written'[t] = written[t] \cup {new} /\ nextId' = nextId + 1
      /\ \A u \in Turns \ {t} : stage'[u] = stage[u] /\ written'[u] = written[u]
      /\ table' = table /\ holder' = holder /\ doomed' = doomed
  BY <1>1 DEF InsertRow, RowOf, Locked, StoreTypes
<1>3. nextId \in Nat \ {0} /\ new \in Rows /\ new.id = nextId
  BY <1>1, ScopeOfAssumption, ContextOfAssumption DEF StoreTypes, Rows, Roles, RowOf
<1>4. \A u \in Turns : \A q \in written[u] : q.id \in Nat /\ q.id < nextId
  <2> SUFFICES ASSUME NEW u \in Turns, NEW q \in written[u] PROVE q.id \in Nat /\ q.id < nextId
    OBVIOUS
  <2>1. q.id \in 1..(nextId - 1)
    <3>1. CASE stage[u] \in {"called", "locked", "raised"}
      BY <3>1 DEF WrittenSoFar
    <3>2. CASE stage[u] = "user_row"
      BY <3>2 DEF WrittenSoFar, RowOf
    <3>3. CASE stage[u] \in Written
      BY <3>3 DEF WrittenSoFar, RowOf
    <3> QED
      BY <3>1, <3>2, <3>3 DEF StoreTypes, Open, Written
  <2> QED
    BY <1>3, <2>1
<1> HIDE DEF new
<1>5. StoreTypes'
  <2>1. written' \in [Turns -> SUBSET Rows]
    BY <1>1, <1>2, <1>3 DEF StoreTypes, InsertRow
  <2>2. stage' \in [Turns -> Open \cup {"committed", "raised"}]
    BY <1>1 DEF StoreTypes, InsertRow, Open
  <2> QED
    BY <1>2, <1>3, <2>1, <2>2 DEF StoreTypes
<1>6. LockIsHeld'
  BY <1>2 DEF LockIsHeld
<1>7. WrittenSoFar'
  <2> SUFFICES ASSUME NEW u \in Turns
               PROVE  /\ stage'[u] \in {"called", "locked", "raised"} => written'[u] = {}
                      /\ stage'[u] = "user_row"
                            => \E i \in 1..nextId : written'[u] = {RowOf(u, i, "user")}
                      /\ stage'[u] \in Written
                            => \E i, j \in 1..nextId :
                                  /\ i < j
                                  /\ written'[u] = {RowOf(u, i, "user"), RowOf(u, j, "assistant")}
    BY <1>2, <1>3 DEF WrittenSoFar, RowOf
  <2>1. CASE u # t
    <3>1. stage'[u] = stage[u] /\ written'[u] = written[u]
      BY <1>2, <2>1
    <3>2. \A i \in 1..(nextId - 1) : i \in 1..nextId
      BY <1>3
    <3> QED
      BY <3>1, <3>2 DEF WrittenSoFar
  <2>2. CASE u = t /\ from = "locked"
    <3>1. to = "user_row" /\ role = "user" /\ nextId \in 1..nextId
      BY <1>1, <1>3, <2>2
    <3>2. written[t] = {}
      BY <1>2, <2>2 DEF WrittenSoFar
    <3>3. written'[t] = {RowOf(t, nextId, "user")} /\ stage'[t] = "user_row"
      BY <1>2, <3>1, <3>2 DEF new
    <3> QED
      BY <2>2, <3>1, <3>3 DEF Written
  <2>3. CASE u = t /\ from = "user_row"
    <3>1. to = "both_rows" /\ role = "assistant"
      BY <1>1, <2>3
    <3>2. PICK i \in 1..(nextId - 1) : written[t] = {RowOf(t, i, "user")}
      BY <1>2, <2>3 DEF WrittenSoFar
    <3>3. written'[t] = {RowOf(t, i, "user"), RowOf(t, nextId, "assistant")}
      BY <1>2, <3>1, <3>2 DEF new
    <3>4. i \in 1..nextId /\ nextId \in 1..nextId /\ i < nextId
      BY <1>3, <3>2
    <3>5. \E k, j \in 1..nextId :
             k < j /\ written'[t] = {RowOf(t, k, "user"), RowOf(t, j, "assistant")}
      BY <3>3, <3>4
    <3>6. stage'[t] = "both_rows"
      BY <1>2, <3>1
    <3> QED
      BY <2>3, <3>5, <3>6
  <2> QED
    BY <1>1, <2>1, <2>2, <2>3
<1>8. IdsAreTheirOwn'
  <2> SUFFICES ASSUME NEW u \in Turns, NEW v \in Turns, NEW r \in written'[u],
                      NEW q \in written'[v], r.id = q.id
               PROVE  r = q
    BY DEF IdsAreTheirOwn
  <2>1. /\ r \in written[u] \/ r = new
        /\ q \in written[v] \/ q = new
    BY <1>2
  <2>2. CASE r \in written[u] /\ q \in written[v]
    BY <2>2 DEF IdsAreTheirOwn
  <2>3. CASE r = new \/ q = new
    BY <1>3, <1>4, <2>1, <2>3
  <2> QED
    BY <2>1, <2>2, <2>3
<1>9. LockOrders'
  <2> SUFFICES ASSUME NEW u \in Turns, NEW v \in Turns, stage'[u] \in Locked,
                      stage'[v] = "committed", ScopeOf[v] = ScopeOf[u],
                      NEW r \in written'[u], NEW q \in written'[v]
               PROVE  q.id < r.id
    BY DEF LockOrders
  <2>1. v # t /\ stage[v] = "committed" /\ q \in written[v]
    BY <1>2 DEF Locked
  <2>2. stage[u] \in Locked
    BY <1>2
  <2>3. CASE r \in written[u]
    BY <2>1, <2>2, <2>3 DEF LockOrders
  <2>4. CASE r = new
    BY <1>3, <1>4, <2>1, <2>4
  <2> QED
    BY <1>2, <2>3, <2>4
<1>10. DeleteIsCurrent'
  <2> SUFFICES ASSUME NEW u \in Turns
               PROVE  /\ stage'[u] \in {"called", "locked", "user_row", "both_rows"}
                            => doomed[u] = {}
                      /\ stage'[u] = "trimmed"
                            => doomed[u] = Beyond(InScope(table, ScopeOf[u]) \cup written'[u])
    BY <1>2 DEF DeleteIsCurrent
  <2>1. CASE u = t
    BY <1>1, <1>2, <2>1 DEF DeleteIsCurrent
  <2>2. CASE u # t
    BY <1>2, <2>2 DEF DeleteIsCurrent
  <2> QED
    BY <2>1, <2>2
<1>11. RetentionHolds'
  <2>1. \A u \in Turns : stage'[u] = "committed" <=> stage[u] = "committed"
    BY <1>2 DEF Locked
  <2>2. \A u \in Turns : stage[u] = "committed" => written'[u] = written[u]
    BY <1>2 DEF Locked
  <2> QED
    BY <1>2, <1>5, <2>1, <2>2, NothingCommitted DEF StoreTypes
<1> QED
  BY <1>5, <1>6, <1>7, <1>8, <1>9, <1>10, <1>11

LEMMA DeleteInvariant == ASSUME IInv, NEW t \in Turns, DeleteBeyondLimit(t) PROVE IInv'
<1> USE DEF IInv
<1>1. /\ stage[t] = "both_rows" /\ stage'[t] = "trimmed" /\ doomed'[t] = Beyond(Visible(t))
      /\ \A u \in Turns \ {t} : stage'[u] = stage[u] /\ doomed'[u] = doomed[u]
      /\ table' = table /\ nextId' = nextId /\ holder' = holder /\ written' = written
  BY DEF DeleteBeyondLimit, StoreTypes
<1>2. Visible(t) = InScope(table, ScopeOf[t]) \cup written[t]
  <2>1. doomed[t] = {}
    BY <1>1 DEF DeleteIsCurrent
  <2>2. \A r \in written[t] : r.scope = ScopeOf[t]
    BY <1>1 DEF WrittenSoFar, Written, RowOf
  <2> QED
    BY <2>1, <2>2 DEF Visible, InScope
<1>3. StoreTypes'
  <2>1. InScope(table, ScopeOf[t]) \cup written[t] \in SUBSET Rows
    BY DEF StoreTypes, InScope
  <2>2. Beyond(Visible(t)) \in SUBSET Rows
    BY <1>2, <2>1 DEF Beyond
  <2>3. doomed' \in [Turns -> SUBSET Rows]
    BY <2>2 DEF DeleteBeyondLimit, StoreTypes
  <2>4. stage' \in [Turns -> Open \cup {"committed", "raised"}]
    BY DEF DeleteBeyondLimit, StoreTypes, Open
  <2> QED
    BY <1>1, <2>3, <2>4 DEF StoreTypes
<1>4. LockIsHeld'
  BY <1>1 DEF LockIsHeld, Locked
<1>5. WrittenSoFar'
  BY <1>1 DEF WrittenSoFar, Written, RowOf
<1>6. IdsAreTheirOwn'
  BY <1>1 DEF IdsAreTheirOwn
<1>7. LockOrders'
  BY <1>1 DEF LockOrders, Locked
<1>8. DeleteIsCurrent'
  <2> HIDE DEF IInv
  <2>1. \A u \in Turns : InScope(table, ScopeOf[u])' = InScope(table, ScopeOf[u])
    BY <1>1 DEF InScope
  <2> QED
    BY <1>1, <1>2, <2>1 DEF DeleteIsCurrent, IInv
<1>9. RetentionHolds'
  BY <1>1, <1>3, NothingCommitted DEF StoreTypes
<1> QED
  BY <1>3, <1>4, <1>5, <1>6, <1>7, <1>8, <1>9

LEMMA RollbackInvariant == ASSUME IInv, NEW t \in Turns, Rollback(t) PROVE IInv'
<1> USE DEF IInv
<1>1. /\ stage[t] \in Open /\ stage'[t] = "raised" /\ written'[t] = {} /\ doomed'[t] = {}
      /\ \A u \in Turns \ {t} : /\ stage'[u] = stage[u]
                              /\ written'[u] = written[u] /\ doomed'[u] = doomed[u]
      /\ holder' = [s \in Scopes |-> IF holder[s] = t THEN "none" ELSE holder[s]]
      /\ table' = table /\ nextId' = nextId
  BY DEF Rollback, Release, StoreTypes
<1>2. StoreTypes'
  BY <1>1 DEF Rollback, StoreTypes, Open
<1>3. LockIsHeld'
  <2>1. \A u \in Turns : stage'[u] \in Locked <=> holder'[ScopeOf[u]] = u
    BY <1>1, ScopeOfAssumption, TurnsAssumption DEF LockIsHeld, Locked
  <2>2. \A s \in Scopes : holder'[s] # "none" => ScopeOf[holder'[s]] = s
    BY <1>1 DEF LockIsHeld
  <2> QED
    BY <2>1, <2>2 DEF LockIsHeld
<1>4. WrittenSoFar'
  BY <1>1 DEF WrittenSoFar, Written, RowOf
<1>5. IdsAreTheirOwn'
  BY <1>1 DEF IdsAreTheirOwn
<1>6. LockOrders'
  BY <1>1 DEF LockOrders, Locked
<1>7. DeleteIsCurrent'
  BY <1>1 DEF DeleteIsCurrent
<1>8. RetentionHolds'
  <2>1. \A u \in Turns : stage'[u] = "committed" <=> stage[u] = "committed"
    BY <1>1 DEF Open
  <2>2. \A u \in Turns : stage[u] = "committed" => written'[u] = written[u]
    BY <1>1 DEF Open
  <2> QED
    BY <1>1, <1>2, <2>1, <2>2, NothingCommitted DEF StoreTypes
<1> QED
  BY <1>2, <1>3, <1>4, <1>5, <1>6, <1>7, <1>8

(* What the table holds of a scope is a set of rows with their own ids.    *)
LEMMA ScopeIsRowSet ==
    ASSUME IInv, NEW s \in Scopes
    PROVE  /\ RowSet(InScope(table, s)) /\ KeepsNewest(InScope(table, s), Saved(s))
           /\ Cardinality(InScope(table, s)) <= MaxMessages
<1> USE DEF IInv
<1> DEFINE K == InScope(table, s)
<1>1. K \in SUBSET table /\ K \subseteq Rows
  BY DEF InScope, StoreTypes
<1>2. IsFiniteSet(K)
  BY <1>1, FS_Subset DEF StoreTypes
<1>3. KeepsNewest(K, Saved(s))
  BY RetentionIs DEF StoreTypes
<1>4. \A r \in K : \E u \in Turns : r \in written[u]
  BY <1>3 DEF KeepsNewest, Saved
<1>5. \A r, q \in K : r.id = q.id => r = q
  BY <1>4 DEF IdsAreTheirOwn
<1> QED
  BY <1>1, <1>2, <1>3, <1>5 DEF RowSet, KeepsNewest

(* What a commit does: in the scope of its turn the two rows are added and *)
(* what exceeds the limit goes; the other scopes stay as they were.        *)
LEMMA WhatCommits ==
    ASSUME IInv, NEW t \in Turns, Commit(t)
    PROVE  \E a, b \in Rows :
             /\ written[t] = {a, b} /\ a.id < b.id
             /\ a.turn = t /\ b.turn = t /\ a.role = "user" /\ b.role = "assistant"
             /\ a.context = ContextOf[t] /\ b.context = ContextOf[t]
             /\ \A q \in Saved(ScopeOf[t]) : q.id < a.id /\ q.id < b.id
             /\ LET S == InScope(table, ScopeOf[t]) \cup {a, b}
                IN  InScope(table', ScopeOf[t]) = S \ Beyond(S)
             /\ \A s \in Scopes \ {ScopeOf[t]} : InScope(table', s) = InScope(table, s)
<1> USE DEF IInv
<1>1. stage[t] = "trimmed" /\ table' = (table \cup written[t]) \ doomed[t]
  BY DEF Commit
<1>2. PICK i, j \in 1..(nextId - 1) :
         i < j /\ written[t] = {RowOf(t, i, "user"), RowOf(t, j, "assistant")}
  BY <1>1 DEF WrittenSoFar, Written
<1> DEFINE a == RowOf(t, i, "user")
           b == RowOf(t, j, "assistant")
           S == InScope(table, ScopeOf[t]) \cup {a, b}
<1>3. /\ a.id < b.id /\ a.scope = ScopeOf[t] /\ b.scope = ScopeOf[t]
      /\ a.turn = t /\ b.turn = t /\ a.role = "user" /\ b.role = "assistant"
      /\ a.context = ContextOf[t] /\ b.context = ContextOf[t]
  BY <1>2 DEF RowOf
<1>4. a \in Rows /\ b \in Rows /\ written[t] = {a, b}
  <2>1. written[t] \subseteq Rows
    BY DEF StoreTypes
  <2> QED
    BY <1>2, <2>1
<1> HIDE DEF a, b
<1>5. \A q \in Saved(ScopeOf[t]) : q.id < a.id /\ q.id < b.id
  BY <1>1, <1>4 DEF Saved, LockOrders, Locked
<1>6. doomed[t] = Beyond(S)
  BY <1>1, <1>4 DEF DeleteIsCurrent
<1>7. Beyond(S) \subseteq S
  BY DEF Beyond
<1>8. InScope(table', ScopeOf[t]) = S \ Beyond(S)
  BY <1>1, <1>3, <1>4, <1>6 DEF InScope
<1>9. \A s \in Scopes \ {ScopeOf[t]} : InScope(table', s) = InScope(table, s)
  <2>1. \A r \in S : r.scope = ScopeOf[t]
    BY <1>3 DEF InScope
  <2>2. \A r \in doomed[t] \cup written[t] : r.scope = ScopeOf[t]
    BY <1>3, <1>4, <1>6, <1>7, <2>1
  <2> HIDE DEF S
  <2> QED
    BY <1>1, <2>2 DEF InScope
<1> QED
  BY <1>3, <1>4, <1>5, <1>8, <1>9

(* Adding two newer rows and deleting what exceeds the limit keeps the     *)
(* newest of what has been saved.                                          *)
LEMMA TransactionKeepsNewest ==
    ASSUME NEW K, NEW saved, RowSet(K), saved \subseteq Rows, KeepsNewest(K, saved),
           NEW a \in Rows, NEW b \in Rows, a.id < b.id,
           \A q \in saved : q.id < a.id /\ q.id < b.id
    PROVE  LET S == K \cup {a, b} IN KeepsNewest(S \ Beyond(S), saved \cup {a, b})
<1> DEFINE S == K \cup {a, b}
           n == Cardinality(S)
           excess == IF n > MaxMessages THEN n - MaxMessages ELSE 0
           T == S \ Beyond(S)
           now == saved \cup {a, b}
<1> USE DEF KeepsNewest
<1>1. RowSet(S) /\ n = Cardinality(K) + 2
  BY TwoMore
<1>2. Cardinality(K) \in Nat /\ MaxMessages \in Nat /\ n \in Nat
  BY <1>1, FS_CardinalityType, LimitAssumption DEF RowSet
<1> HIDE DEF S
<1>3. /\ Cardinality(T) = n - excess
      /\ \A r \in T, q \in Beyond(S) : q.id < r.id
  BY <1>1, KeptProperties
<1>4. Cardinality(Beyond(S)) = excess /\ IsFiniteSet(Beyond(S)) /\ Beyond(S) \subseteq S
  BY <1>1, BeyondProperties DEF Beyond
<1>5. T \subseteq now
  BY DEF S
<1>6. Cardinality(T) <= MaxMessages
  <2> HIDE DEF n
  <2> QED
    BY <1>2, <1>3
<1>7. T # now => Cardinality(T) = MaxMessages
  <2>1. CASE n > MaxMessages
    <3> HIDE DEF n
    <3> QED
      BY <1>2, <1>3, <2>1
  <2>2. CASE ~(n > MaxMessages)
    <3>1. Beyond(S) = {}
      BY <1>4, <2>2, FS_EmptySet
    <3>2. Cardinality(K) # MaxMessages
      <4> HIDE DEF n
      <4> QED
        BY <1>1, <1>2, <2>2
    <3>3. K = saved
      BY <3>2
    <3> QED
      BY <3>1, <3>3 DEF S
  <2> QED
    BY <2>1, <2>2
<1>8. ASSUME NEW r \in T, NEW gone \in now \ T PROVE gone.id < r.id
  <2>1. CASE gone \in S
    BY <1>3, <2>1
  <2>2. CASE gone \in saved \ K
    BY <2>2 DEF S
  <2> QED
    BY <2>1, <2>2 DEF S
<1> QED
  BY <1>5, <1>6, <1>7, <1>8 DEF S

LEMMA CommitInvariant == ASSUME IInv, NEW t \in Turns, Commit(t) PROVE IInv'
<1> USE DEF IInv
<1>1. /\ stage[t] = "trimmed" /\ stage'[t] = "committed"
      /\ \A u \in Turns \ {t} : stage'[u] = stage[u]
      /\ holder' = [s \in Scopes |-> IF holder[s] = t THEN "none" ELSE holder[s]]
      /\ table' = (table \cup written[t]) \ doomed[t]
      /\ nextId' = nextId /\ written' = written /\ doomed' = doomed
  BY DEF Commit, Release, StoreTypes
<1>2. PICK a, b \in Rows :
             /\ written[t] = {a, b} /\ a.id < b.id
             /\ \A q \in Saved(ScopeOf[t]) : q.id < a.id /\ q.id < b.id
             /\ LET S == InScope(table, ScopeOf[t]) \cup {a, b}
                IN  InScope(table', ScopeOf[t]) = S \ Beyond(S)
             /\ \A s \in Scopes \ {ScopeOf[t]} : InScope(table', s) = InScope(table, s)
  BY WhatCommits
<1>3. StoreTypes'
  <2>1. IsFiniteSet(table \cup {a, b})
    <3>1. IsFiniteSet(table \cup {a})
      BY FS_AddElement DEF StoreTypes
    <3>2. IsFiniteSet((table \cup {a}) \cup {b})
      BY <3>1, FS_AddElement
    <3>3. (table \cup {a}) \cup {b} = table \cup {a, b}
      OBVIOUS
    <3> QED
      BY <3>2, <3>3
  <2>2. IsFiniteSet(table')
    BY <1>1, <1>2, <2>1, FS_Subset, table' \in SUBSET (table \cup {a, b})
  <2>3. table' \in SUBSET Rows
    BY <1>1 DEF StoreTypes
  <2>4. stage' \in [Turns -> Open \cup {"committed", "raised"}]
    BY DEF Commit, StoreTypes
  <2>5. holder' \in [Scopes -> Turns \cup {"none"}]
    BY <1>1 DEF StoreTypes
  <2> QED
    BY <1>1, <2>2, <2>3, <2>4, <2>5 DEF StoreTypes
<1>4. LockIsHeld'
  <2>1. \A u \in Turns : stage'[u] \in Locked <=> holder'[ScopeOf[u]] = u
    BY <1>1, ScopeOfAssumption, TurnsAssumption DEF LockIsHeld, Locked
  <2>2. \A s \in Scopes : holder'[s] # "none" => ScopeOf[holder'[s]] = s
    BY <1>1 DEF LockIsHeld
  <2> QED
    BY <2>1, <2>2 DEF LockIsHeld
<1>5. WrittenSoFar'
  BY <1>1 DEF WrittenSoFar, Written, RowOf
<1>6. IdsAreTheirOwn'
  BY <1>1 DEF IdsAreTheirOwn
<1>7. \A u \in Turns : stage'[u] \in Locked => u # t /\ stage[u] \in Locked /\ ScopeOf[u] # ScopeOf[t]
  BY <1>1 DEF LockIsHeld, Locked
<1>8. LockOrders'
  <2> SUFFICES ASSUME NEW u \in Turns, NEW v \in Turns, stage'[u] \in Locked,
                      stage'[v] = "committed", ScopeOf[v] = ScopeOf[u],
                      NEW r \in written[u], NEW q \in written[v]
               PROVE  q.id < r.id
    BY <1>1 DEF LockOrders
  <2>1. v # t /\ stage[v] = "committed" /\ stage[u] \in Locked
    BY <1>1, <1>7
  <2> QED
    BY <2>1 DEF LockOrders
<1>9. DeleteIsCurrent'
  <2> SUFFICES ASSUME NEW u \in Turns
               PROVE  /\ stage'[u] \in {"called", "locked", "user_row", "both_rows"}
                            => doomed[u] = {}
                      /\ stage'[u] = "trimmed"
                            => doomed[u] = Beyond(InScope(table', ScopeOf[u]) \cup written[u])
    BY <1>1 DEF DeleteIsCurrent
  <2>1. ASSUME stage'[u] \in {"called", "locked", "user_row", "both_rows"} PROVE doomed[u] = {}
    BY <1>1, <2>1 DEF DeleteIsCurrent
  <2>2. ASSUME stage'[u] = "trimmed"
        PROVE  doomed[u] = Beyond(InScope(table', ScopeOf[u]) \cup written[u])
    <3>1. ScopeOf[u] # ScopeOf[t] /\ stage[u] = "trimmed"
      BY <1>1, <1>7, <2>2 DEF Locked
    <3>2. InScope(table', ScopeOf[u]) = InScope(table, ScopeOf[u])
      BY <1>2, <3>1, ScopeOfAssumption
    <3>3. doomed[u] = Beyond(InScope(table, ScopeOf[u]) \cup written[u])
      BY <3>1 DEF DeleteIsCurrent
    <3> QED
      BY <3>2, <3>3
  <2> QED
    BY <2>1, <2>2
<1>10. RetentionHolds'
  <2>1. ASSUME NEW s \in Scopes
        PROVE  Saved(s)' = IF s = ScopeOf[t] THEN Saved(s) \cup {a, b} ELSE Saved(s)
    BY <1>1, <1>2 DEF Saved
  <2>2. ASSUME NEW s \in Scopes PROVE KeepsNewest(InScope(table', s), Saved(s)')
    <3>1. CASE s = ScopeOf[t]
      <4>1. RowSet(InScope(table, s)) /\ KeepsNewest(InScope(table, s), Saved(s))
        BY ScopeIsRowSet
      <4>2. Saved(s) \subseteq Rows
        BY DEF Saved
      <4>3. LET S == InScope(table, s) \cup {a, b}
            IN  KeepsNewest(S \ Beyond(S), Saved(s) \cup {a, b})
        BY <1>2, <3>1, <4>1, <4>2, TransactionKeepsNewest
      <4> QED
        BY <1>2, <2>1, <3>1, <4>3
    <3>2. CASE s # ScopeOf[t]
      <4>1. InScope(table', s) = InScope(table, s) /\ Saved(s)' = Saved(s)
        BY <1>2, <2>1, <3>2
      <4> QED
        BY <4>1, ScopeIsRowSet
    <3> QED
      BY <3>1, <3>2
  <2>3. RetentionHolds' <=> \A s \in Scopes : KeepsNewest(InScope(table', s), Saved(s)')
    <3>1. ASSUME NEW s \in Scopes
          PROVE  Saved(s)' = UNION {written'[u] : u \in {v \in Turns : stage'[v] = "committed"
                                                                 /\ ScopeOf[v] = s}}
      BY <1>3 DEF Saved, StoreTypes
    <3> QED
      BY <3>1 DEF RetentionHolds, KeepsNewest
  <2> QED
    BY <2>2, <2>3
<1> QED
  BY <1>3, <1>4, <1>5, <1>6, <1>8, <1>9, <1>10

LEMMA StutterInvariant == ASSUME IInv, UNCHANGED vars PROVE IInv'
<1> USE DEF IInv, vars
<1>1. StoreTypes'
  BY DEF StoreTypes
<1>2. LockIsHeld' /\ WrittenSoFar' /\ IdsAreTheirOwn' /\ LockOrders'
  BY DEF LockIsHeld, WrittenSoFar, IdsAreTheirOwn, LockOrders, RowOf
<1>3. DeleteIsCurrent'
  BY DEF DeleteIsCurrent, InScope, Beyond
<1>4. RetentionHolds'
  BY <1>1, NothingCommitted DEF StoreTypes
<1> QED
  BY <1>1, <1>2, <1>3, <1>4

LEMMA NextInvariant == IInv /\ [Next]_vars => IInv'
<1> SUFFICES ASSUME IInv, [Next]_vars PROVE IInv'
  OBVIOUS
<1>1. CASE UNCHANGED vars
  BY <1>1, StutterInvariant
<1>2. ASSUME NEW t \in Turns, Proceed(t) PROVE IInv'
  BY <1>2, AcquireLockInvariant, InsertInvariant, DeleteInvariant, CommitInvariant DEF Proceed
<1>3. ASSUME NEW t \in Turns, Rollback(t) PROVE IInv'
  BY <1>3, RollbackInvariant
<1> QED
  BY <1>1, <1>2, <1>3 DEF Next

(* The inductive invariant holds whatever the interleaving, with any       *)
(* number of turns, of which any may fail (save_turn's transactions).      *)
THEOREM StoreInvariant == Spec => []IInv
BY InitInvariant, NextInvariant, PTL DEF Spec

(* However many turns of a scope save at once, and whichever of them fail, *)
(* the table holds the newest committed messages of the scope, as many as  *)
(* the limit allows: the DELETE of save_turn under its advisory lock.      *)
THEOREM RetentionIsKept == Spec => []RetentionHolds
<1>1. IInv => RetentionHolds
  BY DEF IInv
<1> QED
  BY <1>1, StoreInvariant, PTL
-----------------------------------------------------------------------------
(* Refinement: what `load` returns changes only by whole turns.            *)

LEMMA InitMaps == Init => Abstract!MemoryInit
<1> SUFFICES ASSUME Init PROVE Abstract!MemoryInit
  OBVIOUS
<1>1. \A s : InScope(table, s) = {}
  BY DEF Init, InScope
<1>2. RowSet({}) /\ Cardinality({}) <= MaxMessages /\ Cardinality({}) = 0
  BY FS_EmptySet, LimitAssumption DEF RowSet
<1>3. ReadBack({}) = [messages |-> MessagesOf({}), context |-> ContextIn({})]
  BY <1>2, WithinLimit
<1>4. MessagesOf({}) = <<>>
  BY <1>2, MessagesProperties, EmptySeq
<1>5. ContextIn({}) = NoContext
  BY DEF ContextIn
<1>6. \A s : Load(s) = [messages |-> <<>>, context |-> NoContext]
  BY <1>1, <1>3, <1>4, <1>5, LoadReadsBack
<1> QED
  BY <1>6 DEF Abstract!MemoryInit

(* A commit is the abstract SaveTurn of its turn.                          *)
LEMMA CommitMaps ==
    ASSUME IInv, NEW t \in Turns, Commit(t)
    PROVE  Abstract!SaveTurn(ScopeOf[t], t, ContextOf[t])
<1> DEFINE c == ScopeOf[t]
           K == InScope(table, c)
<1>1. PICK a, b \in Rows :
             /\ written[t] = {a, b} /\ a.id < b.id
             /\ a.turn = t /\ b.turn = t /\ a.role = "user" /\ b.role = "assistant"
             /\ a.context = ContextOf[t] /\ b.context = ContextOf[t]
             /\ \A q \in Saved(c) : q.id < a.id /\ q.id < b.id
             /\ LET S == K \cup {a, b} IN InScope(table', c) = S \ Beyond(S)
             /\ \A s \in Scopes \ {c} : InScope(table', s) = InScope(table, s)
  BY WhatCommits
<1> DEFINE T == (K \cup {a, b}) \ Beyond(K \cup {a, b})
<1>2. c \in Scopes
  BY ScopeOfAssumption
<1>3. RowSet(K) /\ Cardinality(K) <= MaxMessages /\ \A r \in K : r.id < a.id
  BY <1>1, <1>2, ScopeIsRowSet DEF KeepsNewest
<1>4. Load(c) = [messages |-> MessagesOf(K), context |-> ContextIn(K)]
  BY <1>3, WithinLimit, LoadReadsBack
<1>5. /\ MessagesOf(T) = Abstract!Newest(MessagesOf(K) \o Abstract!TurnMessages(t))
      /\ ContextIn(T) = ContextOf[t]
  BY <1>1, <1>3, TransactionIsSave
<1>6. RowSet(T) /\ Cardinality(T) <= MaxMessages
  <2>1. InScope(table', c) = T
    BY <1>1
  <2>2. IInv'
    BY CommitInvariant
  <2>3. RowSet(InScope(table', c)) /\ Cardinality(InScope(table', c)) <= MaxMessages
    <3>1. RowSet(K \cup {a, b})
      BY <1>1, <1>3, TwoMore
    <3>2. RowSet(T)
      BY <3>1, KeptProperties
    <3>3. Cardinality(InScope(table', c)) <= MaxMessages
      BY <1>2, <2>2 DEF IInv, RetentionHolds
    <3> QED
      BY <2>1, <3>2, <3>3
  <2> QED
    BY <2>1, <2>3
<1> HIDE DEF T
<1>7. Load(c)' = [messages |-> MessagesOf(T), context |-> ContextIn(T)]
  <2>1. Load(c)' = ReadBack(InScope(table', c))
    BY DEF Load, LoadRows, Sorted, ReadBack
  <2>2. InScope(table', c) = T
    BY <1>1 DEF T
  <2> QED
    BY <1>6, <2>1, <2>2, WithinLimit
<1>8. \A s \in Scopes \ {c} : Load(s)' = Load(s)
  <2>1. \A s : Load(s)' = ReadBack(InScope(table', s))
    BY DEF Load, LoadRows, Sorted, ReadBack
  <2> QED
    BY <1>1, <2>1, LoadReadsBack
<1> DEFINE saved == [messages |-> Abstract!Newest(MessagesOf(K) \o Abstract!TurnMessages(t)),
                     context  |-> ContextOf[t]]
<1>9. Load(c)' = saved
  BY <1>5, <1>7
<1>10. saved = [messages |-> Abstract!Newest(Load(c).messages \o Abstract!TurnMessages(t)),
                context  |-> ContextOf[t]]
  BY <1>4
<1> HIDE DEF saved
<1>11. [s \in Scopes |-> Load(s)'] = [[s \in Scopes |-> Load(s)] EXCEPT ![c] = saved]
  BY <1>2, <1>8, <1>9
<1> QED
  BY <1>2, <1>10, <1>11 DEF Abstract!SaveTurn

LEMMA NextMaps ==
    ASSUME IInv, [Next]_vars
    PROVE  [Abstract!MemoryNext]_([s \in Scopes |-> Load(s)])
<1>1. ASSUME NEW t \in Turns, Commit(t) PROVE Abstract!MemoryNext
  <2>1. ScopeOf[t] \in Scopes /\ ContextOf[t] \in Contexts
    BY ScopeOfAssumption, ContextOfAssumption
  <2>2. Abstract!SaveTurn(ScopeOf[t], t, ContextOf[t])
    BY <1>1, CommitMaps
  <2> QED
    BY <2>1, <2>2 DEF Abstract!MemoryNext
<1>2. ASSUME table' = table PROVE [s \in Scopes |-> Load(s)]' = [s \in Scopes |-> Load(s)]
  <2>1. \A s : Load(s)' = ReadBack(InScope(table', s))
    BY DEF Load, LoadRows, Sorted, ReadBack
  <2>2. \A s : Load(s)' = Load(s)
    BY <1>2, <2>1, LoadReadsBack
  <2> QED
    BY <2>2
<1>3. table' = table \/ \E t \in Turns : Commit(t)
  BY DEF Next, Proceed, AcquireLock, InsertUser, InsertAssistant, InsertRow,
         DeleteBeyondLimit, Rollback, vars
<1> QED
  BY <1>1, <1>2, <1>3

(* The SQL store implements the abstract memory: for a reader, every       *)
(* commit is one SaveTurn (append the turn, keep the newest, replace the   *)
(* context) and every other statement changes nothing `load` returns.      *)
THEOREM StoreImplementsMemory == Spec => ImplementsMemory
<1>1. Init => Abstract!MemoryInit
  BY InitMaps
<1>2. IInv /\ [Next]_vars => [Abstract!MemoryNext]_([s \in Scopes |-> Load(s)])
  BY NextMaps
<1> QED
  BY <1>1, <1>2, StoreInvariant, PTL DEF Spec, ImplementsMemory, Abstract!MemorySpec
=============================================================================
