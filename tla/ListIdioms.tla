----------------------------- MODULE ListIdioms -----------------------------
(***************************************************************************)
(* Two list idioms of the orchestration code: dict.fromkeys (keep first    *)
(* occurrences) and a list comprehension with a filter.  Both return the   *)
(* elements of a sequence at a chosen set of positions, in order; written  *)
(* without recursion so that proofs can use them.                          *)
(***************************************************************************)
EXTENDS Integers, Sequences, FiniteSets, Functions

\* How many of the positions I are at or before position i.
Rank(I, i) == Cardinality({j \in I : j <= i})

\* The elements of s at the positions I, in their order.
Keep(s, I) ==
    [k \in 1..Cardinality(I) |-> s[CHOOSE i \in I : Rank(I, i) = k]]

\* Mutant of FirstOccurrences: list(s), duplicates kept.
EveryOccurrence(s) == DOMAIN s

FirstOccurrences(s) == {i \in DOMAIN s : \A j \in DOMAIN s : s[j] = s[i] => i <= j}

\* list(dict.fromkeys(s))
Unique(s) == Keep(s, FirstOccurrences(s))

\* [x for x in s if x not in excluded]
Without(s, excluded) == Keep(s, {i \in DOMAIN s : s[i] \notin excluded})
=============================================================================
