---------------------------- MODULE EventsMultiMap ----------------------------
(***************************************************************************)
(* The std::multimap in which both events sets keep the events of one      *)
(* destination: a sequence of events, ordered by the function key.         *)
(***************************************************************************)
EXTENDS Integers, Sequences

\* Mutant: the new event always goes to the end.
UpperBoundAtEnd(s, key, x) == Len(s) + 1

\* The position behind every event whose key is at most x: where insert puts
\* an event with key x.
UpperBound(s, key, x) ==
    CHOOSE i \in 1..Len(s) + 1 :
        /\ \A j \in 1..i - 1 : key[s[j]] <= x
        /\ i <= Len(s) => key[s[i]] > x

InsertAtPosition(s, i, e) ==
    [j \in 1..Len(s) + 1 |->
        IF j < i THEN s[j] ELSE IF j = i THEN e ELSE s[j - 1]]

\* Mutant: erase takes out the last event.
EraseLast(s, i) == [j \in 1..Len(s) - 1 |-> s[j]]

EraseAtPosition(s, i) ==
    [j \in 1..Len(s) - 1 |-> IF j < i THEN s[j] ELSE s[j + 1]]

IsIn(e, s) == \E i \in 1..Len(s) : s[i] = e

PositionOf(e, s) == CHOOSE i \in 1..Len(s) : s[i] = e
=============================================================================
