------------------------------- MODULE Lists -------------------------------
(***************************************************************************)
(* What the modules of the data path use of Python: None, sorted, max, the *)
(* order of tuples, comprehensions with a condition, and the loop that     *)
(* keeps a seen set.                                                       *)
(***************************************************************************)
EXTENDS Integers, SequencesExt

CONSTANT None

\* Tuples of numbers are compared at the first place where they differ.
Precedes(a, b) ==
    \E i \in DOMAIN a : a[i] < b[i] /\ \A j \in 1..(i - 1) : a[j] = b[j]

\* sorted is stable: elements of which neither is before the other keep their order.
Sorted(s, key) ==
    LET Earlier(j, k) == Precedes(key[j], key[k]) \/ (j < k /\ ~Precedes(key[k], key[j]))
        place == [k \in DOMAIN s |-> 1 + Cardinality({j \in DOMAIN s : Earlier(j, k)})]
    IN [i \in DOMAIN s |-> s[CHOOSE k \in DOMAIN s : place[k] = i]]

SortedBy(s, Key(_)) == Sorted(s, [k \in DOMAIN s |-> Key(s[k])])

\* The elements of a finite set in an order: the k-th has k - 1 before it.
Arranged(S, Before(_, _)) ==
    [k \in 1..Cardinality(S) |->
        CHOOSE x \in S : Cardinality({y \in S : Before(y, x)}) = k - 1]

Ascending(numbers) == Arranged(numbers, <)

\* What stands at some places of a list, in the order of the list.
Chosen(s, places) ==
    LET order == Ascending(places)
    IN [k \in DOMAIN order |-> s[order[k]]]

Filter(s, Keep(_)) == Chosen(s, {k \in DOMAIN s : Keep(s[k])})

\* The first element with each key.
FirstOfEach(s, Key(_)) ==
    Chosen(s, {k \in DOMAIN s : \A j \in 1..(k - 1) : Key(s[j]) # Key(s[k])})

\* max returns the first of the greatest.
Best(s, Better(_, _)) ==
    s[CHOOSE k \in DOMAIN s :
        /\ \A j \in DOMAIN s : ~Better(s[j], s[k])
        /\ \A j \in 1..(k - 1) : Better(s[k], s[j])]
=============================================================================
