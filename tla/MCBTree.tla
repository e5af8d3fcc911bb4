------------------------------- MODULE MCBTree -------------------------------
(* BTree on trees that have a full leaf, a full inner root and underfull leaves. *)
EXTENDS BTree, TLC

\* A root that is a full leaf; a full root above full and underfull leaves.
OneLeaf == <<{1, 2, 5}>>
FullRoot == <<{1}, {2, 3, 5}, {6}, {7, 8, 10}>>

Both == {OneLeaf, FullRoot}
Full == {FullRoot}

CONSTANTS t1, t2, t3

\* Two threads call anything, or make two inserts; or one inserts, one merges and one reads.
None == <<"none", 0>>
AnyCall == {<<"lookup", 3>>, <<"update", 6>>, <<"insert", 4>>, <<"remove", 1>>,
            <<"remove", 6>>, <<"remove", 4>>, <<"asc", 1>>, <<"desc", 6>>}
Reads == {<<"lookup", 3>>, <<"asc", 1>>}
PlansOfTwo == [{t1, t2} -> AnyCall]
TwoOrThree == {[t \in Threads |-> IF t = t3 THEN None ELSE p[t]] : p \in PlansOfTwo}
                \cup {t1 :> <<"insert", 4>> @@ t2 :> <<"insert", 9>> @@ t3 :> None}
                \cup {t1 :> <<"insert", 4>> @@ t2 :> <<"remove", 1>> @@ t3 :> r : r \in Reads}
InsertAndMerge == {t1 :> <<"insert", 4>> @@ t2 :> <<"remove", 1>>}

Symmetry == Permutations({t1, t2})
==============================================================================
