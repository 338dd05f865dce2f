------------------------------ MODULE Sublists ------------------------------
(***************************************************************************)
(* Lists that are filtered, freed of duplicates, sorted: what the code     *)
(* does with comprehensions, sets of seen ids and sorted().                *)
(***************************************************************************)
EXTENDS Naturals, SequencesExt

\* The elements of s at the positions in I, in their order.
Sublist(s, I) ==
    LET upTo[k \in 0 .. Len(s)] ==
            IF k = 0 THEN <<>>
            ELSE IF k \in I THEN Append(upTo[k - 1], s[k]) ELSE upTo[k - 1]
    IN  upTo[Len(s)]

\* Of the elements of s with the same id, the first; ids[k] is the id of s[k].
OnceEach(s, ids) == Sublist(s, {k \in DOMAIN s : \A j \in 1 .. k - 1 : ids[j] # ids[k]})

\* sorted(s, key=..., reverse=True), which is stable; keys[k] is the key of s[k].
SortedByKey(s, keys) ==
    LET before(i, j) == keys[i] > keys[j] \/ (keys[i] = keys[j] /\ i < j)
        place(k) == Cardinality({j \in DOMAIN s : before(j, k)}) + 1
    IN  [n \in DOMAIN s |-> s[CHOOSE k \in DOMAIN s : place(k) = n]]
=============================================================================
