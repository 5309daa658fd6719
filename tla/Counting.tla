------------------------------- MODULE Counting ------------------------------
(***************************************************************************)
(* The hash tables that count: termify's from terms, tokenize_quartfreq_   *)
(* new's from ids.  A table is a function on the keys it holds.            *)
(***************************************************************************)
EXTENDS Integers, FiniteSets

Empty == [x \in {} |-> 0]

\* hash_Exists, hash_Get and hash_Put: one more of the key.
CountIn(table, key) ==
    [x \in DOMAIN table \cup {key} |->
        IF x # key THEN table[x]
        ELSE IF key \in DOMAIN table THEN table[key] + 1 ELSE 1]

\* What the entries a .. b-1 of a list count to.
Counts(list, a, b) ==
    [x \in {list[p] : p \in a .. b - 1} |->
        Cardinality({p \in a .. b - 1 : list[p] = x})]
==============================================================================
