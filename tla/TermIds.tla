------------------------------- MODULE TermIds -------------------------------
(***************************************************************************)
(* What a dictionary of the token server promises to its clients.          *)
(*                                                                         *)
(* A dictionary maps words to numeric ids.  A word that was given an id    *)
(* keeps it, no two words share one, and the ids in use are 0, 1, 2, ...   *)
(* without a hole, so that the number of words is also the next free id    *)
(* (update_dict relies on it: tokenize.c:502).  The words one request adds *)
(* become visible together.                                                *)
(***************************************************************************)
EXTENDS Integers, FiniteSets

CONSTANT Word            \* the words documents are made of

NoId == -1               \* "not in the dictionary" (unk_id, tokenize.c:138)

VARIABLE vocab           \* vocab[w] is the id of w, NoId while w has none

Known == {w \in Word : vocab[w] # NoId}

Init == vocab = [w \in Word |-> NoId]

(***************************************************************************)
(* One request's new words enter the vocabulary at once, with the ids that *)
(* follow the ones in use, in some order.                                  *)
(***************************************************************************)
AddBatch(S) ==
    LET n == Cardinality(Known)
    IN  \E order \in [S -> n .. n + Cardinality(S) - 1] :
            /\ \A v, w \in S : order[v] = order[w] => v = w
            /\ vocab' = [w \in Word |-> IF w \in S THEN order[w] ELSE vocab[w]]

Next == \E S \in (SUBSET (Word \ Known)) \ {{}} : AddBatch(S)

Spec == Init /\ [][Next]_vocab
==============================================================================
