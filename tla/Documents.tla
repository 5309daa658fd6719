------------------------------ MODULE Documents ------------------------------
(***************************************************************************)
(* One "quartfreq" request after another, from the text to the answer:     *)
(* termify splits the text (Termify), idterms and update_dict give each    *)
(* token an id, and the ids are counted by quarters (Quarters).            *)
(* What concurrent requests do to the ids is Vocabulary's: here the words  *)
(* that idterms finds have some ids, and the others get any later ones.    *)
(***************************************************************************)
EXTENDS Termify, Quarters

CONSTANT MaxSize                \* bound: the ids given when idterms looks

ASSUME LengthAssumption  == \A t \in Texts : Len(t) <= MaxTokens
ASSUME MaxSizeAssumption == MaxSize \in 0 .. MaxId

docvars == <<tvars, qvars>>

Injections(S, T) == {f \in [S -> T] : \A v, w \in S : f[v] = f[w] => v = w}

\* idterms numbers the unknown words from the size it has read.
Provisional(S, n) == Injections(S, n .. n + Cardinality(S) - 1)

\* tokenize_idlist_known: one id per token, of a known word or of another.
Ids(k, other) ==
    [j \in 0 .. Len(term_list) - 1 |->
        LET w == term_list[j + 1] IN IF w \in DOMAIN k THEN k[w] ELSE other[w]]

\* Without an update the other words have no id.
LookedUp(k, new) ==
    LET answer == Ids(k, [w \in new |-> Unknown])
    IN  Start(Len(term_list), answer, Empty, answer)

\* update_dict makes the table from the provisional to the real ids.
Updated(k, p, r) ==
    Start(Len(term_list), Ids(k, p),
          [x \in {p[w] : w \in DOMAIN p} |-> r[CHOOSE w \in DOMAIN p : p[w] = x]],
          Ids(k, r))

\* A write failed: there is no table, and the provisional ids are counted for an
\* answer that is a fault.
UpdateFailed(k, p) ==
    /\ DOMAIN p # {}
    /\ Start(Len(term_list), Ids(k, p), Empty, Empty)

\* The known words have ids below m, and later words do not.  The size was read
\* before, and may be smaller, or count a heartbeat's test word; that provisional
\* ids go up to MaxId is a bound.
HandOver(known, new, m) ==
    \E k \in Injections(known, 0 .. m - 1) :
        \/ LookedUp(k, new)
        \/ \E n \in 0 .. m + 1 :
               /\ n + Cardinality(new) <= MaxId + 1
               /\ \E p \in Provisional(new, n) :
                      \/ \E r \in Injections(new, m .. MaxId) : Updated(k, p, r)
                      \/ UpdateFailed(k, p)

Translate ==
    /\ tpc \in {"end", "error"}
    /\ LET T == {term_list[k] : k \in DOMAIN term_list}
       IN  \E known \in SUBSET T, m \in 0 .. MaxSize : HandOver(known, T \ known, m)
    /\ UNCHANGED tvars

\* The answer ends the request; the server takes the next one.
Reply ==
    /\ tpc \in {"end", "error"}
    /\ Answer
    /\ tpc' = "idle"
    /\ text' = << >> /\ pos' = 0
    /\ term_list' = << >> /\ term_hash' = Empty
    /\ UNCHANGED <<dictionary, stemmer>>

DocInit == TermifyInit /\ Init

DocNext ==
    \/ \E s \in Setups : Create(s) /\ UNCHANGED qvars
    \/ Load /\ UNCHANGED qvars
    \/ \E t \in Texts : Begin(t) /\ UNCHANGED qvars
    \/ Scan /\ UNCHANGED qvars
    \/ Translate
    \/ Split /\ UNCHANGED tvars
    \/ Reply

DocSpec == DocInit /\ [][DocNext]_docvars

\* The thread of the request runs.
DocFairSpec == DocSpec /\ WF_docvars(Scan /\ UNCHANGED qvars)
                       /\ WF_docvars(Translate)
                       /\ WF_docvars(Split /\ UNCHANGED tvars)
                       /\ WF_docvars(Reply)
==============================================================================
