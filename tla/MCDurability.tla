---------------------------- MODULE MCDurability -----------------------------
\* Instances of Durability for TLC: two or three words.
EXTENDS Durability, TLC

\* Words are alike.
Symmetry == Permutations(Word)
==============================================================================
