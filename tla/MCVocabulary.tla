---------------------------- MODULE MCVocabulary -----------------------------
\* Instances of Vocabulary for TLC: two or three connections, two or three words.
EXTENDS Vocabulary, TLC

\* Threads are alike, and so are words: permuting them maps behaviours to
\* behaviours (used with the safety properties only).
Symmetry == Permutations(Thread) \cup Permutations(Word)
==============================================================================
