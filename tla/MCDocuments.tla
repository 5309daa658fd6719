----------------------------- MODULE MCDocuments -----------------------------
\* Instances of Documents for TLC.
EXTENDS Documents, TLC

\* Words that end in ways each of the stemmer's steps knows, among them all that
\* get as short as a letter or two on the way ("ies", "aed", "sses").
Spelled ==
    {"ies", "ties", "sses", "eds", "aed", "ing", "eed", "agreed", "hopping",
     "hoped", "falling", "sized", "conflated", "happy", "sky", "relational",
     "rational", "generalization", "hopefulness", "electriciti", "formative",
     "adoption", "ion", "replacement", "controller", "cease", "roll", "rate",
     "being", "cats", "cat", "the", "be", "z"}

MCLower == [w \in Spelled \cup {"Cats"} |-> IF w = "Cats" THEN "cats" ELSE w]

MCDefaultTable == <<"the", "be", "z">>

Setup(stem, halt, list, add, del) ==
    [dostem |-> stem, dostop |-> halt, stopwords |-> list, addstopwords |-> add,
     delstopwords |-> del]

\* Without and with each of the strings, and with lists that contradict each other.
MCSetups ==
    { Setup(TRUE, FALSE, {}, {}, {}),
      Setup(FALSE, TRUE, {}, {}, {}),
      Setup(TRUE, TRUE, {}, {}, {}),
      Setup(TRUE, TRUE, {}, {Entry("+", "cat")}, {Entry("", "be")}),
      Setup(FALSE, TRUE, {}, {Entry("+", "cats"), Entry("", "being")},
            {Entry("", "the"), Entry("", "being"), Blank}),
      Setup(TRUE, TRUE, {}, {Entry("*", "cats")}, {Entry("+", "cats"), Entry("", "be")}),
      Setup(TRUE, TRUE, {Entry("", "cat")}, {Entry("", "being")}, {Entry("", "cat")}),
      Setup(FALSE, TRUE, {Entry("+", "being"), Entry("*", "cat")}, {}, {}),
      Setup(TRUE, TRUE, {Blank}, {Entry("", "cat")}, {}) }

\* Every single item, every mixture of three, and longer documents of two words.
Alternating(n) == [k \in 1 .. n |-> IF k % 2 = 0 THEN "Cats" ELSE "being"]
Divided(n, m)  == [k \in 1 .. n |-> IF k <= m THEN "Cats" ELSE "being"]

MCTexts ==
    {<<x>> : x \in Item}
        \cup UNION {[1 .. n -> {"Cats", "being", "other", "slow", "broken", "empty"}]
                       : n \in {2, 3}}
        \cup {Alternating(n) : n \in 4 .. 9}
        \cup {Divided(n, 3) : n \in 4 .. 9}
==============================================================================
