------------------------------ MODULE StopLists ------------------------------
(***************************************************************************)
(* Stop lists (stoplist.c) and the settings they are made from, in the     *)
(* server and in the configuration file (dict.c, config.c).                *)
(*                                                                         *)
(* A string of stop words is the set of its entries; the empty set is the  *)
(* empty string, and {Blank} a string of blanks.  An entry is what stands  *)
(* between blanks: stoplist_create does not look at the delimiter it is    *)
(* given (its own `stopdelim' is NULL when it is tested).  An entry that   *)
(* is a mark alone is left out.                                            *)
(***************************************************************************)
EXTENDS Stemmer

CONSTANTS
    DefaultTable,   \* the words written in stoplist_default
    NSTOPWORDS      \* how many of them are copied: 390, of 391

ASSUME NStopwordsAssumption == NSTOPWORDS \in 0 .. Len(DefaultTable)

DefaultWords == {DefaultTable[k] : k \in 1 .. NSTOPWORDS}

Entry(mark, w) == [mark |-> mark, word |-> w]
Blank == Entry(" ", "")

Kinds == {"plain", "precise", "stemmed"}

Kind(e) == CASE e.mark = "+" -> "stemmed"
             [] e.mark = "*" -> "precise"
             [] OTHER        -> "plain"

Key(e) == IF e.mark = "+" THEN Stem(e.word) ELSE e.word

\* strtok_r over a string, and hash_Put of each entry into one of three tables.
Filed(string) ==
    [k \in Kinds |-> {Key(e) : e \in {x \in string \ {Blank} : Kind(x) = k}}]

\* A list replaces the default; otherwise the default is added to, then taken from.
Stoplist(stopwords, add, del) ==
    IF stopwords = {}
    THEN [k \in Kinds |-> ((IF k = "plain" THEN DefaultWords ELSE {})
                               \cup Filed(add)[k]) \ Filed(del)[k]]
    ELSE Filed(stopwords)

NoList == [k \in Kinds |-> {}]

StopHash(s) ==
    IF s.dostop THEN Stoplist(s.stopwords, s.addstopwords, s.delstopwords)
    ELSE NoList

\* Before anything is read: calloc, and "" for the strings (dict_load).
NoSetup == [dostem |-> FALSE, dostop |-> FALSE, stopwords |-> {},
            addstopwords |-> {}, delstopwords |-> {}]

\* config_GetValue: a value of blanks is taken for a missing one, and dict_load
\* has set the string to "" before.
GetValue(string) == string \ {Blank}

\* Mutant: the deleted words are not read back.
ReadConfigFileShort(file) ==
    [file EXCEPT !.stopwords = GetValue(@), !.addstopwords = GetValue(@),
                 !.delstopwords = {}]

ReadConfigFile(file) ==
    [file EXCEPT !.stopwords = GetValue(@), !.addstopwords = GetValue(@),
                 !.delstopwords = GetValue(@)]
==============================================================================
