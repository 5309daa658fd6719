------------------------------- MODULE Termify -------------------------------
(***************************************************************************)
(* From a text to its terms (termify in tokenize.c, stopWord in            *)
(* stoplist.c, stem in stemmer.c), for one dictionary from its creation    *)
(* through restarts of the server.                                         *)
(*                                                                         *)
(* A text is a sequence of what pcre_exec meets in it: words, other        *)
(* characters, places where it gives up at a limit, where it fails, and    *)
(* where the expression matches the empty string.  pos is tptr - totok.    *)
(***************************************************************************)
EXTENDS StopLists, Counting

CONSTANTS
    Lower,          \* tolower: a function from the words of the texts
    Setups,         \* the parameters that dict_Create is called with
    Texts           \* the texts sent

Words == DOMAIN Lower

\* "other": no match here.  "slow": PCRE_ERROR_MATCHLIMIT or RECURSIONLIMIT.
\* "broken": any other rc <= 0.  "empty": a match of no characters.
Item == Words \cup {"other", "slow", "broken", "empty"}

ASSUME WordsAssumption == Words \cap {"other", "slow", "broken", "empty"} = {}
ASSUME TextsAssumption == Texts \subseteq Seq(Item)

\* All three strings, and every entry with one of the marks or none.
SettingsOK(s) ==
    /\ DOMAIN s = DOMAIN NoSetup
    /\ \A e \in s.stopwords \cup s.addstopwords \cup s.delstopwords :
           e = Blank \/ e.mark \in {"", "*", "+"}

ASSUME SetupsAssumption == \A s \in Setups : SettingsOK(s)

VARIABLES
    tpc,            \* "none", "idle", "match", "stem", "end", "error"
    cfgfile,        \* the dictionary's configuration file
    setup,          \* dict->dostem .. dict->delstopwords
    stop,           \* dict->stophash
    text, pos,      \* totok, tptr
    word,           \* the match, in lower case
    query, stage,   \* its copy in the stemmer, and the step that is next
    term_list, term_hash

dictionary == <<cfgfile, setup, stop>>
terms      == <<term_list, term_hash>>
stemmer    == <<word, query, stage>>
tvars      == <<tpc, dictionary, text, pos, stemmer, terms>>

------------------------------------------------------------------------------
TermifyInit ==
    /\ tpc = "none"
    /\ cfgfile = NoSetup /\ setup = NoSetup /\ stop = NoList
    /\ text = << >> /\ pos = 0
    /\ word = "" /\ query = "" /\ stage = 1
    /\ term_list = << >> /\ term_hash = Empty

Create(s) ==
    /\ tpc = "none"
    /\ cfgfile' = s
    /\ setup' = s
    /\ stop' = StopHash(s)
    /\ tpc' = "idle"
    /\ UNCHANGED <<text, pos, stemmer, terms>>

\* dict_load, when the server starts again.
Load ==
    /\ tpc = "idle"
    /\ setup' = ReadConfigFile(cfgfile)
    /\ stop' = StopHash(setup')
    /\ UNCHANGED <<tpc, cfgfile, text, pos, stemmer, terms>>

Begin(t) ==
    /\ tpc = "idle"
    /\ text' = t
    /\ pos' = 0
    /\ tpc' = "match"
    /\ UNCHANGED <<dictionary, stemmer, terms>>

------------------------------------------------------------------------------
\* pcre_exec from pos meets the item k, one of the given ones, and before it only
\* characters that are no part of a match.
Meets(k, items) ==
    /\ k > pos
    /\ text[k] \in items
    /\ \A j \in pos + 1 .. k - 1 : text[j] = "other"

NoMatch ==
    /\ tpc = "match"
    /\ \A k \in pos + 1 .. Len(text) : text[k] = "other"
    /\ tpc' = "end"
    /\ UNCHANGED <<dictionary, text, pos, stemmer, terms>>

Skip(n) ==
    /\ tpc = "match"
    /\ \E k \in DOMAIN text : Meets(k, {"slow"})
    /\ pos' = pos + n
    /\ UNCHANGED <<tpc, dictionary, text, stemmer, terms>>

\* Mutant: the character is not skipped.
SkipNothing == Skip(0)

\* Mutant: two characters are skipped.
SkipTwo == Skip(2)

\* "Try to skip over the bad part of the string": one character more.
SkipBad == Skip(1)

\* What was found so far is returned like a complete result.
MatchFails ==
    /\ tpc = "match"
    /\ \E k \in DOMAIN text : Meets(k, {"broken"})
    /\ tpc' = "error"
    /\ UNCHANGED <<dictionary, text, pos, stemmer, terms>>

\* tptr moves to the end of the match, which is where the match begins.
MatchEmpty ==
    /\ tpc = "match"
    /\ \E k \in DOMAIN text : Meets(k, {"empty"}) /\ pos' = k - 1
    /\ UNCHANGED <<tpc, dictionary, text, stemmer, terms>>

\* Mutant: a term that was seen before is not counted again.
AddOnce(w) ==
    /\ term_hash' = IF w \in DOMAIN term_hash THEN term_hash ELSE CountIn(term_hash, w)
    /\ term_list' = Append(term_list, w)

Add(w) ==
    /\ term_hash' = CountIn(term_hash, w)
    /\ term_list' = Append(term_list, w)

\* Without a stop list the word is kept as it is.
MatchWord ==
    /\ tpc = "match"
    /\ \E k \in DOMAIN text :
           /\ Meets(k, Words)
           /\ pos' = k
           /\ IF setup.dostop
              THEN /\ word' = Lower[text[k]]
                   /\ query' = Lower[text[k]]
                   /\ tpc' = "stem"
                   /\ UNCHANGED terms
              ELSE Add(Lower[text[k]]) /\ UNCHANGED <<tpc, word, query>>
    /\ UNCHANGED <<dictionary, text, stage>>

------------------------------------------------------------------------------
(***************************************************************************)
(* stopWord: the word is stemmed, in place, step by step; then the three   *)
(* tables are asked.                                                       *)
(***************************************************************************)
StemmedOut == stage > NSteps \/ TooShort(query)

TakeStep ==
    /\ tpc = "stem"
    /\ query' = Step(stage, query)
    /\ stage' = stage + 1
    /\ UNCHANGED <<tpc, dictionary, text, pos, word, terms>>

\* Mutant: the steps follow each other whatever is left of the word.
StemStepAlways == stage <= NSteps /\ TakeStep

StemStep == ~StemmedOut /\ TakeStep

\* Mutant: the stem is not looked up in the plain list.
StoppedBefore(kept) ==
    word \in stop["precise"] \/ query \in stop["stemmed"] \/ word \in stop["plain"]

\* "before and after" (stemming) stopping.
Stopped(kept) ==
    \/ word \in stop["precise"]
    \/ query \in stop["stemmed"]
    \/ word \in stop["plain"]
    \/ kept \in stop["plain"]

StopWord ==
    LET kept == IF setup.dostem THEN query ELSE word
    IN  /\ tpc = "stem"
        /\ StemmedOut
        /\ IF Stopped(kept) THEN UNCHANGED terms ELSE Add(kept)
        /\ tpc' = "match"
        /\ word' = "" /\ query' = "" /\ stage' = 1
        /\ UNCHANGED <<dictionary, text, pos>>

Scan == \/ NoMatch \/ SkipBad \/ MatchFails \/ MatchEmpty \/ MatchWord
        \/ StemStep \/ StopWord

------------------------------------------------------------------------------
(***************************************************************************)
(* Properties                                                              *)
(***************************************************************************)
\* Every variable is of its type, and tptr stays in the text.
TermifyTypeOK ==
    /\ tpc \in {"none", "idle", "match", "stem", "end", "error"}
    /\ SettingsOK(cfgfile) /\ SettingsOK(setup)
    /\ DOMAIN stop = Kinds
    /\ pos \in 0 .. Len(text)
    /\ stage \in 1 .. NSteps + 1
    /\ Len(term_list) <= Len(text)

\* stem changes the word in place: a step never reads before it, and neither a
\* step nor the result is longer than the word ("0 <= k' <= k", stemmer.c:350; "we
\* hand in something like 'ies' ... and in step 2 we try to access z->-1", 364).
StemsInPlace ==
    [][tpc = "stem" /\ stage' > stage =>
           Len(query) >= 2 /\ Len(query') \in 1 .. Len(word)]_tvars

\* What the client asked for, from the strings it sent: an entry is of the list,
\* or of the additions (or the default) and not of the deletions; +w stands for
\* the words with the stem of w, *w and w for w.
Stands(e, w) == IF e.mark = "+" THEN Stem(e.word) = Stem(w) ELSE e.word = w

Listed(string, mark, w) == \E e \in string : e.mark = mark /\ Stands(e, w)

Asked(mark, w) ==
    IF cfgfile.stopwords # {} THEN Listed(cfgfile.stopwords, mark, w)
    ELSE /\ \/ Listed(cfgfile.addstopwords, mark, w)
            \/ mark = "" /\ \E k \in 1 .. Len(DefaultTable) : DefaultTable[k] = w
         /\ ~Listed(cfgfile.delstopwords, mark, w)

\* "1/0, turning stemming on (1) or off (0)" (dict.c:115).
Form(w) == IF cfgfile.dostem THEN Stem(w) ELSE w

Wanted(w) ==
    cfgfile.dostop =>
        ~(Asked("*", w) \/ Asked("+", w) \/ Asked("", w) \/ Asked("", Form(w)))

\* The places of the words among the first n items that the client wants, and the
\* list of their terms: as many, each where its place comes.
Kept(n) == {k \in 1 .. n : text[k] \in Words /\ Wanted(Lower[text[k]])}

TermsOf(n) ==
    /\ Len(term_list) = Cardinality(Kept(n))
    /\ \A k \in Kept(n) :
           term_list[Cardinality(Kept(k))] = Form(Lower[text[k]])

\* Of the default words the last is not copied (stoplist.c:13, 412).
LeftOut == {DefaultTable[k] : k \in NSTOPWORDS + 1 .. Len(DefaultTable)}

\* With dostop = 0 nothing calls stopWord, which is what stems (tokenize.c:89).
Unstemmed == cfgfile.dostem /\ ~cfgfile.dostop

Exceptional ==
    \/ Unstemmed
    \/ cfgfile.stopwords = {Blank}
    \/ \E k \in DOMAIN text : text[k] \in Words /\
           LeftOut \cap {Lower[text[k]], Form(Lower[text[k]])} # {}

\* The terms are those of the words the client did not stop, in the form it asked
\* for and in the order of the text, all of it unless the matching broke off, which
\* the client is not told (tokenize.c:60-105, stoplist.c:476-659), before and after
\* a restart.  Three exceptions: no word is stemmed in a dictionary with dostem = 1
\* and dostop = 0; a list of blanks (StopListKept); the default word left out.
TermsAsAsked ==
    tpc \in {"match", "end", "error"} /\ ~Exceptional =>
        TermsOf(IF tpc = "end" THEN Len(text) ELSE pos)

\* The frequencies a "freq" request answers with are those of the tokens it
\* returns next to them: hash and list agree at all times (tokenize.c:92-101).
CountsAgree == term_hash = Counts(term_list, 1, Len(term_list) + 1)

\* A restart leaves the stop list as it was, unless the client's list was a
\* string of blanks: it stopped nothing, and is read back as no list, so that the
\* default is used (dict.c:885, config.c:347).
StopListKept ==
    [][tpc = "idle" /\ cfgfile.stopwords # {Blank} => stop' = stop]_tvars

\* A text is split in the end, unless the expression matches the empty string.
TermifyEnds ==
    (tpc = "match" /\ \A k \in DOMAIN text : text[k] # "empty")
        ~> tpc \in {"end", "error"}
==============================================================================
