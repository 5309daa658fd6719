--------------------------- MODULE DocumentsProofs ---------------------------
(***************************************************************************)
(* Proofs about Documents, for any texts, stop lists and ids: what         *)
(* termify leaves to the counting, what a restart leaves of a stop list,   *)
(* and that the composition is one of the behaviours of Quarters, so that  *)
(* what is proved of Quarters is true of the requests.                     *)
(***************************************************************************)
EXTENDS Documents, QuartersProofs

(***************************************************************************)
(* The stop list                                                           *)
(***************************************************************************)
\* dict_load leaves the blanks out of the strings, and the rest as it is.
LEMMA Reread ==
    ASSUME NEW s, SettingsOK(s)
    PROVE  LET r == ReadConfigFile(s)
           IN  /\ SettingsOK(r)
               /\ r.dostop = s.dostop /\ r.dostem = s.dostem
               /\ r.stopwords = s.stopwords \ {Blank}
               /\ r.addstopwords = s.addstopwords \ {Blank}
               /\ r.delstopwords = s.delstopwords \ {Blank}
<1> DEFINE r == ReadConfigFile(s)
<1>1. DOMAIN s =
          {"dostem", "dostop", "stopwords", "addstopwords", "delstopwords"}
  BY DEF SettingsOK, NoSetup
<1>2. /\ r.dostop = s.dostop /\ r.dostem = s.dostem
      /\ r.stopwords = s.stopwords \ {Blank}
      /\ r.addstopwords = s.addstopwords \ {Blank}
      /\ r.delstopwords = s.delstopwords \ {Blank}
      /\ DOMAIN r = DOMAIN s
  BY <1>1 DEF ReadConfigFile, GetValue
<1> HIDE DEF r
<1>3. SettingsOK(r)
  BY <1>2 DEF SettingsOK
<1> QED BY <1>2, <1>3 DEF r

\* What dict_load reads of a configuration file makes the list that dict_Create
\* made (dict.c:885, config.c:347).
LEMMA ReadBack ==
    ASSUME NEW s, SettingsOK(s), s.stopwords # {Blank}
    PROVE  StopHash(ReadConfigFile(s)) = StopHash(s)
<1> DEFINE r == ReadConfigFile(s)
<1>1. /\ r.dostop = s.dostop
      /\ r.stopwords = s.stopwords \ {Blank}
      /\ r.addstopwords = s.addstopwords \ {Blank}
      /\ r.delstopwords = s.delstopwords \ {Blank}
  BY Reread
<1> HIDE DEF r
<1>2. \A string : Filed(string \ {Blank}) = Filed(string)
  <2> SUFFICES ASSUME NEW string PROVE Filed(string \ {Blank}) = Filed(string)
    OBVIOUS
  <2>1. (string \ {Blank}) \ {Blank} = string \ {Blank}
    OBVIOUS
  <2> QED BY <2>1 DEF Filed
<1>3. s.stopwords \ {Blank} = {} <=> s.stopwords = {}
  OBVIOUS
<1>4. Stoplist(r.stopwords, r.addstopwords, r.delstopwords)
        = Stoplist(s.stopwords, s.addstopwords, s.delstopwords)
  BY <1>1, <1>2, <1>3 DEF Stoplist
<1>5. StopHash(r) = StopHash(s)
  BY <1>1, <1>4 DEF StopHash
<1> QED BY <1>5 DEF r

LEMMA ListOfThree == \A s : DOMAIN StopHash(s) = Kinds
BY DEF StopHash, Stoplist, Filed, NoList

(***************************************************************************)
(* The inductive invariant                                                 *)
(***************************************************************************)
\* tptr is in the text, and has passed as many words as there are terms; one more
\* while a word is looked at.
PlaceInText ==
    /\ tpc \in {"none", "idle", "match", "stem", "end", "error"}
    /\ text \in Seq(Item) /\ Len(text) <= MaxTokens
    /\ pos \in 0 .. Len(text)
    /\ stage \in 1 .. NSteps + 1

TermsInText ==
    /\ \E S : term_list \in Seq(S)
    /\ Len(term_list) <= IF tpc = "stem" THEN pos - 1 ELSE pos
    /\ tpc \in {"none", "idle"} => Len(term_list) = 0

StopInv ==
    /\ SettingsOK(cfgfile) /\ SettingsOK(setup)
    /\ DOMAIN stop = Kinds
    /\ cfgfile.stopwords # {Blank} => stop = StopHash(cfgfile)

DInv == PlaceInText /\ TermsInText /\ StopInv /\ CountsAgree

LEMMA DocInitially == DocInit => DInv
<1> SUFFICES ASSUME DocInit PROVE DInv
  OBVIOUS
<1>1. /\ tpc = "none" /\ cfgfile = NoSetup /\ setup = NoSetup /\ stop = NoList
      /\ text = << >> /\ pos = 0 /\ stage = 1
      /\ term_list = << >> /\ term_hash = Empty
  BY DEF DocInit, TermifyInit
<1>2. << >> \in Seq(Item) /\ Len(<< >>) = 0
  OBVIOUS
<1>3. PlaceInText
  BY <1>1, <1>2, MaxTokensAssumption DEF PlaceInText, NSteps
<1>4. TermsInText
  BY <1>1, <1>2 DEF TermsInText
<1>5. StopInv
  <2>1. ~NoSetup.dostop
    BY DEF NoSetup
  <2>2. StopHash(NoSetup) = NoList
    BY <2>1 DEF StopHash
  <2>3. SettingsOK(NoSetup)
    BY DEF SettingsOK, NoSetup
  <2> QED BY <1>1, <2>2, <2>3 DEF StopInv, NoList
<1>6. CountsAgree
  <2>1. Counts(<< >>, 1, 0 + 1) = Empty
    BY CountsNothing
  <2> QED BY <1>1, <1>2, <2>1 DEF CountsAgree
<1> QED BY <1>3, <1>4, <1>5, <1>6 DEF DInv

\* Hash and list grow together (tokenize.c:92-101).
LEMMA Added ==
    ASSUME NEW w, Add(w), CountsAgree, NEW S, term_list \in Seq(S)
    PROVE  /\ \E R : term_list' \in Seq(R)
           /\ Len(term_list') = Len(term_list) + 1
           /\ CountsAgree'
<1> DEFINE n == Len(term_list)
           new == Append(term_list, w)
<1>1. /\ term_list' = new
      /\ term_hash' = CountIn(Counts(term_list, 1, n + 1), w)
  BY DEF Add, CountsAgree
<1>2. n \in Nat /\ term_list \in Seq(S \cup {w})
  OBVIOUS
<1>3. /\ new \in Seq(S \cup {w}) /\ Len(new) = n + 1 /\ new[n + 1] = w
      /\ \A p \in 1 .. n : new[p] = term_list[p]
  BY <1>2
<1> HIDE DEF n, new
<1>4. Counts(new, 1, n + 1) = Counts(term_list, 1, n + 1)
  <2> DEFINE T == 1 .. (n + 1) - 1
  <2>1. \A p \in T : new[p] = term_list[p]
    BY <1>2, <1>3
  <2> HIDE DEF T
  <2>2. {new[p] : p \in T} = {term_list[p] : p \in T}
    BY <2>1
  <2>3. \A x : {p \in T : new[p] = x} = {p \in T : term_list[p] = x}
    BY <2>1
  <2>4. [x \in {new[p] : p \in T} |-> Cardinality({p \in T : new[p] = x})]
          = [x \in {term_list[p] : p \in T} |-> Cardinality({p \in T : term_list[p] = x})]
    BY <2>2, <2>3
  <2> QED BY <2>4 DEF Counts, T
<1>5. CountIn(Counts(new, 1, n + 1), new[n + 1]) = Counts(new, 1, (n + 1) + 1)
  BY <1>2, CountsNext
<1>6. term_hash' = Counts(term_list', 1, Len(term_list') + 1)
  BY <1>1, <1>3, <1>4, <1>5
<1> QED BY <1>1, <1>3, <1>6 DEF CountsAgree, n

(***************************************************************************)
(* The steps                                                               *)
(***************************************************************************)
LEMMA CreateKept == ASSUME DInv, NEW s \in Setups, Create(s) PROVE DInv'
<1>1. /\ tpc = "none" /\ tpc' = "idle" /\ cfgfile' = s /\ setup' = s
      /\ stop' = StopHash(s)
      /\ text' = text /\ pos' = pos /\ stage' = stage
      /\ term_list' = term_list /\ term_hash' = term_hash
  BY DEF Create, stemmer, terms
<1>2. PlaceInText' /\ TermsInText' /\ CountsAgree'
  BY <1>1 DEF DInv, PlaceInText, TermsInText, CountsAgree
<1>3. StopInv'
  BY <1>1, ListOfThree, SetupsAssumption DEF StopInv
<1> QED BY <1>2, <1>3 DEF DInv

\* What a restart reads is what was there, unless it was a list of blanks.
LEMMA LoadKept ==
    ASSUME DInv, Load
    PROVE  DInv' /\ (cfgfile.stopwords # {Blank} => stop' = stop)
<1>1. /\ tpc = "idle" /\ tpc' = tpc /\ cfgfile' = cfgfile
      /\ setup' = ReadConfigFile(cfgfile) /\ stop' = StopHash(setup')
      /\ text' = text /\ pos' = pos /\ stage' = stage
      /\ term_list' = term_list /\ term_hash' = term_hash
  BY DEF Load, stemmer, terms
<1>2. PlaceInText' /\ TermsInText' /\ CountsAgree'
  BY <1>1 DEF DInv, PlaceInText, TermsInText, CountsAgree
<1>3. SettingsOK(ReadConfigFile(cfgfile))
  BY Reread DEF DInv, StopInv
<1>4. cfgfile.stopwords # {Blank} => stop' = StopHash(cfgfile)
  BY <1>1, ReadBack DEF DInv, StopInv
<1>5. StopInv'
  BY <1>1, <1>3, <1>4, ListOfThree DEF DInv, StopInv
<1> QED BY <1>2, <1>4, <1>5 DEF DInv, StopInv

LEMMA BeginKept == ASSUME DInv, NEW t \in Texts, Begin(t) PROVE DInv'
<1>1. /\ tpc = "idle" /\ tpc' = "match" /\ text' = t /\ pos' = 0
      /\ cfgfile' = cfgfile /\ setup' = setup /\ stop' = stop /\ stage' = stage
      /\ term_list' = term_list /\ term_hash' = term_hash
  BY DEF Begin, dictionary, stemmer, terms
<1>2. t \in Seq(Item) /\ Len(t) <= MaxTokens
  BY TextsAssumption, LengthAssumption
<1>3. PlaceInText'
  BY <1>1, <1>2 DEF DInv, PlaceInText
<1>4. TermsInText' /\ StopInv' /\ CountsAgree'
  BY <1>1 DEF DInv, TermsInText, StopInv, CountsAgree
<1> QED BY <1>3, <1>4 DEF DInv

\* The steps of the matching that find no word.
LEMMA NoWordKept ==
    ASSUME DInv, NoMatch \/ SkipBad \/ MatchFails \/ MatchEmpty
    PROVE  DInv'
<1>1. /\ tpc = "match" /\ tpc' \in {"match", "end", "error"} /\ text' = text
      /\ cfgfile' = cfgfile /\ setup' = setup /\ stop' = stop /\ stage' = stage
      /\ term_list' = term_list /\ term_hash' = term_hash
  BY DEF NoMatch, SkipBad, Skip, MatchFails, MatchEmpty, dictionary, stemmer, terms
<1>2. pos' \in pos .. Len(text)
  <2>1. pos \in 0 .. Len(text) /\ Len(text) \in Nat /\ DOMAIN text = 1 .. Len(text)
    BY DEF DInv, PlaceInText
  <2>2. CASE pos' = pos
    BY <2>1, <2>2
  <2>3. CASE SkipBad
    BY <2>1, <2>3 DEF SkipBad, Skip, Meets
  <2>4. CASE MatchEmpty
    BY <2>1, <2>4 DEF MatchEmpty, Meets
  <2> QED BY <2>2, <2>3, <2>4 DEF NoMatch, MatchFails
<1>3. PlaceInText'
  BY <1>1, <1>2 DEF DInv, PlaceInText
<1>4. TermsInText'
  <2>1. Len(term_list) <= pos /\ Len(term_list) \in Nat
    BY <1>1 DEF DInv, TermsInText
  <2>2. pos \in Nat /\ pos' \in Nat /\ pos <= pos'
    BY <1>2 DEF DInv, PlaceInText
  <2>3. Len(term_list') <= pos'
    BY <1>1, <2>1, <2>2
  <2> QED BY <1>1, <2>3 DEF DInv, TermsInText
<1>5. StopInv' /\ CountsAgree'
  BY <1>1 DEF DInv, StopInv, CountsAgree
<1> QED BY <1>3, <1>4, <1>5 DEF DInv

LEMMA MatchWordKept == ASSUME DInv, MatchWord PROVE DInv'
<1>1. PICK k \in DOMAIN text :
          /\ k > pos /\ pos' = k
          /\ IF setup.dostop
             THEN tpc' = "stem" /\ term_list' = term_list /\ term_hash' = term_hash
             ELSE Add(Lower[text[k]]) /\ tpc' = tpc
  BY DEF MatchWord, Meets, terms
<1>2. /\ tpc = "match" /\ text' = text /\ stage' = stage
      /\ cfgfile' = cfgfile /\ setup' = setup /\ stop' = stop
  BY DEF MatchWord, dictionary
<1>3. /\ pos \in 0 .. Len(text) /\ Len(text) \in Nat /\ k \in 1 .. Len(text)
  BY DEF DInv, PlaceInText
<1>4. PICK S : term_list \in Seq(S)
  BY DEF DInv, TermsInText
<1>5. Len(term_list) \in Nat /\ Len(term_list) <= pos
  BY <1>2, <1>4 DEF DInv, TermsInText
<1>6. PlaceInText'
  BY <1>1, <1>2, <1>3 DEF DInv, PlaceInText
<1>7. StopInv'
  BY <1>2 DEF DInv, StopInv
<1>8. CASE setup.dostop
  <2>1. tpc' = "stem" /\ term_list' = term_list /\ term_hash' = term_hash
    BY <1>1, <1>8
  <2>2. TermsInText' /\ CountsAgree'
    BY <1>1, <1>3, <1>4, <1>5, <2>1 DEF DInv, TermsInText, CountsAgree
  <2> QED BY <1>6, <1>7, <2>2 DEF DInv
<1>9. CASE ~setup.dostop
  <2>1. Add(Lower[text[k]]) /\ tpc' = "match"
    BY <1>1, <1>2, <1>9
  <2>2. /\ \E R : term_list' \in Seq(R)
        /\ Len(term_list') = Len(term_list) + 1
        /\ CountsAgree'
    BY <1>4, <2>1, Added DEF DInv
  <2>3. TermsInText'
    BY <1>1, <1>3, <1>5, <2>1, <2>2 DEF TermsInText
  <2> QED BY <1>6, <1>7, <2>2, <2>3 DEF DInv
<1> QED BY <1>8, <1>9

LEMMA StemStepKept == ASSUME DInv, StemStep PROVE DInv'
<1>1. /\ tpc = "stem" /\ tpc' = tpc /\ stage' = stage + 1 /\ ~(stage > NSteps)
      /\ text' = text /\ pos' = pos
      /\ cfgfile' = cfgfile /\ setup' = setup /\ stop' = stop
      /\ term_list' = term_list /\ term_hash' = term_hash
  BY DEF StemStep, TakeStep, StemmedOut, dictionary, terms
<1>2. PlaceInText'
  BY <1>1 DEF DInv, PlaceInText, NSteps
<1>3. TermsInText' /\ StopInv' /\ CountsAgree'
  BY <1>1 DEF DInv, TermsInText, StopInv, CountsAgree
<1> QED BY <1>2, <1>3 DEF DInv

LEMMA StopWordKept == ASSUME DInv, StopWord PROVE DInv'
<1>1. /\ tpc = "stem" /\ tpc' = "match" /\ stage' = 1
      /\ text' = text /\ pos' = pos
      /\ cfgfile' = cfgfile /\ setup' = setup /\ stop' = stop
  BY DEF StopWord, dictionary
<1>2. (\E w : Add(w)) \/ (term_list' = term_list /\ term_hash' = term_hash)
  BY DEF StopWord, terms
<1>3. PICK S : term_list \in Seq(S)
  BY DEF DInv, TermsInText
<1>4. pos \in Nat /\ Len(term_list) \in Nat /\ Len(term_list) <= pos - 1
  BY <1>1, <1>3 DEF DInv, PlaceInText, TermsInText
<1>5. PlaceInText' /\ StopInv'
  BY <1>1 DEF DInv, PlaceInText, NSteps, StopInv
<1>6. TermsInText' /\ CountsAgree'
  <2>1. CASE term_list' = term_list /\ term_hash' = term_hash
    BY <1>1, <1>3, <1>4, <2>1 DEF DInv, TermsInText, CountsAgree
  <2>2. CASE \E w : Add(w)
    <3>1. /\ \E R : term_list' \in Seq(R)
          /\ Len(term_list') = Len(term_list) + 1
          /\ CountsAgree'
      BY <1>3, <2>2, Added DEF DInv
    <3> QED BY <1>1, <1>4, <3>1 DEF TermsInText
  <2> QED BY <1>2, <2>1, <2>2
<1> QED BY <1>5, <1>6 DEF DInv

LEMMA ReplyKept == ASSUME DInv, Reply PROVE DInv'
<1>1. /\ tpc' = "idle" /\ text' = << >> /\ pos' = 0
      /\ term_list' = << >> /\ term_hash' = Empty
      /\ cfgfile' = cfgfile /\ setup' = setup /\ stop' = stop /\ stage' = stage
  BY DEF Reply, dictionary, stemmer
<1>2. << >> \in Seq(Item) /\ Len(<< >>) = 0
  OBVIOUS
<1>3. PlaceInText' /\ TermsInText'
  BY <1>1, <1>2, MaxTokensAssumption DEF DInv, PlaceInText, TermsInText
<1>4. StopInv'
  BY <1>1 DEF DInv, StopInv
<1>5. CountsAgree'
  <2>1. Counts(<< >>, 1, 0 + 1) = Empty
    BY CountsNothing
  <2> QED BY <1>1, <1>2, <2>1 DEF CountsAgree
<1> QED BY <1>3, <1>4, <1>5 DEF DInv

LEMMA TermsStutter == ASSUME DInv, UNCHANGED tvars PROVE DInv'
<1>1. /\ tpc' = tpc /\ text' = text /\ pos' = pos /\ stage' = stage
      /\ cfgfile' = cfgfile /\ setup' = setup /\ stop' = stop
      /\ term_list' = term_list /\ term_hash' = term_hash
  BY DEF tvars, dictionary, stemmer, terms
<1>2. PlaceInText' /\ TermsInText' /\ StopInv' /\ CountsAgree'
  BY <1>1 DEF DInv, PlaceInText, TermsInText, StopInv, CountsAgree
<1> QED BY <1>2 DEF DInv

(***************************************************************************)
(* The terms are those the client asked for                                *)
(***************************************************************************)
\* What a step makes of a word, if the word is not too short for it.
After(j, w) == IF TooShort(w) THEN w ELSE Step(j, w)

\* stem makes the six steps one after the other (stemmer.c:379-389): the words
\* after each of them are a solution of what defines its function, and all
\* solutions agree.
LEMMA StemStages ==
    ASSUME NEW word0
    PROVE  Stem(word0) =
               After(6, After(5, After(4, After(3, After(2, After(1, word0))))))
<1> DEFINE Staged(f) == [j \in 0 .. NSteps |->
               IF j = 0 THEN word0
               ELSE LET w == f[j - 1] IN IF TooShort(w) THEN w ELSE Step(j, w)]
           a == After(1, word0)  b == After(2, a)  c == After(3, b)
           d == After(4, c)      e == After(5, d)  z == After(6, e)
           g == [j \in 0 .. NSteps |->
                   IF j = 0 THEN word0 ELSE IF j = 1 THEN a ELSE IF j = 2 THEN b
                   ELSE IF j = 3 THEN c ELSE IF j = 4 THEN d ELSE IF j = 5 THEN e
                   ELSE z]
           after == CHOOSE f : f = Staged(f)
<1>1. 0 .. NSteps = {0, 1, 2, 3, 4, 5, 6}
  BY DEF NSteps
<1>2. g = Staged(g)
  <2>1. ASSUME NEW j \in 0 .. NSteps
        PROVE  g[j] = IF j = 0 THEN word0 ELSE After(j, g[j - 1])
    <3>1. j \in {0, 1, 2, 3, 4, 5, 6}
      BY <1>1
    <3> QED BY <1>1, <3>1
  <2>2. g = [j \in 0 .. NSteps |-> g[j]]
    OBVIOUS
  <2> HIDE DEF g
  <2> QED BY <2>1, <2>2 DEF After
<1>3. after = Staged(after)
  <2> HIDE DEF g, Staged
  <2> QED BY <1>2
<1>4. \A j \in {1, 2, 3, 4, 5, 6} : after[j] = After(j, after[j - 1])
  <2> HIDE DEF after
  <2> QED BY <1>1, <1>3 DEF After
<1>5. after[0] = word0
  <2> HIDE DEF after
  <2> QED BY <1>1, <1>3
<1>6. Stem(word0) = after[6]
  BY DEF Stem, NSteps
<1> HIDE DEF after
<1>7. after[1] = a /\ after[2] = b /\ after[3] = c
  BY <1>4, <1>5
<1> QED BY <1>4, <1>6, <1>7

\* What the steps from s on make of a word.
Rest(s, w) ==
    CASE s = 1 -> Stem(w)
      [] s = 2 -> After(6, After(5, After(4, After(3, After(2, w)))))
      [] s = 3 -> After(6, After(5, After(4, After(3, w))))
      [] s = 4 -> After(6, After(5, After(4, w)))
      [] s = 5 -> After(6, After(5, w))
      [] s = 6 -> After(6, w)
      [] OTHER -> w

\* What is stopped and stemmed is what was asked for, and a word in the stemmer is
\* on the way to its stem.
StemInv ==
    /\ setup.dostop = cfgfile.dostop /\ setup.dostem = cfgfile.dostem
    /\ tpc = "stem" =>
        /\ setup.dostop
        /\ pos > 0 /\ text[pos] \in Words /\ word = Lower[text[pos]]
        /\ Rest(stage, query) = Stem(word)
    /\ tpc # "stem" => stage = 1

\* The terms are those of the items that tptr has passed, all of them in the end.
PassedInv ==
    /\ tpc \in {"match", "end", "error"} /\ ~Exceptional => TermsOf(pos)
    /\ tpc = "stem" /\ ~Exceptional => TermsOf(pos - 1)
    /\ tpc = "end" => \A k \in pos + 1 .. Len(text) : text[k] = "other"

AskedInv == StemInv /\ PassedInv

LEMMA StepsLeft ==
    ASSUME NEW s \in 1 .. NSteps + 1, NEW w
    PROVE  /\ s > NSteps \/ TooShort(w) => Rest(s, w) = w
           /\ ~(s > NSteps \/ TooShort(w)) => Rest(s, w) = Rest(s + 1, Step(s, w))
<1>1. s \in {1, 2, 3, 4, 5, 6, 7}
  BY DEF NSteps
<1>2. ASSUME TooShort(w) PROVE Rest(s, w) = w
  <2>1. \A j : After(j, w) = w
    BY <1>2 DEF After
  <2> QED BY <1>1, <2>1, StemStages DEF Rest
<1>3. ASSUME s > NSteps PROVE Rest(s, w) = w
  BY <1>1, <1>3 DEF Rest, NSteps
<1>4. ASSUME ~(s > NSteps \/ TooShort(w))
      PROVE  Rest(s, w) = Rest(s + 1, Step(s, w))
  <2>1. After(s, w) = Step(s, w)
    BY <1>4 DEF After
  <2>2. s \in {1, 2, 3, 4, 5, 6}
    BY <1>1, <1>4 DEF NSteps
  <2> QED BY <2>1, <2>2, StemStages DEF Rest
<1> QED BY <1>2, <1>3, <1>4

\* What stoplist_create files of a string is what the client wrote in it.
LEMMA FiledAsWritten ==
    ASSUME NEW string, NEW w,
           \A e \in string : e = Blank \/ e.mark \in {"", "*", "+"}
    PROVE  /\ w \in Filed(string)["precise"] <=> Listed(string, "*", w)
           /\ Stem(w) \in Filed(string)["stemmed"] <=> Listed(string, "+", w)
           /\ w \in Filed(string)["plain"] <=> Listed(string, "", w)
<1>1. Blank.mark = " "
  BY DEF Blank, Entry
<1>2. \A e \in string \ {Blank} :
          /\ e.mark \in {"", "*", "+"}
          /\ Kind(e) = IF e.mark = "+" THEN "stemmed"
                       ELSE IF e.mark = "*" THEN "precise" ELSE "plain"
  BY DEF Kind
<1> DEFINE marked(m) == {x \in string \ {Blank} : x.mark = m}
<1>3. /\ {x \in string \ {Blank} : Kind(x) = "precise"} = marked("*")
      /\ {x \in string \ {Blank} : Kind(x) = "stemmed"} = marked("+")
      /\ {x \in string \ {Blank} : Kind(x) = "plain"} = marked("")
  BY <1>2
<1>4. /\ Filed(string)["precise"] = {Key(e) : e \in marked("*")}
      /\ Filed(string)["stemmed"] = {Key(e) : e \in marked("+")}
      /\ Filed(string)["plain"] = {Key(e) : e \in marked("")}
  <2> HIDE DEF marked
  <2> QED BY <1>3, Zenon DEF Filed, Kinds
<1>5. w \in Filed(string)["precise"] <=> Listed(string, "*", w)
  <2>1. \A e \in marked("*") : Key(e) = e.word
    BY DEF Key
  <2> QED BY <1>1, <1>4, <2>1 DEF Listed, Stands
<1>6. Stem(w) \in Filed(string)["stemmed"] <=> Listed(string, "+", w)
  <2>1. \A e \in marked("+") : Key(e) = Stem(e.word)
    BY DEF Key
  <2> QED BY <1>1, <1>4, <2>1 DEF Listed, Stands
<1>7. w \in Filed(string)["plain"] <=> Listed(string, "", w)
  <2>1. \A e \in marked("") : Key(e) = e.word
    BY DEF Key
  <2> QED BY <1>1, <1>4, <2>1 DEF Listed, Stands
<1> QED BY <1>5, <1>6, <1>7

\* The three tables stop what was asked for, but for the default word left out
\* (stoplist.c:630-659).
LEMMA TablesAsAsked ==
    ASSUME SettingsOK(cfgfile), cfgfile.dostop, stop = StopHash(cfgfile), NEW w
    PROVE  /\ w \in stop["precise"] <=> Asked("*", w)
           /\ Stem(w) \in stop["stemmed"] <=> Asked("+", w)
           /\ w \notin LeftOut => (w \in stop["plain"] <=> Asked("", w))
<1> DEFINE list == cfgfile.stopwords
           add == cfgfile.addstopwords
           del == cfgfile.delstopwords
<1>1. stop = Stoplist(list, add, del)
  BY DEF StopHash
<1>2. \A string \in {list, add, del} :
          \A e \in string : e = Blank \/ e.mark \in {"", "*", "+"}
  BY DEF SettingsOK
<1>3. \A string \in {list, add, del} :
          /\ w \in Filed(string)["precise"] <=> Listed(string, "*", w)
          /\ Stem(w) \in Filed(string)["stemmed"] <=> Listed(string, "+", w)
          /\ w \in Filed(string)["plain"] <=> Listed(string, "", w)
  BY <1>2, FiledAsWritten
<1>4. CASE list # {}
  BY <1>1, <1>3, <1>4 DEF Stoplist, Asked
<1>5. CASE list = {}
  <2>1. /\ stop["precise"] = Filed(add)["precise"] \ Filed(del)["precise"]
        /\ stop["stemmed"] = Filed(add)["stemmed"] \ Filed(del)["stemmed"]
        /\ stop["plain"] = (DefaultWords \cup Filed(add)["plain"]) \ Filed(del)["plain"]
    BY <1>1, <1>5 DEF Stoplist, Kinds
  <2>2. w \notin LeftOut =>
            (w \in DefaultWords <=>
                \E k \in 1 .. Len(DefaultTable) : DefaultTable[k] = w)
    BY NStopwordsAssumption DEF DefaultWords, LeftOut
  <2> QED BY <1>3, <1>5, <2>1, <2>2 DEF Asked
<1> QED BY <1>4, <1>5

\* A text, and what the client asked for, stay what they are during a request.
LEMMA SameText ==
    ASSUME text' = text, cfgfile' = cfgfile
    PROVE  /\ \A n : Kept(n)' = Kept(n)
           /\ \A w : Form(w)' = Form(w)
           /\ Exceptional' <=> Exceptional
<1>1. \A w : Form(w)' = Form(w)
  BY DEF Form
<1>2. \A mark, w : Asked(mark, w)' <=> Asked(mark, w)
  BY DEF Asked
<1>3. \A w : Wanted(w)' <=> Wanted(w)
  BY <1>1, <1>2 DEF Wanted
<1>4. \A n : Kept(n)' = Kept(n)
  BY <1>3 DEF Kept
<1> QED BY <1>1, <1>4 DEF Exceptional, Unstemmed

LEMMA KeptFinite ==
    ASSUME NEW n \in Nat
    PROVE  /\ IsFiniteSet(Kept(n)) /\ Cardinality(Kept(n)) \in Nat
<1>1. IsFiniteSet(1 .. n) /\ Kept(n) \in SUBSET (1 .. n)
  BY FS_Interval DEF Kept
<1> QED BY <1>1, FS_Subset, FS_CardinalityType

\* Items that are no words that are wanted leave the terms as they are.
LEMMA PassedOver ==
    ASSUME NEW n \in Nat, NEW m \in Nat, n <= m, TermsOf(n),
           \A k \in n + 1 .. m : ~(text[k] \in Words /\ Wanted(Lower[text[k]]))
    PROVE  TermsOf(m)
<1>1. Kept(m) = Kept(n)
  BY DEF Kept
<1> QED BY <1>1 DEF TermsOf

\* A word that is wanted is one term more, after the others.
LEMMA OneMore ==
    ASSUME NEW n \in Nat, NEW S, term_list \in Seq(S), TermsOf(n),
           text[n + 1] \in Words, Wanted(Lower[text[n + 1]])
    PROVE  LET new == Append(term_list, Form(Lower[text[n + 1]]))
           IN  /\ Len(new) = Cardinality(Kept(n + 1))
               /\ \A k \in Kept(n + 1) :
                      new[Cardinality(Kept(k))] = Form(Lower[text[k]])
<1> DEFINE t == Form(Lower[text[n + 1]])
           new == Append(term_list, t)
           len == Len(term_list)
<1>1. Kept(n + 1) = Kept(n) \cup {n + 1} /\ n + 1 \notin Kept(n)
  BY DEF Kept
<1>2. Cardinality(Kept(n + 1)) = len + 1
  BY <1>1, KeptFinite, FS_AddElement DEF TermsOf
<1>3. /\ len \in Nat /\ Len(new) = len + 1 /\ new[len + 1] = t
      /\ \A j \in 1 .. len : new[j] = term_list[j]
  OBVIOUS
<1>4. \A k \in Kept(n) : Cardinality(Kept(k)) \in 1 .. len
  <2> SUFFICES ASSUME NEW k \in Kept(n) PROVE Cardinality(Kept(k)) \in 1 .. len
    OBVIOUS
  <2>1. k \in Nat /\ k \in Kept(k) /\ Kept(k) \in SUBSET Kept(n)
    BY DEF Kept
  <2>2. Cardinality(Kept(k)) <= len
    BY <2>1, KeptFinite, FS_Subset DEF TermsOf
  <2>3. Cardinality(Kept(k)) # 0
    BY <2>1, KeptFinite, FS_EmptySet
  <2> QED BY <1>3, <2>1, <2>2, <2>3, KeptFinite
<1> HIDE DEF new, t, len
<1>5. \A k \in Kept(n) : new[Cardinality(Kept(k))] = Form(Lower[text[k]])
  BY <1>3, <1>4 DEF TermsOf
<1>6. new[Cardinality(Kept(n + 1))] = Form(Lower[text[n + 1]])
  BY <1>2, <1>3 DEF t
<1> QED BY <1>1, <1>2, <1>3, <1>5, <1>6 DEF new, t

LEMMA SameTerms ==
    ASSUME text' = text, cfgfile' = cfgfile, term_list' = term_list
    PROVE  \A n : TermsOf(n)' <=> TermsOf(n)
BY SameText DEF TermsOf

LEMMA TermAdded ==
    ASSUME DInv, NEW n \in Nat, TermsOf(n), pos' = n + 1,
           text' = text, cfgfile' = cfgfile,
           text[n + 1] \in Words, Wanted(Lower[text[n + 1]]),
           term_list' = Append(term_list, Form(Lower[text[n + 1]]))
    PROVE  TermsOf(pos)'
<1>1. PICK S : term_list \in Seq(S)
  BY DEF DInv, TermsInText
<1>2. /\ Len(term_list') = Cardinality(Kept(n + 1))
      /\ \A k \in Kept(n + 1) :
             term_list'[Cardinality(Kept(k))] = Form(Lower[text[k]])
  BY <1>1, OneMore
<1>3. Kept(pos)' = Kept(n + 1)
  BY SameText
<1> QED BY <1>2, <1>3, SameText DEF TermsOf

LEMMA AskedInitially == DocInit => AskedInv
<1> SUFFICES ASSUME DocInit PROVE AskedInv
  OBVIOUS
<1>1. tpc = "none" /\ cfgfile = NoSetup /\ setup = NoSetup /\ stage = 1
  BY DEF DocInit, TermifyInit
<1> QED BY <1>1 DEF AskedInv, StemInv, PassedInv

\* The steps between two requests.
LEMMA SettledAsked ==
    ASSUME DInv, AskedInv,
           \/ \E s \in Setups : Create(s)
           \/ Load
           \/ Reply
    PROVE  AskedInv'
<1>1. /\ tpc # "stem" /\ tpc' = "idle" /\ stage' = stage
      /\ setup'.dostop = cfgfile'.dostop /\ setup'.dostem = cfgfile'.dostem
  <2>1. ASSUME NEW s \in Setups, Create(s)
        PROVE  tpc # "stem" /\ tpc' = "idle" /\ stage' = stage /\ setup' = cfgfile'
    BY <2>1 DEF Create, stemmer
  <2>2. CASE Load
    <3>1. /\ tpc = "idle" /\ tpc' = tpc /\ stage' = stage
          /\ cfgfile' = cfgfile /\ setup' = ReadConfigFile(cfgfile)
      BY <2>2 DEF Load, stemmer
    <3> QED BY <3>1, Reread DEF DInv, StopInv
  <2>3. CASE Reply
    BY <2>3 DEF Reply, dictionary, stemmer, AskedInv, StemInv
  <2> QED BY <2>1, <2>2, <2>3
<1> QED BY <1>1 DEF AskedInv, StemInv, PassedInv

LEMMA BeginAsked ==
    ASSUME DInv, AskedInv, NEW t \in Texts, Begin(t)
    PROVE  AskedInv'
<1>1. /\ tpc = "idle" /\ tpc' = "match" /\ pos' = 0 /\ stage' = stage
      /\ cfgfile' = cfgfile /\ setup' = setup /\ term_list' = term_list
  BY DEF Begin, dictionary, stemmer, terms
<1>2. Len(term_list) = 0
  BY <1>1 DEF DInv, TermsInText
<1>3. TermsOf(pos)'
  <2>1. Kept(pos)' = {}
    BY <1>1 DEF Kept
  <2> QED BY <1>1, <1>2, <2>1, FS_EmptySet DEF TermsOf
<1> QED BY <1>1, <1>3 DEF AskedInv, StemInv, PassedInv

LEMMA NoWordAsked ==
    ASSUME DInv, AskedInv, NoMatch \/ SkipBad \/ MatchFails \/ MatchEmpty
    PROVE  AskedInv'
<1>1. /\ tpc = "match" /\ tpc' \in {"match", "end", "error"} /\ text' = text
      /\ cfgfile' = cfgfile /\ setup' = setup /\ stage' = stage
      /\ term_list' = term_list
  BY DEF NoMatch, SkipBad, Skip, MatchFails, MatchEmpty, dictionary, stemmer, terms
<1>2. pos \in Nat /\ Len(text) \in Nat /\ DOMAIN text = 1 .. Len(text)
  BY DEF DInv, PlaceInText
<1>3. /\ pos' \in Nat /\ pos <= pos'
      /\ \A j \in pos + 1 .. pos' : text[j] \notin Words
  <2>1. CASE pos' = pos
    BY <1>2, <2>1
  <2>2. CASE SkipBad
    <3>1. PICK k \in DOMAIN text : Meets(k, {"slow"})
      BY <2>2 DEF SkipBad, Skip
    <3>2. pos' = pos + 1
      BY <2>2 DEF SkipBad, Skip
    <3>3. k \in Nat /\ k > pos /\ text[k] = "slow"
          /\ \A j \in pos + 1 .. k - 1 : text[j] = "other"
      BY <1>2, <3>1 DEF Meets
    <3>4. text[pos + 1] \in {"other", "slow"}
      BY <1>2, <3>3
    <3> QED BY <1>2, <3>2, <3>4, WordsAssumption
  <2>3. CASE MatchEmpty
    <3>1. PICK k \in DOMAIN text : Meets(k, {"empty"}) /\ pos' = k - 1
      BY <2>3 DEF MatchEmpty
    <3> QED BY <1>2, <3>1, WordsAssumption DEF Meets
  <2> QED BY <2>1, <2>2, <2>3 DEF NoMatch, MatchFails
<1>4. tpc' = "end" => \A k \in pos' + 1 .. Len(text) : text[k] = "other"
  <2>1. tpc' = "end" => NoMatch
    BY <1>1 DEF NoMatch, SkipBad, Skip, MatchFails, MatchEmpty
  <2> QED BY <2>1 DEF NoMatch
<1>5. ~Exceptional => TermsOf(pos')
  BY <1>1, <1>2, <1>3, PassedOver DEF AskedInv, PassedInv
<1>6. ~Exceptional' => TermsOf(pos)'
  BY <1>1, <1>5, SameText, SameTerms
<1> QED BY <1>1, <1>4, <1>6 DEF AskedInv, StemInv, PassedInv

LEMMA MatchWordAsked == ASSUME DInv, AskedInv, MatchWord PROVE AskedInv'
<1>1. PICK k \in DOMAIN text :
          /\ Meets(k, Words) /\ pos' = k
          /\ IF setup.dostop
             THEN /\ word' = Lower[text[k]] /\ query' = Lower[text[k]]
                  /\ tpc' = "stem" /\ term_list' = term_list
             ELSE Add(Lower[text[k]]) /\ tpc' = tpc
  BY DEF MatchWord, terms
<1>2. /\ tpc = "match" /\ text' = text /\ stage' = stage
      /\ cfgfile' = cfgfile /\ setup' = setup
  BY DEF MatchWord, dictionary
<1>3. /\ pos \in Nat /\ k \in Nat /\ k > pos /\ text[k] \in Words
      /\ \A j \in pos + 1 .. k - 1 : text[j] \notin Words
  <2>1. pos \in 0 .. Len(text) /\ k \in 1 .. Len(text)
    BY DEF DInv, PlaceInText
  <2> QED BY <1>1, <2>1, WordsAssumption DEF Meets
<1>4. ~Exceptional => TermsOf(k - 1)
  BY <1>2, <1>3, PassedOver DEF AskedInv, PassedInv
<1>5. CASE setup.dostop
  <2>1. /\ word' = Lower[text[k]] /\ query' = Lower[text[k]]
        /\ tpc' = "stem" /\ term_list' = term_list
    BY <1>1, <1>5
  <2>2. stage = 1
    BY <1>2 DEF AskedInv, StemInv
  <2>3. Rest(stage, query)' = Stem(word)'
    BY <1>2, <2>1, <2>2 DEF Rest
  <2>4. StemInv'
    <3>1. pos' > 0 /\ text'[pos'] \in Words /\ word' = Lower[text'[pos']]
      BY <1>1, <1>2, <1>3, <2>1
    <3> QED BY <1>2, <1>5, <2>1, <2>3, <3>1 DEF AskedInv, StemInv
  <2>5. ~Exceptional' => TermsOf(pos - 1)'
    BY <1>1, <1>2, <1>4, <2>1, SameText, SameTerms
  <2> QED BY <2>1, <2>4, <2>5 DEF AskedInv, PassedInv
<1>6. CASE ~setup.dostop
  <2>1. Add(Lower[text[k]]) /\ tpc' = "match"
    BY <1>1, <1>2, <1>6
  <2>2. ~cfgfile.dostop
    BY <1>6 DEF AskedInv, StemInv
  <2>3. /\ Wanted(Lower[text[k]])
        /\ ~Exceptional => Form(Lower[text[k]]) = Lower[text[k]]
    BY <2>2 DEF Wanted, Form, Exceptional, Unstemmed
  <2>4. ~Exceptional' => TermsOf(pos)'
    <3> SUFFICES ASSUME ~Exceptional PROVE TermsOf(pos)'
      BY <1>2, SameText
    <3>1. PICK n \in Nat : n = k - 1 /\ n + 1 = k
      BY <1>3
    <3>2. term_list' = Append(term_list, Form(Lower[text[n + 1]]))
      BY <2>1, <2>3, <3>1 DEF Add
    <3>3. pos' = n + 1 /\ text[n + 1] \in Words /\ Wanted(Lower[text[n + 1]])
      BY <1>1, <1>3, <2>3, <3>1
    <3>4. ~Exceptional => TermsOf(n)
      BY <1>4, <3>1
    <3> QED BY <1>2, <3>2, <3>3, <3>4, SameText, TermAdded
  <2>5. StemInv'
    BY <1>2, <2>1 DEF AskedInv, StemInv
  <2> QED BY <2>1, <2>4, <2>5 DEF AskedInv, PassedInv
<1> QED BY <1>5, <1>6

LEMMA StemStepAsked == ASSUME DInv, AskedInv, StemStep PROVE AskedInv'
<1>1. /\ tpc = "stem" /\ tpc' = tpc /\ ~StemmedOut
      /\ stage' = stage + 1 /\ query' = Step(stage, query)
      /\ text' = text /\ pos' = pos /\ word' = word
      /\ cfgfile' = cfgfile /\ setup' = setup /\ term_list' = term_list
  BY DEF StemStep, TakeStep, dictionary, terms
<1>2. Rest(stage + 1, Step(stage, query)) = Rest(stage, query)
  BY <1>1, StepsLeft DEF StemmedOut, DInv, PlaceInText
<1>3. StemInv'
  BY <1>1, <1>2 DEF AskedInv, StemInv
<1>4. PassedInv'
  BY <1>1, SameText, SameTerms DEF AskedInv, PassedInv
<1> QED BY <1>3, <1>4 DEF AskedInv

LEMMA StopWordAsked == ASSUME DInv, AskedInv, StopWord PROVE AskedInv'
<1> DEFINE kept == IF setup.dostem THEN query ELSE word
<1>1. /\ tpc = "stem" /\ StemmedOut /\ tpc' = "match" /\ stage' = 1
      /\ text' = text /\ pos' = pos /\ cfgfile' = cfgfile /\ setup' = setup
      /\ IF Stopped(kept) THEN term_list' = term_list ELSE Add(kept)
  BY DEF StopWord, dictionary, terms
<1>2. /\ setup.dostop /\ setup.dostop = cfgfile.dostop
      /\ setup.dostem = cfgfile.dostem
      /\ pos \in Nat /\ pos > 0
      /\ text[pos] \in Words /\ word = Lower[text[pos]]
  BY <1>1 DEF AskedInv, StemInv, DInv, PlaceInText
<1>3. query = Stem(word)
  BY <1>1, StepsLeft DEF StemmedOut, AskedInv, StemInv, DInv, PlaceInText
<1>4. kept = Form(word)
  BY <1>2, <1>3 DEF Form
<1>5. ASSUME ~Exceptional PROVE Stopped(kept) <=> ~Wanted(word)
  <2>1. SettingsOK(cfgfile) /\ stop = StopHash(cfgfile)
    BY <1>5 DEF Exceptional, DInv, StopInv
  <2>2. word \notin LeftOut /\ Form(word) \notin LeftOut
    <3>1. pos \in DOMAIN text
      BY <1>2 DEF DInv, PlaceInText
    <3> QED BY <1>2, <1>5, <3>1 DEF Exceptional
  <2>3. \A w :
            /\ w \in stop["precise"] <=> Asked("*", w)
            /\ Stem(w) \in stop["stemmed"] <=> Asked("+", w)
            /\ w \notin LeftOut => (w \in stop["plain"] <=> Asked("", w))
    BY <1>2, <2>1, TablesAsAsked
  <2> HIDE DEF kept
  <2> QED BY <1>2, <1>3, <1>4, <2>2, <2>3 DEF Stopped, Wanted
<1>6. ~Exceptional => TermsOf(pos - 1)
  BY <1>1 DEF AskedInv, PassedInv
<1>7. ~Exceptional' => TermsOf(pos)'
  <2> SUFFICES ASSUME ~Exceptional PROVE TermsOf(pos)'
    BY <1>1, SameText
  <2>1. CASE Wanted(word)
    <3>1. PICK n \in Nat : n = pos - 1 /\ n + 1 = pos
      BY <1>2
    <3>2. term_list' = Append(term_list, kept)
      BY <1>1, <1>5, <2>1 DEF Add
    <3>3. term_list' = Append(term_list, Form(Lower[text[n + 1]]))
      BY <1>2, <1>4, <3>1, <3>2
    <3>4. text[n + 1] \in Words /\ Wanted(Lower[text[n + 1]])
      BY <1>2, <2>1, <3>1
    <3>5. TermsOf(n) /\ pos' = n + 1
      BY <1>1, <1>6, <3>1
    <3> QED BY <1>1, <3>3, <3>4, <3>5, TermAdded
  <2>2. CASE ~Wanted(word)
    <3>1. term_list' = term_list
      BY <1>1, <1>5, <2>2
    <3>2. TermsOf(pos)
      <4>1. \A k \in (pos - 1) + 1 .. pos : k = pos
        BY <1>2
      <4> QED BY <1>2, <1>6, <2>2, <4>1, PassedOver
    <3> QED BY <1>1, <3>1, <3>2, SameTerms
  <2> QED BY <2>1, <2>2
<1>8. StemInv'
  BY <1>1, <1>2 DEF AskedInv, StemInv
<1> QED BY <1>1, <1>7, <1>8 DEF AskedInv, PassedInv

LEMMA AskedStep == DInv /\ AskedInv /\ [DocNext]_docvars => AskedInv'
<1> SUFFICES ASSUME DInv, AskedInv, [DocNext]_docvars PROVE AskedInv'
  OBVIOUS
<1>1. CASE (\E s \in Setups : Create(s)) \/ Load \/ Reply
  BY <1>1, SettledAsked
<1>2. CASE \E t \in Texts : Begin(t)
  BY <1>2, BeginAsked
<1>3. CASE Scan
  BY <1>3, NoWordAsked, MatchWordAsked, StemStepAsked, StopWordAsked DEF Scan
<1>4. CASE UNCHANGED tvars
  <2>1. /\ tpc' = tpc /\ text' = text /\ pos' = pos /\ stage' = stage
        /\ word' = word /\ query' = query
        /\ cfgfile' = cfgfile /\ setup' = setup /\ term_list' = term_list
    BY <1>4 DEF tvars, dictionary, stemmer, terms
  <2> QED BY <2>1, SameText, SameTerms DEF AskedInv, StemInv, PassedInv
<1> QED BY <1>1, <1>2, <1>3, <1>4 DEF DocNext, docvars, Translate

(***************************************************************************)
(* A request is counted as Quarters has it                                 *)
(***************************************************************************)
LEMMA NoTable == Empty \in Tables
BY DEF Empty, Tables

Terms == {term_list[k] : k \in DOMAIN term_list}

\* There are not more terms than the text has characters, and finitely many words
\* among them.
LEMMA TermsListed ==
    ASSUME DInv
    PROVE  /\ Len(term_list) \in 0 .. MaxTokens
           /\ DOMAIN term_list = 1 .. Len(term_list)
           /\ IsFiniteSet(Terms)
<1>1. PICK S : term_list \in Seq(S)
  BY DEF DInv, TermsInText
<1>2. DOMAIN term_list = 1 .. Len(term_list) /\ Len(term_list) \in Nat
  BY <1>1
<1>3. Len(term_list) <= pos
  BY <1>1 DEF DInv, TermsInText, PlaceInText
<1>4. Len(term_list) \in 0 .. MaxTokens
  BY <1>2, <1>3, MaxTokensAssumption DEF DInv, PlaceInText
<1>5. IsFiniteSet(1 .. Len(term_list))
  BY <1>2, FS_Interval
<1>6. term_list = [j \in 1 .. Len(term_list) |-> term_list[j]]
  BY <1>1
<1>7. term_list \in Surjection(1 .. Len(term_list), Terms)
  <2>1. term_list \in [1 .. Len(term_list) -> Terms]
    BY <1>2, <1>6 DEF Terms
  <2>2. \A w \in Terms : \E j \in 1 .. Len(term_list) : term_list[j] = w
    BY <1>2 DEF Terms
  <2> QED BY <2>1, <2>2 DEF Surjection
<1> QED BY <1>2, <1>4, <1>5, <1>7, FS_Surjection

\* One id per term, if every word has one.
LEMMA IdsListed ==
    ASSUME DInv, NEW k, NEW other,
           \A w \in Terms :
               (IF w \in DOMAIN k THEN k[w] ELSE other[w]) \in Id \cup {Unknown}
    PROVE  Ids(k, other) \in Lists(Len(term_list))
<1>1. ASSUME NEW j \in 0 .. Len(term_list) - 1 PROVE term_list[j + 1] \in Terms
  BY TermsListed, MaxTokensAssumption DEF Terms
<1> QED BY <1>1 DEF Ids, Lists

\* The provisional ids of new words are the ones after the size that was read.
LEMMA NewNumbered ==
    ASSUME DInv, NEW new \in SUBSET Terms, NEW n \in Nat,
           n + Cardinality(new) <= MaxId + 1, NEW p \in Provisional(new, n)
    PROVE  p \in [new -> Id]
<1>1. Cardinality(new) \in Nat
  BY TermsListed, FS_Subset, FS_CardinalityType
<1>2. p \in [new -> n .. n + Cardinality(new) - 1]
  BY DEF Provisional, Injections
<1>3. n .. n + Cardinality(new) - 1 \subseteq Id
  BY <1>1, MaxIdAssumption DEF Id
<1> QED BY <1>2, <1>3

\* What tokenize_idlist_known and update_dict hand over is a list and a table of
\* the kind that Quarters starts from: as many ids as terms, and what the table
\* does not translate is an id of the dictionary.
LEMMA HandedOver ==
    ASSUME DInv, Translate
    PROVE  \E n \in 0 .. MaxTokens :
               \E list \in Lists(n), table \in Tables, ids \in Lists(n) \cup {Empty} :
                   /\ ids # Empty => Handed(list, table, ids)
                   /\ Start(n, list, table, ids)
<1> DEFINE len == Len(term_list)
<1>1. PICK known \in SUBSET Terms, m \in 0 .. MaxSize :
          HandOver(known, Terms \ known, m)
  BY DEF Translate, Terms
<1> DEFINE new == Terms \ known
<1>2. len \in 0 .. MaxTokens
  BY TermsListed
<1>3. m \in Nat /\ 0 .. m - 1 \subseteq Id /\ m .. MaxId \subseteq Id
  BY MaxIdAssumption, MaxSizeAssumption DEF Id
<1>4. PICK k \in Injections(known, 0 .. m - 1) :
          \/ LookedUp(k, new)
          \/ \E n \in 0 .. m + 1 :
                 /\ n + Cardinality(new) <= MaxId + 1
                 /\ \E p \in Provisional(new, n) :
                        \/ \E r \in Injections(new, m .. MaxId) : Updated(k, p, r)
                        \/ UpdateFailed(k, p)
  BY <1>1 DEF HandOver
<1>5. DOMAIN k = known /\ \A w \in known : k[w] \in Id
  BY <1>3 DEF Injections
<1>6. CASE LookedUp(k, new)
  <2> DEFINE list == Ids(k, [w \in new |-> Unknown])
  <2>1. list \in Lists(len)
    BY <1>5, IdsListed
  <2>2. Handed(list, Empty, list)
    BY DEF Handed, Empty
  <2>3. Start(len, list, Empty, list)
    BY <1>6 DEF LookedUp
  <2> HIDE DEF list
  <2> QED BY <1>2, <2>1, <2>2, <2>3, NoTable
<1>7. ASSUME NEW n \in 0 .. m + 1, n + Cardinality(new) <= MaxId + 1,
             NEW p \in Provisional(new, n), NEW r \in Injections(new, m .. MaxId),
             Updated(k, p, r)
      PROVE  \E list \in Lists(len), table \in Tables, ids \in Lists(len) \cup {Empty} :
                 /\ ids # Empty => Handed(list, table, ids)
                 /\ Start(len, list, table, ids)
  <2> DEFINE list == Ids(k, p)
             ids == Ids(k, r)
             back(x) == CHOOSE w \in new : p[w] = x
             table == [x \in {p[w] : w \in new} |-> r[back(x)]]
  <2>1. p \in [new -> Id] /\ r \in [new -> Id]
    BY <1>3, <1>7, NewNumbered DEF Injections
  <2>2. list \in Lists(len) /\ ids \in Lists(len)
    BY <1>5, <2>1, IdsListed
  <2>3. \A w \in new : back(p[w]) = w
    BY DEF Provisional, Injections
  <2>4. DOMAIN table = {p[w] : w \in new} /\ \A w \in new : table[p[w]] = r[w]
    BY <2>3
  <2>5. table \in Tables
    <3>1. {p[w] : w \in new} \subseteq Id
      BY <2>1
    <3>2. \A x \in {p[w] : w \in new} : r[back(x)] \in Id
      BY <2>1, <2>3
    <3>3. table \in [{p[w] : w \in new} -> Id]
      BY <3>2
    <3> QED BY <3>1, <3>3 DEF Tables
  <2>6. DOMAIN p = new /\ DOMAIN list = 0 .. len - 1
    BY <2>1 DEF Ids
  <2>7. Handed(list, table, ids)
    <3>1. ASSUME NEW j \in 0 .. len - 1, list[j] \notin DOMAIN table
          PROVE  ids[j] = list[j]
      <4>1. term_list[j + 1] \in Terms
        BY <1>2, TermsListed, MaxTokensAssumption DEF Terms
      <4>2. CASE term_list[j + 1] \in known
        BY <1>5, <4>2 DEF Ids
      <4>3. CASE term_list[j + 1] \in new
        <5>1. list[j] = p[term_list[j + 1]]
          BY <1>5, <4>3 DEF Ids
        <5> HIDE DEF table, list
        <5> QED BY <2>4, <3>1, <4>3, <5>1
      <4> QED BY <4>1, <4>2, <4>3
    <3>2. ASSUME NEW x \in DOMAIN table
          PROVE  \E j \in 0 .. len - 1 : list[j] = x /\ ids[j] = table[x]
      <4>1. PICK w \in new : x = p[w]
        BY <2>4, <3>2
      <4>2. PICK j \in 0 .. len - 1 : term_list[j + 1] = w
        <5>1. PICK q \in 1 .. len : term_list[q] = w
          BY TermsListed DEF Terms
        <5>2. q - 1 \in 0 .. len - 1 /\ (q - 1) + 1 = q
          BY <1>2
        <5> QED BY <5>1, <5>2
      <4>3. list[j] = p[w] /\ ids[j] = r[w]
        BY <1>5, <4>2 DEF Ids
      <4>4. table[x] = r[w]
        BY <2>4, <4>1
      <4> QED BY <4>1, <4>3, <4>4
    <3> HIDE DEF table, list, ids
    <3> QED BY <2>6, <3>1, <3>2 DEF Handed
  <2>8. Start(len, list, table, ids)
    BY <1>7, <2>6 DEF Updated
  <2> HIDE DEF list, table, ids
  <2> QED BY <2>2, <2>5, <2>7, <2>8
<1>8. ASSUME NEW n \in 0 .. m + 1, n + Cardinality(new) <= MaxId + 1,
             NEW p \in Provisional(new, n), UpdateFailed(k, p)
      PROVE  \E list \in Lists(len) : Start(len, list, Empty, Empty)
  <2>1. p \in [new -> Id]
    BY <1>3, <1>8, NewNumbered
  <2>2. Ids(k, p) \in Lists(len)
    BY <1>5, <2>1, IdsListed
  <2> QED BY <1>8, <2>2 DEF UpdateFailed
<1> HIDE DEF len, new
<1>9. CASE \E n \in 0 .. m + 1 :
               /\ n + Cardinality(new) <= MaxId + 1
               /\ \E p \in Provisional(new, n) : UpdateFailed(k, p)
  BY <1>2, <1>8, <1>9, NoTable
<1>10. CASE \E n \in 0 .. m + 1 :
                /\ n + Cardinality(new) <= MaxId + 1
                /\ \E p \in Provisional(new, n), r \in Injections(new, m .. MaxId) :
                       Updated(k, p, r)
  BY <1>2, <1>7, <1>10
<1> QED BY <1>4, <1>6, <1>9, <1>10

LEMMA StepOfQuarters == DInv /\ [DocNext]_docvars => [Next]_qvars
<1> SUFFICES ASSUME DInv, [DocNext]_docvars PROVE [Next]_qvars
  OBVIOUS
<1>1. CASE Translate
  BY <1>1, HandedOver DEF Next
<1>2. CASE Split
  BY <1>2 DEF Next
<1>3. CASE Reply
  BY <1>3 DEF Reply, Next
<1>4. CASE UNCHANGED docvars
  BY <1>4 DEF docvars
<1>5. CASE UNCHANGED qvars
  BY <1>5
<1> QED BY <1>1, <1>2, <1>3, <1>4, <1>5 DEF DocNext

(***************************************************************************)
(* The theorems                                                            *)
(***************************************************************************)
LEMMA DocStep == DInv /\ [DocNext]_docvars => DInv'
<1> SUFFICES ASSUME DInv, [DocNext]_docvars PROVE DInv'
  OBVIOUS
<1>1. CASE \E s \in Setups : Create(s)
  BY <1>1, CreateKept
<1>2. CASE Load
  BY <1>2, LoadKept
<1>3. CASE \E t \in Texts : Begin(t)
  BY <1>3, BeginKept
<1>4. CASE Scan
  BY <1>4, NoWordKept, MatchWordKept, StemStepKept, StopWordKept DEF Scan
<1>5. CASE Reply
  BY <1>5, ReplyKept
<1>6. CASE UNCHANGED tvars
  BY <1>6, TermsStutter
<1> QED BY <1>1, <1>2, <1>3, <1>4, <1>5, <1>6 DEF DocNext, docvars, Translate

THEOREM DocInvariance == DocSpec => []DInv
<1> QED BY DocInitially, DocStep, PTL DEF DocSpec

\* Every variable of termify has its type, tptr stays in the text, and there are
\* not more terms than the text has items (tokenize.c:60-105).
THEOREM TermsTyped == DocSpec => []TermifyTypeOK
<1>1. DInv => TermifyTypeOK
  <2> SUFFICES ASSUME DInv PROVE TermifyTypeOK
    OBVIOUS
  <2>1. PICK S : term_list \in Seq(S)
    BY DEF DInv, TermsInText
  <2>2. Len(term_list) <= Len(text)
    BY <2>1 DEF DInv, TermsInText, PlaceInText
  <2> QED BY <2>2 DEF DInv, PlaceInText, StopInv, TermifyTypeOK
<1> QED BY <1>1, DocInvariance, PTL

\* The frequencies are those of the tokens next to them, at all times.
THEOREM FrequenciesAgree == DocSpec => []CountsAgree
<1>1. DInv => CountsAgree
  BY DEF DInv
<1> QED BY <1>1, DocInvariance, PTL

\* The terms of a request are those of the words that the client did not stop, in
\* the order of the text: all of it, or up to where the matching broke off.  They
\* are stems where the client asked for stems, but in a dictionary that stops no
\* word, where the three exceptions of TermsAsAsked begin (tokenize.c:89).
THEOREM TermsAreAsked == DocSpec => []TermsAsAsked
<1>1. DInv /\ AskedInv => TermsAsAsked
  <2> SUFFICES ASSUME DInv, AskedInv, tpc \in {"match", "end", "error"}, ~Exceptional
               PROVE  TermsOf(IF tpc = "end" THEN Len(text) ELSE pos)
    BY DEF TermsAsAsked
  <2>1. TermsOf(pos)
    BY DEF AskedInv, PassedInv
  <2>2. CASE tpc = "end"
    <3>1. pos \in Nat /\ Len(text) \in Nat /\ pos <= Len(text)
      BY DEF DInv, PlaceInText
    <3>2. \A k \in pos + 1 .. Len(text) : text[k] \notin Words
      BY <2>2, WordsAssumption DEF AskedInv, PassedInv
    <3> QED BY <2>1, <2>2, <3>1, <3>2, PassedOver
  <2> QED BY <2>1, <2>2
<1>2. DocSpec => []AskedInv
  BY AskedInitially, AskedStep, DocInvariance, PTL DEF DocSpec
<1> QED BY <1>1, <1>2, DocInvariance, PTL

\* A restart of the server leaves every stop list as it was that was not made of
\* a string of blanks.
THEOREM StopListsKept == DocSpec => StopListKept
<1>1. DInv /\ [DocNext]_docvars =>
          [tpc = "idle" /\ cfgfile.stopwords # {Blank} => stop' = stop]_tvars
  <2> SUFFICES ASSUME DInv, [DocNext]_docvars, tpc = "idle",
                      cfgfile.stopwords # {Blank}
               PROVE  stop' = stop
    BY DEF tvars
  <2>1. CASE Load
    BY <2>1, LoadKept
  <2>2. CASE \E t \in Texts : Begin(t)
    BY <2>2 DEF Begin, dictionary
  <2>3. CASE UNCHANGED tvars
    BY <2>3 DEF tvars, dictionary
  <2> QED BY <2>1, <2>2, <2>3 DEF DocNext, docvars, Create, Scan, NoMatch, SkipBad,
             Skip, MatchFails, MatchEmpty, MatchWord, StemStep, TakeStep, StopWord,
             Translate, Reply
<1> QED BY <1>1, DocInvariance, PTL DEF DocSpec, StopListKept

\* Seen from the counting, the requests are a behaviour of Quarters.
THEOREM RequestsAreCounted == DocSpec => Spec
<1>1. DocInit => Init
  BY DEF DocInit
<1> QED BY <1>1, StepOfQuarters, DocInvariance, PTL DEF DocSpec, Spec

\* So of every request: the four quarters are made and each token is counted in one
\* of them, whichever size idterms has read, and when the update failed as well.
\* It is counted with its word's id unless two words were given the same id, or a
\* translation crosses a byte's border (tokenize.c:137, 384).
THEOREM RequestsSplit ==
    DocSpec => [](AllQuartersMade /\ QuartersSplit /\ QuartersRightUnlessClashOrBorder)
<1> QED BY RequestsAreCounted, AllMade, SplitCorrect, RightUnlessClashOrBorder, PTL
==============================================================================
