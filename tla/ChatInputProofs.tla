--------------------------- MODULE ChatInputProofs ---------------------------
(***************************************************************************)
(* Theorems about the automaton of Hangul, for every key and every         *)
(* composition, and about the line of ChatInput, for every set of keys and *)
(* names.                                                                  *)
(***************************************************************************)
EXTENDS ChatInput, SequenceTheorems, TLAPS

-----------------------------------------------------------------------------
(* The automaton.                                                          *)

(* The tables stay among the letters Unicode has.                          *)
LEMMA CombineVowelsType ==
    ASSUME NEW v \in Jung, NEW w \in SingleVowels
    PROVE  CombineVowels(v, w) \in Jung \cup {None}
  BY DEF CombineVowels, Jung, SingleVowels, None

LEMMA CombineConsonantsType ==
    ASSUME NEW c \in Jong, NEW d \in Jong
    PROVE  CombineConsonants(c, d) \in Jong \cup {None}
  BY DEF CombineConsonants, Jong, None

LEMMA ChoToJongType ==
    ASSUME NEW c \in Cho
    PROVE  ChoToJong(c) \in Jong \cup {None}
  BY DEF ChoToJong, Cho, Jong, None

LEMMA SplitType ==
    ASSUME NEW j \in Jong
    PROVE  Stays(j) \in Jong \cup {None} /\ Moves(j) \in Cho
<1>1. Stays(j) \in Jong \cup {None}
  BY DEF Stays, Jong, None
<1>2. JongToCho(j) \in Cho \cup {None}
  BY DEF JongToCho, Cho, Jong, None
<1>3. Moves(j) \in Cho
  BY <1>2 DEF Moves, Cho, Jong, None
<1> QED
  BY <1>1, <1>3

(* A composition with something in it has a character.                     *)
LEMMA NotBlank ==
    ASSUME NEW c \in Composition, c # Blank
    PROVE  c.cho # None \/ c.jung # None
<1> SUFFICES ASSUME c.cho = None, c.jung = None PROVE FALSE
  OBVIOUS
<1>1. c.jong = None
  BY DEF Composition
<1>2. c = [cho |-> c.cho, jung |-> c.jung, jong |-> c.jong]
  BY DEF Composition
<1> QED
  BY <1>1, <1>2 DEF Blank, Composing

LEMMA CodeRange ==
    \A a \in 0..18, b \in 0..20, d \in 0..27 :
       a * 588 + b * 28 + d \in 0..(19 * 21 * 28 - 1)
  OBVIOUS

LEMMA SyllableCode ==
    ASSUME NEW a \in 0..18, NEW b \in 0..20, NEW d \in 0..27
    PROVE  /\ (a * 588 + b * 28 + d) \div (21 * 28) = a
           /\ ((a * 588 + b * 28 + d) \div 28) % 21 = b
           /\ (a * 588 + b * 28 + d) % 28 = d
  OBVIOUS

LEMMA ComposedCharType ==
    ASSUME NEW c \in Composition, c # Blank
    PROVE  ComposedChar(c) \in Character
<1>1. c.cho # None \/ c.jung # None
  BY NotBlank
<1>2. /\ c.cho \in Cho \cup {None}
      /\ c.jung \in Jung \cup {None}
      /\ c.jong \in Jong \cup {None}
  BY DEF Composition
<1>3. CASE c.cho # None /\ c.jung # None
  <2> DEFINE last == IF c.jong = None THEN 0 ELSE c.jong
             code == c.cho * 588 + c.jung * 28 + last
  <2>1. code \in 0..(19 * 21 * 28 - 1)
    <3>1. c.cho \in 0..18 /\ c.jung \in 0..20 /\ last \in 0..27
      BY <1>2, <1>3 DEF Cho, Jung, Jong, None
    <3> HIDE DEF last
    <3> QED
      BY <3>1, CodeRange
  <2>2. ComposedChar(c) = Char("syllable", code)
    BY <1>3 DEF ComposedChar
  <2> HIDE DEF code
  <2> QED
    BY <2>1, <2>2 DEF Character, Char
<1>4. CASE c.cho # None /\ c.jung = None
  BY <1>2, <1>4 DEF ComposedChar, Character, Char
<1>5. CASE c.cho = None
  BY <1>1, <1>2, <1>5 DEF ComposedChar, Character, Char
<1> QED
  BY <1>3, <1>4, <1>5

LEMMA BackspacedType ==
    ASSUME NEW c \in Composition
    PROVE  Backspaced(c) \in Composition
  BY DEF Composition, Blank, Composing, Backspaced, Cho, Jung, Jong, None

(* A key leaves a composition, and commits characters that exist.          *)
LEMMA VowelKeyType ==
    ASSUME NEW c \in Composition, NEW v \in SingleVowels
    PROVE  /\ VowelKey(c, v).next \in Composition
           /\ VowelKey(c, v).out \in Seq(Character)
<1>0. v \in Jung
  BY DEF SingleVowels, Jung
<1>1. CASE c.jung = None
  BY <1>0, <1>1 DEF VowelKey, Goes, Step, Composition, Blank, Composing
<1>2. CASE c.jung # None /\ c.jong = None
  <2>1. c # Blank /\ c.jung \in Jung
    BY <1>2 DEF Composition, Blank, Composing
  <2>2. CombineVowels(c.jung, v) \in Jung \cup {None}
    BY <2>1, CombineVowelsType
  <2>3. ComposedChar(c) \in Character
    BY <2>1, ComposedCharType
  <2>4. [c EXCEPT !.jung = CombineVowels(c.jung, v)] \in Composition
          \/ CombineVowels(c.jung, v) = None
    BY <2>1, <2>2 DEF Composition, Blank, Composing
  <2>5. Composing(None, v, None) \in Composition
    BY <1>0 DEF Composition, Composing
  <2> QED
    BY <1>2, <2>3, <2>4, <2>5 DEF VowelKey, Goes, Commits, Step
<1>3. CASE c.jung # None /\ c.jong # None
  <2>1. c.cho \in Cho /\ c.jung \in Jung /\ c.jong \in Jong
    BY <1>3 DEF Composition
  <2>2. Stays(c.jong) \in Jong \cup {None} /\ Moves(c.jong) \in Cho
    BY <2>1, SplitType
  <2> DEFINE left == [c EXCEPT !.jong = Stays(c.jong)]
  <2>3. left \in Composition /\ left # Blank
    <3>1. left = [cho |-> c.cho, jung |-> c.jung, jong |-> Stays(c.jong)]
      BY DEF Composition
    <3>2. c.cho # None /\ c.jung # None
      BY <1>3 DEF Composition
    <3> QED
      BY <2>1, <2>2, <3>1, <3>2 DEF Composition, Blank, Composing
  <2>4. ComposedChar(left) \in Character
    BY <2>3, ComposedCharType
  <2>5. Composing(Moves(c.jong), v, None) \in Composition
    BY <1>0, <2>2 DEF Composition, Composing
  <2> QED
    BY <1>3, <2>4, <2>5 DEF VowelKey, Commits, Step
<1> QED
  BY <1>1, <1>2, <1>3

LEMMA ConsonantKeyType ==
    ASSUME NEW c \in Composition, NEW i \in Cho
    PROVE  /\ ConsonantKey(c, i).next \in Composition
           /\ ConsonantKey(c, i).out \in Seq(Character)
<1> DEFINE final == ChoToJong(i)
           joined == IF c.jong = None \/ final = None THEN final
                     ELSE CombineConsonants(c.jong, final)
           first == [cho |-> i, jung |-> None, jong |-> None]
<1>1. c.jong \in Jong \cup {None} /\ final \in Jong \cup {None}
  BY ChoToJongType DEF Composition
<1>2. joined \in Jong \cup {None}
  BY <1>1, CombineConsonantsType
<1>3. first \in Composition
  BY DEF Composition
<1>4. CASE c = Blank
  <2>1. ConsonantKey(c, i) = [out |-> <<>>, next |-> first]
    BY <1>4 DEF ConsonantKey, Goes, Step, Composing
  <2> QED
    BY <1>3, <2>1
<1>5. CASE c # Blank /\ c.cho = None
  <2>1. ConsonantKey(c, i) = [out |-> <<>>, next |-> c]
    BY <1>5 DEF ConsonantKey, Goes, Step
  <2> QED
    BY <2>1
<1>6. CASE c # Blank /\ c.cho # None /\ (c.jung = None \/ joined = None)
  <2>1. ConsonantKey(c, i) = [out |-> <<ComposedChar(c)>>, next |-> first]
    BY <1>6 DEF ConsonantKey, Commits, Step, Composing
  <2>2. ComposedChar(c) \in Character
    BY <1>6, ComposedCharType
  <2> QED
    BY <1>3, <2>1, <2>2
<1>7. CASE c # Blank /\ c.cho # None /\ c.jung # None /\ joined # None
  <2>1. ConsonantKey(c, i) = [out |-> <<>>, next |-> [c EXCEPT !.jong = joined]]
    BY <1>7 DEF ConsonantKey, Goes, Step
  <2> HIDE DEF joined
  <2>2. [c EXCEPT !.jong = joined] \in Composition
    BY <1>2, <1>7 DEF Composition
  <2> QED
    BY <2>1, <2>2
<1> QED
  BY <1>4, <1>5, <1>6, <1>7

LEMMA ProcessKeyType ==
    ASSUME NEW c \in Composition, NEW k \in Jamo
    PROVE  /\ ProcessKey(c, k).next \in Composition
           /\ ProcessKey(c, k).out \in Seq(Character)
<1>1. CASE \E i \in Cho : k = Consonant(i)
  BY <1>1, ConsonantKeyType DEF ProcessKey, Consonant
<1>2. CASE \E v \in SingleVowels : k = Vowel(v)
  BY <1>2, VowelKeyType DEF ProcessKey, Vowel
<1> QED
  BY <1>1, <1>2 DEF Jamo

-----------------------------------------------------------------------------
(* The tables against the reference: what is joined and what is split is   *)
(* spelled by the same keys.                                               *)

LEMMA OneTwo ==
    /\ \A a, b : <<a>> \o <<b>> = <<a, b>>
    /\ \A a : <<>> \o <<a>> = <<a>>
<1>1. ASSUME NEW a, NEW b PROVE <<a>> \o <<b>> = <<a, b>>
  <2> DEFINE S == {a, b}
  <2>1. <<a>> \in Seq(S) /\ <<b>> \in Seq(S) /\ <<a, b>> \in Seq(S)
    OBVIOUS
  <2>2. <<a>> \o <<b>> \in Seq(S) /\ Len(<<a>> \o <<b>>) = 2
    BY <2>1
  <2>3. \A i \in 1..2 : (<<a>> \o <<b>>)[i] = <<a, b>>[i]
    BY <2>1
  <2> QED
    BY <2>1, <2>2, <2>3, SeqEqual
<1>2. ASSUME NEW a PROVE <<>> \o <<a>> = <<a>>
  OBVIOUS
<1> QED
  BY <1>1, <1>2

LEMMA SingleVowelKeys ==
    ASSUME NEW v \in SingleVowels
    PROVE  v \in Jung /\ VowelKeys(v) = <<Vowel(v)>>
  BY DEF SingleVowels, Jung, VowelKeys

LEMMA JoinedVowelKeys ==
    ASSUME NEW v \in Jung, NEW w \in SingleVowels, CombineVowels(v, w) # None
    PROVE  VowelKeys(CombineVowels(v, w)) = VowelKeys(v) \o <<Vowel(w)>>
<1>1. VowelKeys(v) = <<Vowel(v)>>
  BY DEF CombineVowels, VowelKeys, None
<1>2. VowelKeys(CombineVowels(v, w)) = <<Vowel(v), Vowel(w)>>
  BY DEF CombineVowels, VowelKeys, None
<1> QED
  BY <1>1, <1>2, OneTwo

LEMMA SingleFinalKeys ==
    ASSUME NEW i \in Cho, ChoToJong(i) # None
    PROVE  FinalKeys(ChoToJong(i)) = One(i)
  BY DEF Cho, ChoToJong, FinalKeys, None

LEMMA InitialOfFinal ==
    ASSUME NEW i \in Cho, ChoToJong(i) # None
    PROVE  JongToCho(ChoToJong(i)) = i
  BY DEF Cho, ChoToJong, JongToCho, None

LEMMA JoinedFinalKeys ==
    ASSUME NEW j \in Jong, NEW i \in Cho, ChoToJong(i) # None,
           CombineConsonants(j, ChoToJong(i)) # None
    PROVE  FinalKeys(CombineConsonants(j, ChoToJong(i))) = FinalKeys(j) \o One(i)
<1> DEFINE d == ChoToJong(i)
<1>1. JongToCho(d) = i
  BY InitialOfFinal
<1> DEFINE e == CombineConsonants(j, d)
<1>2. /\ e # None /\ d \in 1..27 /\ e \in 1..27
  BY ChoToJongType, CombineConsonantsType DEF Jong
<1> HIDE DEF d
<1>3. \E k : FinalKeys(j) = One(k) /\ FinalKeys(e) = Two(k, i)
  <2>1. CASE j = 1
    <3>1. FinalKeys(j) = One(0)
      BY <2>1 DEF FinalKeys
    <3>2. d = 19 /\ e = 3
      BY <1>2, <2>1 DEF e, CombineConsonants, None
    <3>3. FinalKeys(e) = Two(0, i)
      <4> HIDE DEF e
      <4> QED
        BY <1>1, <1>2, <3>2 DEF FinalKeys, JongToCho
    <3> QED
      BY <3>1, <3>3
  <2>2. CASE j = 4
    <3>1. FinalKeys(j) = One(2)
      BY <2>2 DEF FinalKeys
    <3>2. \/ d = 22 /\ e = 5
          \/ d = 27 /\ e = 6
      BY <1>2, <2>2 DEF e, CombineConsonants, None
    <3>3. FinalKeys(e) = Two(2, i)
      <4> HIDE DEF e
      <4> QED
        BY <1>1, <1>2, <3>2 DEF FinalKeys, JongToCho
    <3> QED
      BY <3>1, <3>3
  <2>3. CASE j = 8
    <3>1. FinalKeys(j) = One(5)
      BY <2>3 DEF FinalKeys
    <3>2. \/ d = 1 /\ e = 9
          \/ d = 16 /\ e = 10
          \/ d = 17 /\ e = 11
          \/ d = 19 /\ e = 12
          \/ d = 25 /\ e = 13
          \/ d = 26 /\ e = 14
          \/ d = 27 /\ e = 15
      BY <1>2, <2>3 DEF e, CombineConsonants, None
    <3>3. FinalKeys(e) = Two(5, i)
      <4> HIDE DEF e
      <4> QED
        BY <1>1, <1>2, <3>2 DEF FinalKeys, JongToCho
    <3> QED
      BY <3>1, <3>3
  <2>4. CASE j = 17
    <3>1. FinalKeys(j) = One(7)
      BY <2>4 DEF FinalKeys
    <3>2. d = 19 /\ e = 18
      BY <1>2, <2>4 DEF e, CombineConsonants, None
    <3>3. FinalKeys(e) = Two(7, i)
      <4> HIDE DEF e
      <4> QED
        BY <1>1, <1>2, <3>2 DEF FinalKeys, JongToCho
    <3> QED
      BY <3>1, <3>3
  <2> QED
    BY <1>2, <2>1, <2>2, <2>3, <2>4 DEF e, CombineConsonants
<1> QED
  BY <1>3, OneTwo DEF One, Two, d, e

LEMMA SplitFinalKeys ==
    ASSUME NEW j \in Jong
    PROVE  FinalKeys(j) = (IF Stays(j) = None THEN <<>> ELSE FinalKeys(Stays(j)))
                          \o One(Moves(j))
<1>1. CASE Stays(j) = None
  <2>1. FinalKeys(j) = One(Moves(j))
    BY <1>1 DEF Jong, Stays, Moves, JongToCho, FinalKeys, None
  <2> QED
    BY <1>1, <2>1, OneTwo DEF One
<1>2. CASE Stays(j) # None
  <2>1. \E k \in Cho : /\ FinalKeys(Stays(j)) = One(k)
                       /\ FinalKeys(j) = Two(k, Moves(j))
    BY <1>2 DEF Jong, Cho, Stays, Moves, FinalKeys, None
  <2> QED
    BY <1>2, <2>1, OneTwo DEF One, Two
<1> QED
  BY <1>1, <1>2

-----------------------------------------------------------------------------
(* The automaton against the reference.                                    *)

(* What is finished and what is composed after a key, as keys.             *)
Spelled(step) ==
    (IF step.out = <<>> THEN <<>> ELSE SpellingOf(step.out[1])) \o KeysOf(step.next)

ChoKeys(c)  == IF c.cho = None THEN <<>> ELSE One(c.cho)
JungKeys(c) == IF c.jung = None THEN <<>> ELSE VowelKeys(c.jung)
JongKeys(c) == IF c.jong = None THEN <<>> ELSE FinalKeys(c.jong)

LEMMA KeysOfParts ==
    ASSUME NEW c PROVE KeysOf(c) = ChoKeys(c) \o JungKeys(c) \o JongKeys(c)
  BY DEF KeysOf, ChoKeys, JungKeys, JongKeys

AnyKeys == [vowel : BOOLEAN, index : Int]

LEMMA KeysType ==
    ASSUME NEW c \in Composition
    PROVE  /\ ChoKeys(c) \in Seq(AnyKeys) /\ JungKeys(c) \in Seq(AnyKeys)
           /\ JongKeys(c) \in Seq(AnyKeys) /\ KeysOf(c) \in Seq(AnyKeys)
<1>1. \A i \in Cho : One(i) \in Seq(AnyKeys)
  BY DEF One, Consonant, Cho, AnyKeys
<1>2. \A i, k \in Cho : Two(i, k) \in Seq(AnyKeys)
  BY DEF Two, Consonant, Cho, AnyKeys
<1>3. \A v \in Jung : VowelKeys(v) \in Seq(AnyKeys)
  <2>1. \A v, w \in Jung : /\ <<Vowel(v)>> \in Seq(AnyKeys)
                           /\ <<Vowel(v), Vowel(w)>> \in Seq(AnyKeys)
    BY DEF Vowel, Jung, AnyKeys
  <2> QED
    BY <2>1 DEF VowelKeys, Jung
<1>4. \A j \in Jong : FinalKeys(j) \in Seq(AnyKeys)
  BY <1>1, <1>2 DEF FinalKeys, Jong, Cho
<1>5. /\ ChoKeys(c) \in Seq(AnyKeys) /\ JungKeys(c) \in Seq(AnyKeys)
      /\ JongKeys(c) \in Seq(AnyKeys)
  BY <1>1, <1>3, <1>4 DEF Composition, ChoKeys, JungKeys, JongKeys
<1>6. KeysOf(c) \in Seq(AnyKeys)
  <2>1. \A S : \A x, y, z \in Seq(S) : x \o y \o z \in Seq(S)
    OBVIOUS
  <2>2. KeysOf(c) = ChoKeys(c) \o JungKeys(c) \o JongKeys(c)
    BY KeysOfParts
  <2> QED
    BY <1>5, <2>1, <2>2
<1> QED
  BY <1>5, <1>6

(* A committed character is spelled by the keys of the composition.        *)
LEMMA ComposedCharSpelling ==
    ASSUME NEW c \in Composition, c # Blank
    PROVE  SpellingOf(ComposedChar(c)) = KeysOf(c)
<1> SUFFICES Decomposed(ComposedChar(c)) = c /\ ComposedChar(c).kind # "sign"
  BY DEF SpellingOf
<1>1. c.cho # None \/ c.jung # None
  BY NotBlank
<1>2. /\ c = [cho |-> c.cho, jung |-> c.jung, jong |-> c.jong]
      /\ c.cho \in Cho \cup {None} /\ c.jung \in Jung \cup {None}
      /\ c.jong \in Jong \cup {None}
      /\ c.jong # None => c.cho # None /\ c.jung # None
  BY DEF Composition
<1>3. CASE c.cho # None /\ c.jung # None
  <2> DEFINE last == IF c.jong = None THEN 0 ELSE c.jong
             code == c.cho * 588 + c.jung * 28 + last
  <2>1. c.cho \in 0..18 /\ c.jung \in 0..20 /\ last \in 0..27
    BY <1>2, <1>3 DEF Cho, Jung, Jong, None
  <2>2. c.jong = IF last = 0 THEN None ELSE last
    BY <1>2 DEF Jong, None
  <2>3. ComposedChar(c) = [kind |-> "syllable", code |-> code]
    BY <1>3 DEF ComposedChar, Char
  <2> HIDE DEF last
  <2>4. code \div (21 * 28) = c.cho /\ (code \div 28) % 21 = c.jung /\ code % 28 = last
    <3> DEFINE a == c.cho
               b == c.jung
    <3>1. a \in 0..18 /\ b \in 0..20
      BY <2>1
    <3> HIDE DEF a, b
    <3>2. LET n == a * 588 + b * 28 + last IN
            n \div (21 * 28) = a /\ (n \div 28) % 21 = b /\ n % 28 = last
      BY <2>1, <3>1, SyllableCode
    <3> QED
      BY <3>2 DEF a, b
  <2> HIDE DEF code
  <2>5. Decomposed(ComposedChar(c))
          = Composing(code \div (21 * 28), (code \div 28) % 21,
                      IF code % 28 = 0 THEN None ELSE code % 28)
    BY <2>3 DEF Decomposed
  <2> QED
    BY <1>2, <2>2, <2>3, <2>4, <2>5 DEF Composing
<1>4. CASE c.cho # None /\ c.jung = None
  BY <1>2, <1>4 DEF ComposedChar, Decomposed, Composing, Char
<1>5. CASE c.cho = None
  BY <1>1, <1>2, <1>5 DEF ComposedChar, Decomposed, Composing, Char
<1> QED
  BY <1>3, <1>4, <1>5

(* Sequences joined three times.                                           *)
LEMMA JoinAssociates ==
    ASSUME NEW S, NEW x \in Seq(S), NEW y \in Seq(S), NEW z \in Seq(S)
    PROVE  (x \o y) \o z = x \o (y \o z)
  OBVIOUS

(* Sequences joined, with the empty one too.                               *)
LEMMA JoinFacts ==
    ASSUME NEW S, NEW x \in Seq(S), NEW y \in Seq(S), NEW z \in Seq(S)
    PROVE  /\ (x \o y) \o z = x \o (y \o z)
           /\ x \o <<>> = x
           /\ <<>> \o x = x
           /\ x \o y \in Seq(S)
<1>1. x \o <<>> = x /\ <<>> \o x = x
  OBVIOUS
<1>2. x \o y \in Seq(S)
  OBVIOUS
<1> QED
  BY <1>1, <1>2, JoinAssociates

LEMMA JoinMoved ==
    ASSUME NEW S, NEW p \in Seq(S), NEW x \in Seq(S), NEW y \in Seq(S), NEW z \in Seq(S)
    PROVE  (p \o x) \o (y \o z) = (p \o (x \o y)) \o z
<1>1. y \o z \in Seq(S) /\ x \o y \in Seq(S)
  OBVIOUS
<1>2. (p \o x) \o (y \o z) = p \o (x \o (y \o z))
  BY <1>1, JoinAssociates
<1>3. x \o (y \o z) = (x \o y) \o z
  BY JoinAssociates
<1>4. p \o ((x \o y) \o z) = (p \o (x \o y)) \o z
  BY <1>1, JoinAssociates
<1> QED
  BY <1>2, <1>3, <1>4

LEMMA SpelledWhenGoing ==
    ASSUME NEW n \in Composition PROVE Spelled(Goes(n)) = KeysOf(n)
<1>1. Spelled(Goes(n)) = <<>> \o KeysOf(n)
  BY DEF Spelled, Goes, Step
<1>2. KeysOf(n) \in Seq(AnyKeys)
  BY KeysType
<1> QED
  BY <1>1, <1>2, JoinFacts

LEMMA SpelledWhenCommitting ==
    ASSUME NEW c \in Composition, c # Blank, NEW n
    PROVE  Spelled(Commits(c, n)) = KeysOf(c) \o KeysOf(n)
<1>1. Spelled(Commits(c, n)) = SpellingOf(ComposedChar(c)) \o KeysOf(n)
  BY DEF Spelled, Commits, Step
<1> QED
  BY <1>1, ComposedCharSpelling

LEMMA KeysOfFirsts ==
    /\ \A i \in Cho : /\ Composing(i, None, None) \in Composition
                      /\ KeysOf(Composing(i, None, None)) = One(i)
    /\ \A v \in SingleVowels : /\ Composing(None, v, None) \in Composition
                               /\ KeysOf(Composing(None, v, None)) = <<Vowel(v)>>
    /\ \A i \in Cho, v \in SingleVowels :
          KeysOf(Composing(i, v, None)) = One(i) \o <<Vowel(v)>>
<1>1. ASSUME NEW i \in Cho
      PROVE  /\ Composing(i, None, None) \in Composition
             /\ KeysOf(Composing(i, None, None)) = One(i)
  <2>1. One(i) \in Seq(AnyKeys) /\ i # None
    BY DEF One, Consonant, Cho, AnyKeys, None
  <2>2. KeysOf(Composing(i, None, None)) = One(i) \o <<>> \o <<>>
    BY <2>1 DEF KeysOf, Composing
  <2>3. Composing(i, None, None) \in Composition
    BY DEF Composing, Composition
  <2> QED
    BY <2>1, <2>2, <2>3, JoinFacts
<1>2. ASSUME NEW v \in SingleVowels
      PROVE  /\ v \in Jung /\ v # None /\ VowelKeys(v) = <<Vowel(v)>>
             /\ <<Vowel(v)>> \in Seq(AnyKeys)
  BY SingleVowelKeys DEF SingleVowels, Vowel, AnyKeys, None
<1>3. ASSUME NEW v \in SingleVowels
      PROVE  /\ Composing(None, v, None) \in Composition
             /\ KeysOf(Composing(None, v, None)) = <<Vowel(v)>>
  <2> DEFINE k == <<Vowel(v)>>
  <2>1. KeysOf(Composing(None, v, None)) = <<>> \o k \o <<>>
    BY <1>2 DEF KeysOf, Composing
  <2>2. Composing(None, v, None) \in Composition
    BY <1>2 DEF Composing, Composition
  <2>3. k \in Seq(AnyKeys) /\ <<>> \in Seq(AnyKeys)
    BY <1>2
  <2> HIDE DEF k
  <2>4. <<>> \o k \o <<>> = k
    BY <2>3, JoinFacts
  <2> QED
    BY <2>1, <2>2, <2>4 DEF k
<1>4. ASSUME NEW i \in Cho, NEW v \in SingleVowels
      PROVE  KeysOf(Composing(i, v, None)) = One(i) \o <<Vowel(v)>>
  <2> DEFINE k == <<Vowel(v)>>
  <2>1. One(i) \in Seq(AnyKeys) /\ i # None
    BY DEF One, Consonant, Cho, AnyKeys, None
  <2>2. KeysOf(Composing(i, v, None)) = One(i) \o k \o <<>>
    BY <1>2, <2>1 DEF KeysOf, Composing
  <2>3. k \in Seq(AnyKeys)
    BY <1>2
  <2> HIDE DEF k
  <2>4. One(i) \o k \in Seq(AnyKeys)
    BY <2>1, <2>3
  <2>5. One(i) \o k \o <<>> = One(i) \o k
    BY <2>4, JoinFacts
  <2> QED
    BY <2>2, <2>5 DEF k
<1> QED
  BY <1>1, <1>3, <1>4

(* A vowel: what was composed, and the key after it.                       *)
LEMMA VowelKept ==
    ASSUME NEW c \in Composition, NEW v \in SingleVowels
    PROVE  Spelled(VowelKey(c, v)) = KeysOf(c) \o <<Vowel(v)>>
<1> DEFINE a == ChoKeys(c)
           b == JungKeys(c)
           d == JongKeys(c)
           k == <<Vowel(v)>>
<1>1. KeysOf(c) = a \o b \o d
  BY KeysOfParts
<1>2. /\ a \in Seq(AnyKeys) /\ b \in Seq(AnyKeys) /\ d \in Seq(AnyKeys)
      /\ <<>> \in Seq(AnyKeys)
  BY KeysType
<1>3. k \in Seq(AnyKeys) /\ v \in Jung /\ v # None /\ VowelKeys(v) = k
  BY SingleVowelKeys DEF SingleVowels, Vowel, AnyKeys, None
<1>4. /\ c = [cho |-> c.cho, jung |-> c.jung, jong |-> c.jong]
      /\ c.cho \in Cho \cup {None} /\ c.jung \in Jung \cup {None}
      /\ c.jong \in Jong \cup {None}
      /\ c.jong # None => c.cho # None /\ c.jung # None
  BY DEF Composition
<1>5. CASE c.jung = None
  <2> DEFINE n == [c EXCEPT !.jung = v]
  <2>1. VowelKey(c, v) = Goes(n)
    BY <1>5 DEF VowelKey
  <2>2. n.cho = c.cho /\ n.jung = v /\ n.jong = None /\ n \in Composition
    BY <1>3, <1>4, <1>5 DEF Composition
  <2>3. ChoKeys(n) = a /\ JungKeys(n) = k /\ JongKeys(n) = <<>>
    BY <1>3, <2>2 DEF ChoKeys, JungKeys, JongKeys
  <2>4. b = <<>> /\ d = <<>>
    BY <1>4, <1>5 DEF JungKeys, JongKeys
  <2> HIDE DEF n
  <2>5. KeysOf(n) = a \o k \o <<>>
    BY <2>3, KeysOfParts
  <2> HIDE DEF a, b, d, k
  <2>6. a \o k \in Seq(AnyKeys)
    BY <1>2, <1>3
  <2>7. KeysOf(n) = a \o k
    BY <2>5, <2>6, JoinFacts
  <2>8. KeysOf(c) = a
    BY <1>1, <1>2, <2>4, JoinFacts
  <2> QED
    BY <2>1, <2>2, <2>7, <2>8, SpelledWhenGoing DEF k
<1>6. CASE c.jung # None /\ c.jong = None /\ CombineVowels(c.jung, v) # None
  <2> DEFINE n == [c EXCEPT !.jung = CombineVowels(c.jung, v)]
  <2>1. VowelKey(c, v) = Goes(n)
    BY <1>6 DEF VowelKey
  <2>2. CombineVowels(c.jung, v) \in Jung /\ c.jung \in Jung
    BY <1>4, <1>6, CombineVowelsType
  <2>3. /\ n.cho = c.cho /\ n.jung = CombineVowels(c.jung, v) /\ n.jong = None
        /\ n \in Composition
    BY <1>4, <1>6, <2>2 DEF Composition
  <2>4. ChoKeys(n) = a /\ JungKeys(n) = b \o k /\ JongKeys(n) = <<>>
    BY <1>6, <2>2, <2>3, JoinedVowelKeys DEF ChoKeys, JungKeys, JongKeys
  <2>5. d = <<>>
    BY <1>6 DEF JongKeys
  <2> HIDE DEF n
  <2>6. KeysOf(n) = a \o (b \o k) \o <<>>
    BY <2>4, KeysOfParts
  <2> HIDE DEF a, b, d, k
  <2>7. a \o b \in Seq(AnyKeys) /\ a \o (b \o k) \in Seq(AnyKeys)
    BY <1>2, <1>3
  <2>8. KeysOf(n) = (a \o b) \o k
    BY <1>2, <1>3, <2>6, <2>7, JoinFacts
  <2>9. KeysOf(c) = a \o b
    BY <1>1, <2>5, <2>7, JoinFacts
  <2> QED
    BY <2>1, <2>3, <2>8, <2>9, SpelledWhenGoing DEF k
<1>7. CASE c.jung # None /\ c.jong = None /\ CombineVowels(c.jung, v) = None
  <2>1. VowelKey(c, v) = Commits(c, Composing(None, v, None)) /\ c # Blank
    BY <1>7 DEF VowelKey, Blank, Composing
  <2> QED
    BY <2>1, SpelledWhenCommitting, KeysOfFirsts
<1>8. CASE c.jong # None
  <2> DEFINE left == [c EXCEPT !.jong = Stays(c.jong)]
             last == JongKeys(left)
             m == One(Moves(c.jong))
  <2>1. VowelKey(c, v) = Commits(left, Composing(Moves(c.jong), v, None))
    BY <1>4, <1>8 DEF VowelKey
  <2>2. c.jong \in Jong /\ Stays(c.jong) \in Jong \cup {None} /\ Moves(c.jong) \in Cho
    BY <1>4, <1>8, SplitType
  <2>3. left \in Composition /\ left # Blank
    BY <1>4, <1>8, <2>2 DEF Composition, Blank, Composing
  <2>4. left.cho = c.cho /\ left.jung = c.jung /\ left.jong = Stays(c.jong)
    BY <1>4
  <2>5. ChoKeys(left) = a /\ JungKeys(left) = b /\ d = last \o m
    <3>1. ChoKeys(left) = a /\ JungKeys(left) = b
      BY <2>4 DEF ChoKeys, JungKeys
    <3>2. d = FinalKeys(c.jong)
      BY <1>8 DEF JongKeys
    <3>3. last = IF Stays(c.jong) = None THEN <<>> ELSE FinalKeys(Stays(c.jong))
      BY <2>4 DEF JongKeys
    <3> QED
      BY <2>2, <3>1, <3>2, <3>3, SplitFinalKeys
  <2>6. last \in Seq(AnyKeys) /\ m \in Seq(AnyKeys)
    <3>1. last \in Seq(AnyKeys)
      BY <2>3, KeysType
    <3>2. m \in Seq(AnyKeys)
      BY <2>2, KeysOfFirsts, KeysType
    <3> QED
      BY <3>1, <3>2
  <2>7. KeysOf(left) = a \o b \o last
    BY <2>5, KeysOfParts
  <2>8. KeysOf(Composing(Moves(c.jong), v, None)) = m \o k
    BY <2>2, KeysOfFirsts
  <2>9. Spelled(VowelKey(c, v)) = (a \o b \o last) \o (m \o k)
    BY <2>1, <2>3, <2>7, <2>8, SpelledWhenCommitting
  <2> HIDE DEF a, b, d, k, left, last, m
  <2> DEFINE p == a \o b
  <2>10. p \in Seq(AnyKeys)
    BY <1>2
  <2>11. Spelled(VowelKey(c, v)) = (p \o last) \o (m \o k) /\ KeysOf(c) = p \o (last \o m)
    BY <1>1, <2>5, <2>9
  <2> HIDE DEF p
  <2> QED
    BY <1>3, <2>6, <2>10, <2>11, JoinMoved DEF k
<1> QED
  BY <1>5, <1>6, <1>7, <1>8

(* A consonant, but after a vowel alone.                                   *)
LEMMA ConsonantKept ==
    ASSUME NEW c \in Composition, NEW i \in Cho, c.cho # None \/ c.jung = None
    PROVE  Spelled(ConsonantKey(c, i)) = KeysOf(c) \o One(i)
<1> DEFINE final == ChoToJong(i)
           joined == IF c.jong = None \/ final = None THEN final
                     ELSE CombineConsonants(c.jong, final)
           first == Composing(i, None, None)
<1>1. /\ c = [cho |-> c.cho, jung |-> c.jung, jong |-> c.jong]
      /\ c.cho \in Cho \cup {None} /\ c.jung \in Jung \cup {None}
      /\ c.jong \in Jong \cup {None}
      /\ c.jong # None => c.cho # None /\ c.jung # None
  BY DEF Composition
<1>2. first \in Composition /\ KeysOf(first) = One(i) /\ One(i) \in Seq(AnyKeys)
  BY KeysOfFirsts, KeysType
<1>3. CASE c = Blank
  <2>1. ConsonantKey(c, i) = Goes(first)
    BY <1>3 DEF ConsonantKey
  <2>2. KeysOf(c) = <<>>
    BY <1>3 DEF KeysOf, Blank, Composing
  <2>3. <<>> \o One(i) = One(i)
    BY <1>2, JoinFacts
  <2> QED
    BY <1>2, <2>1, <2>2, <2>3, SpelledWhenGoing
<1>4. CASE c # Blank /\ (c.jung = None \/ joined = None)
  <2>1. c.cho # None
    BY <1>4, NotBlank
  <2>2. ConsonantKey(c, i) = Commits(c, first)
    BY <1>4, <2>1 DEF ConsonantKey
  <2> QED
    BY <1>2, <1>4, <2>2, SpelledWhenCommitting
<1>5. CASE c # Blank /\ c.jung # None /\ joined # None
  <2> DEFINE n == [c EXCEPT !.jong = joined]
             a == ChoKeys(c)
             b == JungKeys(c)
             d == JongKeys(c)
             k == One(i)
  <2>1. ConsonantKey(c, i) = Goes(n) /\ c.cho # None
    BY <1>5 DEF ConsonantKey
  <2>2. final \in Jong
    BY <1>5, ChoToJongType
  <2>3. joined \in Jong /\ FinalKeys(joined) = d \o k
    <3>1. CASE c.jong = None
      <4>1. joined = final /\ d = <<>>
        BY <3>1 DEF JongKeys
      <4>2. FinalKeys(final) = k
        BY <2>2, SingleFinalKeys DEF Jong, None
      <4> QED
        BY <1>2, <2>2, <4>1, <4>2, JoinFacts
    <3>2. CASE c.jong # None
      <4>1. final # None
        BY <2>2 DEF Jong, None
      <4>2. joined = CombineConsonants(c.jong, final) /\ d = FinalKeys(c.jong)
        BY <3>2, <4>1 DEF JongKeys
      <4>3. c.jong \in Jong
        BY <1>1, <3>2
      <4> QED
        BY <1>5, <2>2, <4>1, <4>2, <4>3, CombineConsonantsType, JoinedFinalKeys
    <3> QED
      BY <3>1, <3>2
  <2> HIDE DEF joined
  <2>4. n.cho = c.cho /\ n.jung = c.jung /\ n.jong = joined /\ n \in Composition
    BY <1>1, <1>5, <2>1, <2>3 DEF Composition
  <2>5. ChoKeys(n) = a /\ JungKeys(n) = b /\ JongKeys(n) = d \o k
    BY <1>5, <2>3, <2>4 DEF ChoKeys, JungKeys, JongKeys
  <2>6. KeysOf(n) = a \o b \o (d \o k) /\ KeysOf(c) = a \o b \o d
    BY <2>5, KeysOfParts
  <2>7. a \in Seq(AnyKeys) /\ b \in Seq(AnyKeys) /\ d \in Seq(AnyKeys) /\ k \in Seq(AnyKeys)
    BY <1>2, KeysType
  <2>8. Spelled(ConsonantKey(c, i)) = KeysOf(n)
    BY <2>1, <2>4, SpelledWhenGoing
  <2> HIDE DEF n, a, b, d, k
  <2> DEFINE p == a \o b
  <2>9. p \in Seq(AnyKeys)
    BY <2>7
  <2>10. KeysOf(n) = p \o (d \o k) /\ KeysOf(c) = p \o d
    BY <2>6
  <2> HIDE DEF p
  <2> QED
    BY <2>7, <2>8, <2>9, <2>10, JoinFacts DEF k
<1> QED
  BY <1>3, <1>4, <1>5

(* Whatever is composed and whichever key is pressed, what is committed    *)
(* and what is then composed are spelled, by the arithmetic of Unicode, by *)
(* the keys that spelled the composition and the one pressed: only the     *)
(* consonant after a vowel alone is lost.                                  *)
THEOREM KeysAreKept ==
    ASSUME NEW c \in Composition, NEW k \in Jamo, ~Lost(c, k)
    PROVE  Spelled(ProcessKey(c, k)) = KeysOf(c) \o <<k>>
<1>1. ASSUME NEW i \in Cho, k = Consonant(i) PROVE Spelled(ProcessKey(c, k)) = KeysOf(c) \o <<k>>
  <2>1. ~k.vowel /\ k.index = i /\ One(i) = <<k>>
    BY <1>1 DEF Consonant, One
  <2>2. c.cho # None \/ c.jung = None
    BY <2>1 DEF Lost
  <2> QED
    BY <2>1, <2>2, ConsonantKept DEF ProcessKey
<1>2. ASSUME NEW v \in SingleVowels, k = Vowel(v) PROVE Spelled(ProcessKey(c, k)) = KeysOf(c) \o <<k>>
  <2>1. k.vowel /\ k.index = v
    BY <1>2 DEF Vowel
  <2> QED
    BY <1>2, <2>1, VowelKept DEF ProcessKey
<1> QED
  BY <1>1, <1>2 DEF Jamo

(* Backspace takes keys away from the end of a composition, and always     *)
(* some: the keys of its last letter.                                      *)
THEOREM BackspaceTakesKeys ==
    ASSUME NEW c \in Composition, c # Blank
    PROVE  \E rest \in Seq(AnyKeys) :
              rest # <<>> /\ KeysOf(c) = KeysOf(Backspaced(c)) \o rest
<1> DEFINE a == ChoKeys(c)
           b == JungKeys(c)
           d == JongKeys(c)
           n == Backspaced(c)
<1>1. KeysOf(c) = a \o b \o d /\ KeysOf(n) = ChoKeys(n) \o JungKeys(n) \o JongKeys(n)
  BY KeysOfParts
<1>2. /\ a \in Seq(AnyKeys) /\ b \in Seq(AnyKeys) /\ d \in Seq(AnyKeys)
      /\ <<>> \in Seq(AnyKeys)
  BY KeysType
<1>3. /\ c.cho \in Cho \cup {None} /\ c.jung \in Jung \cup {None}
      /\ c.jong \in Jong \cup {None}
      /\ c.cho # None \/ c.jung # None
  BY NotBlank DEF Composition
<1>4. CASE c.jong # None
  <2>1. ChoKeys(n) = a /\ JungKeys(n) = b /\ JongKeys(n) = <<>>
    BY <1>4 DEF Backspaced, Composition, ChoKeys, JungKeys, JongKeys
  <2>2. d # <<>>
    <3>1. \A j \in Jong : FinalKeys(j) # <<>>
      BY DEF Jong, FinalKeys, One, Two
    <3> QED
      BY <1>3, <1>4, <3>1 DEF JongKeys
  <2> HIDE DEF a, b, d, n
  <2>3. KeysOf(n) = a \o b
    BY <1>1, <1>2, <2>1, JoinFacts
  <2> QED
    BY <1>1, <1>2, <2>2, <2>3 DEF n
<1>5. CASE c.jong = None /\ c.jung # None
  <2>1. ChoKeys(n) = a /\ JungKeys(n) = <<>> /\ JongKeys(n) = <<>> /\ d = <<>>
    BY <1>5 DEF Backspaced, Composition, ChoKeys, JungKeys, JongKeys
  <2>2. b # <<>>
    <3>1. \A v \in Jung : VowelKeys(v) # <<>>
      BY DEF Jung, VowelKeys
    <3> QED
      BY <1>3, <1>5, <3>1 DEF JungKeys
  <2> HIDE DEF a, b, d, n
  <2>3. KeysOf(n) = a /\ KeysOf(c) = a \o b
    BY <1>1, <1>2, <2>1, JoinFacts
  <2> QED
    BY <1>2, <2>2, <2>3 DEF n
<1>6. CASE c.jong = None /\ c.jung = None
  <2>1. n = Blank /\ b = <<>> /\ d = <<>>
    BY <1>6 DEF Backspaced, JungKeys, JongKeys
  <2>2. a # <<>>
    BY <1>3, <1>6 DEF ChoKeys, One
  <2>3. ChoKeys(n) = <<>> /\ JungKeys(n) = <<>> /\ JongKeys(n) = <<>>
    BY <2>1 DEF Blank, Composing, ChoKeys, JungKeys, JongKeys
  <2> HIDE DEF a, b, d, n
  <2>4. KeysOf(n) = <<>> /\ KeysOf(c) = a
    BY <1>1, <1>2, <2>1, <2>3, JoinFacts
  <2>5. KeysOf(c) = KeysOf(n) \o a
    BY <1>2, <2>4, JoinFacts
  <2> QED
    BY <1>2, <2>2, <2>5 DEF n
<1> QED
  BY <1>4, <1>5, <1>6

-----------------------------------------------------------------------------
(* The line.                                                               *)

(* What the actions add to the text.                                       *)

NoNameIn(chars) == \A i \in DOMAIN chars : chars[i] # At

LEMMA ComposedCharIsNoName ==
    ASSUME NEW c PROVE ComposedChar(c) # At
  BY DEF ComposedChar, Char, At, Space

LEMMA CommittedType ==
    ASSUME NEW c \in Composition, c # Blank
    PROVE  <<ComposedChar(c)>> \in Seq(Character) /\ NoNameIn(<<ComposedChar(c)>>)
<1>1. ComposedChar(c) \in Character
  BY ComposedCharType
<1>2. ComposedChar(c) # At
  BY ComposedCharIsNoName
<1> QED
  BY <1>1, <1>2 DEF NoNameIn

LEMMA CharacterFacts ==
    /\ Space \in Character /\ Space # At
    /\ Latin \in Character /\ Latin # At
    /\ Blank \in Composition
    /\ \A ch \in Signs : ch \in Character /\ ch # At
    /\ \A n \in Names : n \in Seq(Character) /\ n # <<>>
<1>1. /\ Space \in Character /\ Space # At
      /\ Latin \in Character /\ Latin # At
  BY DEF Space, Latin, At, Char, Character
<1>2. Blank \in Composition
  BY DEF Blank, Composing, Composition
<1>3. \A ch \in Signs : ch \in Character /\ ch # At
  BY KeysAssumption DEF Character
<1>4. ASSUME NEW n \in Names PROVE n \in Seq(Character) /\ n # <<>>
  <2>1. n \in Seq([kind : {"sign"}, code : Nat]) /\ n # <<>>
    BY KeysAssumption
  <2>2. [kind : {"sign"}, code : Nat] \subseteq Character
    BY DEF Character
  <2> QED
    BY <2>1, <2>2, SeqMonotonic
<1> QED
  BY <1>1, <1>2, <1>3, <1>4

(* Every action but those that delete or clear extends the text; only a    *)
(* click extends it by a name.                                             *)
Extends == \E chars \in Seq(Character) : text' = text \o chars /\ NoNameIn(chars)

LEMMA CommitAndPushType ==
    ASSUME TypeOK, NEW chars \in Seq(Character), NoNameIn(chars), CommitAndPush(chars)
    PROVE  composed' \in Composition /\ composed' = Blank /\ Extends
<1>1. composed' \in Composition /\ composed' = Blank
  BY CharacterFacts DEF CommitAndPush
<1>2. CASE composed = Blank
  <2>1. text' = text \o <<>> \o chars
    BY <1>2 DEF CommitAndPush, IsComposing
  <2>2. text' = text \o chars
    BY <2>1 DEF TypeOK
  <2> QED
    BY <1>1, <2>2 DEF Extends
<1>3. CASE composed # Blank
  <2> DEFINE c == <<ComposedChar(composed)>>
  <2>1. text' = text \o c \o chars
    BY <1>3 DEF CommitAndPush, IsComposing
  <2>2. c \in Seq(Character) /\ NoNameIn(c)
    BY <1>3, CommittedType DEF TypeOK
  <2> HIDE DEF c
  <2>3. text' = text \o (c \o chars) /\ c \o chars \in Seq(Character)
    BY <2>1, <2>2 DEF TypeOK
  <2>4. NoNameIn(c \o chars)
    BY <2>2 DEF NoNameIn
  <2> QED
    BY <1>1, <2>3, <2>4 DEF Extends
<1> QED
  BY <1>2, <1>3

LEMMA ProcessKeyWritesNoName ==
    ASSUME NEW c, NEW k
    PROVE  NoNameIn(ProcessKey(c, k).out)
<1>1. \A d, e : NoNameIn(Commits(d, e).out) /\ NoNameIn(Goes(d).out)
  BY ComposedCharIsNoName DEF Commits, Goes, Step, NoNameIn
<1>2. \A v : NoNameIn(VowelKey(c, v).out)
  BY <1>1 DEF VowelKey
<1>3. \A i : NoNameIn(ConsonantKey(c, i).out)
  BY <1>1 DEF ConsonantKey
<1> QED
  BY <1>2, <1>3 DEF ProcessKey

-----------------------------------------------------------------------------
THEOREM TypeCorrect == Spec => []TypeOK
<1>1. Init => TypeOK
  <2>1. <<>> \in Seq(Character)
    OBVIOUS
  <2>2. Blank \in Composition /\ 0 \in 0..MaxStrokes
    BY CharacterFacts, KeysAssumption
  <2> QED
    BY <2>1, <2>2 DEF Init, TypeOK
<1>2. ASSUME TypeOK, [Next]_vars PROVE TypeOK'
  <2> USE <1>2
  <2>e. \A n \in 1..2 : Writes(n) => strokes' \in 0..MaxStrokes
    BY KeysAssumption DEF Writes, TypeOK
  <2>n. <<>> \in Seq(Character)
    OBVIOUS
  <2>t. Extends => text' \in Seq(Character)
    BY DEF Extends, TypeOK
  <2>1. ASSUME NEW k \in Keys, PressKorean(k) PROVE TypeOK'
    <3>1. k \in Jamo
      BY KeysAssumption
    <3>2. ProcessKey(composed, k).next \in Composition /\ ProcessKey(composed, k).out \in Seq(Character)
      BY <3>1, ProcessKeyType DEF TypeOK
    <3> QED
      BY <2>1, <2>e, <3>2 DEF PressKorean, TypeOK
  <2>2. ASSUME NEW ch \in Signs, PressSign(ch) PROVE TypeOK'
    <3>1. <<ch>> \in Seq(Character) /\ NoNameIn(<<ch>>) /\ ch \in Character
      BY CharacterFacts DEF NoNameIn
    <3>2. CASE korean
      <4>1. composed' \in Composition /\ composed' = Blank /\ Extends
        BY <2>2, <3>1, <3>2, CommitAndPushType DEF PressSign
      <4> QED
        BY <2>2, <2>e, <2>t, <4>1 DEF PressSign, TypeOK
    <3>3. CASE ~korean
      BY <2>2, <2>e, <3>1, <3>3 DEF PressSign, TypeOK
    <3> QED
      BY <3>2, <3>3
  <2>3. ASSUME NEW n \in Names, ClickName(n) PROVE TypeOK'
    <3>1. n \in Seq(Character) /\ Space \in Character
      BY CharacterFacts
    <3>2. text' \in Seq(Character)
      BY <2>3, <3>1 DEF ClickName, TypeOK
    <3> QED
      BY <2>3, <2>e, <3>2 DEF ClickName, TypeOK
  <2>4. CASE PressLatin
    BY <2>4, <2>e, CharacterFacts DEF PressLatin, TypeOK
  <2>5. CASE PressSpace
    <3>1. <<Space, Space>> \in Seq(Character) /\ NoNameIn(<<Space, Space>>)
      BY CharacterFacts DEF NoNameIn
    <3>2. composed' \in Composition /\ composed' = Blank /\ Extends
      BY <2>5, <3>1, CommitAndPushType DEF PressSpace
    <3> QED
      BY <2>5, <2>e, <2>t, <3>2 DEF PressSpace, TypeOK
  <2>p. CommitAndPush(<<>>) => composed' \in Composition /\ composed' = Blank /\ Extends
    <3>1. <<>> \in Seq(Character) /\ NoNameIn(<<>>)
      BY DEF NoNameIn
    <3> QED
      BY <3>1, CommitAndPushType
  <2>6. CASE PressShift
    BY <2>6, <2>p, <2>t DEF PressShift, TypeOK
  <2>7. CASE ReleaseShift
    BY <2>7 DEF ReleaseShift, TypeOK
  <2>8. CASE ToggleMode
    BY <2>8, <2>p, <2>t DEF ToggleMode, TypeOK
  <2>9. CASE PressBack
    <3>1. CASE composed # Blank
      <4>1. Backspaced(composed) \in Composition
        BY BackspacedType DEF TypeOK
      <4> QED
        BY <2>9, <3>1, <4>1 DEF PressBack, IsComposing, TypeOK
    <3>2. CASE composed = Blank
      <4>1. text # <<>> => Front(text) \in Seq(Character)
        BY DEF Front, TypeOK
      <4> QED
        BY <2>9, <3>2, <4>1 DEF PressBack, IsComposing, TypeOK
    <3> QED
      BY <3>1, <3>2
  <2>10. CASE PressEnter
    BY <2>10, <2>n, CharacterFacts DEF PressEnter, TypeOK
  <2>11. CASE PressTab
    BY <2>11, <2>p, <2>t DEF PressTab, TypeOK
  <2>12. CASE Choose
    BY <2>12, <2>n DEF Choose, TypeOK
  <2>13. CASE UNCHANGED vars
    BY <2>13 DEF vars, TypeOK
  <2> QED
    BY <2>1, <2>2, <2>3, <2>4, <2>5, <2>6, <2>7, <2>8, <2>9, <2>10, <2>11, <2>12,
       <2>13 DEF Next
<1> QED
  BY <1>1, <1>2, PTL DEF Spec

-----------------------------------------------------------------------------
(* Names stand apart: what is written after them leaves them alone, and    *)
(* only a click writes one.                                                *)

LEMMA ExtendingKeepsNames ==
    ASSUME NEW t \in Seq(Character), Apart(t),
           NEW chars \in Seq(Character), NoNameIn(chars)
    PROVE  Apart(t \o chars)
<1> DEFINE u == t \o chars
<1>1. /\ u \in Seq(Character) /\ Len(u) = Len(t) + Len(chars)
      /\ Len(t) \in Nat /\ Len(chars) \in Nat
      /\ \A i \in 1..Len(t) : u[i] = t[i]
      /\ \A i \in (Len(t) + 1)..Len(u) : u[i] = chars[i - Len(t)]
  OBVIOUS
<1> HIDE DEF u
<1> SUFFICES ASSUME NEW i \in DOMAIN u, u[i] = At
             PROVE  /\ i > 1 => u[i - 1] = Space
                    /\ \E n \in Names : NamedAt(u, n, i)
  BY DEF Apart, u
<1>2. i \in 1..Len(t)
  <2>1. i \in 1..Len(u)
    BY <1>1
  <2>2. ASSUME i > Len(t) PROVE FALSE
    <3>1. i - Len(t) \in DOMAIN chars
      BY <1>1, <2>1, <2>2
    <3> QED
      BY <1>1, <2>1, <2>2, <3>1 DEF NoNameIn
  <2> QED
    BY <1>1, <2>1, <2>2
<1>3. t[i] = At /\ i \in DOMAIN t
  BY <1>1, <1>2
<1>4. i > 1 => t[i - 1] = Space
  BY <1>3 DEF Apart
<1>5. PICK n \in Names : NamedAt(t, n, i)
  BY <1>3 DEF Apart
<1>6. n \in Seq(Character) /\ Len(n) \in Nat
  BY CharacterFacts
<1>7. NamedAt(u, n, i)
  <2>1. i + Len(n) <= Len(u)
    BY <1>1, <1>2, <1>5, <1>6 DEF NamedAt
  <2>2. ASSUME NEW j \in DOMAIN n PROVE u[i + j - 1] = n[j]
    <3>1. i + j - 1 \in 1..Len(t)
      BY <1>1, <1>2, <1>5, <1>6 DEF NamedAt
    <3> QED
      BY <1>1, <1>5, <3>1 DEF NamedAt
  <2>3. u[i + Len(n)] = Space
    <3>1. i + Len(n) \in 1..Len(t)
      BY <1>1, <1>2, <1>5, <1>6 DEF NamedAt
    <3> QED
      BY <1>1, <1>5, <3>1 DEF NamedAt
  <2> QED
    BY <2>1, <2>2, <2>3 DEF NamedAt
<1> QED
  BY <1>1, <1>2, <1>4, <1>7

LEMMA WritingANameKeepsNames ==
    ASSUME NEW t \in Seq(Character), Apart(t), t = <<>> \/ t[Len(t)] = Space,
           NEW n \in Names
    PROVE  Apart(t \o Append(n, Space))
<1> DEFINE u == t \o n
<1>1. n \in Seq(Character) /\ n # <<>> /\ Space \in Character
  BY CharacterFacts
<1>2. \A j \in DOMAIN n : n[j] = At <=> j = 1
  BY KeysAssumption
<1> DEFINE w == u \o <<Space>>
<1>3. t \o Append(n, Space) = w
  BY <1>1
<1>4. /\ u \in Seq(Character) /\ Len(u) = Len(t) + Len(n)
      /\ Len(t) \in Nat /\ Len(n) \in Nat \ {0}
      /\ \A i \in 1..Len(t) : u[i] = t[i]
      /\ \A i \in (Len(t) + 1)..Len(u) : u[i] = n[i - Len(t)]
  BY <1>1
<1> HIDE DEF u
<1>5. /\ w \in Seq(Character) /\ Len(w) = Len(u) + 1
      /\ \A i \in 1..Len(u) : w[i] = u[i]
      /\ w[Len(u) + 1] = Space
  <2>1. ASSUME NEW S, NEW x \in S, NEW v \in Seq(S)
        PROVE  /\ v \o <<x>> \in Seq(S) /\ Len(v \o <<x>>) = Len(v) + 1
               /\ \A i \in 1..Len(v) : (v \o <<x>>)[i] = v[i]
               /\ (v \o <<x>>)[Len(v) + 1] = x
    OBVIOUS
  <2> QED
    BY <1>1, <1>4, <2>1
<1> HIDE DEF w
<1>6. \A i \in 1..Len(t) : w[i] = t[i]
  BY <1>4, <1>5
<1>7. \A j \in 1..Len(n) : w[Len(t) + j] = n[j]
  <2> SUFFICES ASSUME NEW j \in 1..Len(n) PROVE w[Len(t) + j] = n[j]
    OBVIOUS
  <2>1. Len(t) + j \in (Len(t) + 1)..Len(u) /\ Len(t) + j \in 1..Len(u)
    BY <1>4
  <2> QED
    BY <1>4, <1>5, <2>1
<1> SUFFICES ASSUME NEW i \in DOMAIN w, w[i] = At
             PROVE  /\ i > 1 => w[i - 1] = Space
                    /\ \E m \in Names : NamedAt(w, m, i)
  BY <1>3 DEF Apart
<1>8. i \in 1..(Len(t) + Len(n) + 1) /\ Space # At
  BY <1>4, <1>5, CharacterFacts
<1>9. CASE i \in 1..Len(t)
  <2>1. t[i] = At /\ i \in DOMAIN t
    BY <1>6, <1>9
  <2>2. i > 1 => t[i - 1] = Space
    BY <2>1 DEF Apart
  <2>3. PICK m \in Names : NamedAt(t, m, i)
    BY <2>1 DEF Apart
  <2>4. m \in Seq(Character) /\ Len(m) \in Nat
    BY CharacterFacts
  <2>5. NamedAt(w, m, i)
    <3>1. i + Len(m) <= Len(w)
      BY <1>4, <1>5, <1>9, <2>3, <2>4 DEF NamedAt
    <3>2. ASSUME NEW j \in DOMAIN m PROVE w[i + j - 1] = m[j]
      <4>1. i + j - 1 \in 1..Len(t)
        BY <1>4, <1>9, <2>3, <2>4 DEF NamedAt
      <4> QED
        BY <1>6, <2>3, <4>1 DEF NamedAt
    <3>3. w[i + Len(m)] = Space
      <4>1. i + Len(m) \in 1..Len(t)
        BY <1>4, <1>9, <2>3, <2>4 DEF NamedAt
      <4> QED
        BY <1>6, <2>3, <4>1 DEF NamedAt
    <3> QED
      BY <3>1, <3>2, <3>3 DEF NamedAt
  <2> QED
    BY <1>4, <1>6, <1>9, <2>2, <2>5
<1>10. CASE i \in (Len(t) + 1)..(Len(t) + Len(n))
  <2> DEFINE j == i - Len(t)
  <2>1. j \in 1..Len(n) /\ i = Len(t) + j
    <3>1. Len(t) \in Nat /\ Len(n) \in Nat
      BY <1>4
    <3> QED
      BY <1>10, <3>1
  <2> HIDE DEF j
  <2>2. j = 1
    <3>1. w[i] = n[j] /\ j \in DOMAIN n
      BY <1>1, <1>7, <2>1
    <3> QED
      BY <1>2, <3>1
  <2>3. i > 1 => w[i - 1] = Space
    <3>1. i = Len(t) + 1
      BY <1>4, <2>1, <2>2
    <3>2. i > 1 => t # <<>> /\ Len(t) \in 1..Len(t)
      BY <1>4, <3>1
    <3> QED
      BY <1>4, <1>6, <3>1, <3>2
  <2>4. NamedAt(w, n, i)
    BY <1>1, <1>4, <1>5, <1>7, <2>1, <2>2 DEF NamedAt
  <2> QED
    BY <2>3, <2>4
<1>11. CASE i = Len(t) + Len(n) + 1
  <2>1. i = Len(u) + 1
    BY <1>4, <1>11
  <2> QED
    BY <1>5, <1>8, <2>1
<1>12. \/ i \in 1..Len(t) \/ i \in (Len(t) + 1)..(Len(t) + Len(n))
       \/ i = Len(t) + Len(n) + 1
  <2>1. Len(t) \in Nat /\ Len(n) \in Nat
    BY <1>4
  <2> QED
    BY <1>8, <2>1
<1> QED
  BY <1>9, <1>10, <1>11, <1>12

(* As long as the player deletes nothing, what he clicked remains a word   *)
(* of its own, which the server will find when it splits the command.      *)
THEOREM NamesApart == Spec => []NamesStandApart
<1>1. Init => NamesStandApart
  BY DEF Init, NamesStandApart, Apart
<1>2. TypeOK /\ NamesStandApart /\ [Next]_vars => NamesStandApart'
  <2> SUFFICES ASSUME TypeOK, NamesStandApart, [Next]_vars PROVE NamesStandApart'
    OBVIOUS
  <2> SUFFICES ASSUME ~cut' PROVE Apart(text')
    BY DEF NamesStandApart
  <2> USE DEF NamesStandApart
  <2>t. text \in Seq(Character)
    BY DEF TypeOK
  <2>e. Apart(<<>>)
    BY DEF Apart
  <2>w. ASSUME NEW chars \in Seq(Character), NoNameIn(chars), Apart(text),
               CommitAndPush(chars)
        PROVE  Apart(text')
    <3>1. PICK more \in Seq(Character) : text' = text \o more /\ NoNameIn(more)
      BY <2>w, CommitAndPushType DEF Extends
    <3> QED
      BY <2>t, <2>w, <3>1, ExtendingKeepsNames
  <2>o. ASSUME NEW ch \in Character, ch # At
        PROVE  /\ <<ch>> \in Seq(Character) /\ NoNameIn(<<ch>>)
               /\ Append(text, ch) = text \o <<ch>>
    <3>1. <<ch>> \in Seq(Character)
      BY <2>o
    <3>2. NoNameIn(<<ch>>)
      BY <2>o DEF NoNameIn
    <3>3. Append(text, ch) = text \o <<ch>>
      <4>1. ASSUME NEW S, NEW x \in S, NEW v \in Seq(S) PROVE Append(v, x) = v \o <<x>>
        OBVIOUS
      <4> QED
        BY <2>t, <2>o, <4>1
    <3> QED
      BY <3>1, <3>2, <3>3
  <2>a. ASSUME NEW ch \in Character, ch # At, Apart(text) PROVE Apart(Append(text, ch))
    BY <2>t, <2>o, <2>a, ExtendingKeepsNames
  <2>s. Space \in Character /\ Space # At
    BY CharacterFacts
  <2>n. <<>> \in Seq(Character) /\ NoNameIn(<<>>)
    BY DEF NoNameIn
  <2>1. ASSUME NEW k \in Keys, PressKorean(k) PROVE Apart(text')
    <3> DEFINE out == ProcessKey(composed, k).out
    <3>1. k \in Jamo /\ composed \in Composition
      BY KeysAssumption DEF TypeOK
    <3>2. out \in Seq(Character) /\ NoNameIn(out)
      BY <3>1, ProcessKeyType, ProcessKeyWritesNoName
    <3>3. text' = text \o out /\ ~cut
      BY <2>1 DEF PressKorean
    <3> HIDE DEF out
    <3> QED
      BY <2>t, <3>2, <3>3, ExtendingKeepsNames
  <2>2. ASSUME NEW ch \in Signs, PressSign(ch) PROVE Apart(text')
    <3>1. ch \in Character /\ ch # At
      BY CharacterFacts
    <3>2. ~cut
      BY <2>2 DEF PressSign
    <3>3. CASE korean
      BY <2>2, <2>o, <2>w, <3>1, <3>2, <3>3 DEF PressSign
    <3>4. CASE ~korean
      BY <2>2, <2>a, <3>1, <3>2, <3>4 DEF PressSign
    <3> QED
      BY <3>3, <3>4
  <2>3. ASSUME NEW n \in Names, ClickName(n) PROVE Apart(text')
    <3> DEFINE base == IF text = <<>> \/ Last(text) = Space THEN text
                       ELSE Append(text, Space)
    <3>1. text' = base \o Append(n, Space) /\ ~cut
      BY <2>3 DEF ClickName
    <3>2. base \in Seq(Character) /\ Apart(base)
      BY <2>t, <2>a, <2>s, <3>1
    <3>3. base = <<>> \/ base[Len(base)] = Space
      BY <2>t, <2>s DEF Last
    <3> HIDE DEF base
    <3> QED
      BY <3>1, <3>2, <3>3, WritingANameKeepsNames
  <2>4. CASE PressLatin
    <3>1. text' = Append(text, Latin) /\ ~cut
      BY <2>4 DEF PressLatin
    <3> QED
      BY <2>a, <3>1, CharacterFacts
  <2>5. CASE PressSpace
    <3>1. CommitAndPush(<<Space, Space>>) /\ ~cut
      BY <2>5 DEF PressSpace
    <3>2. <<Space, Space>> \in Seq(Character) /\ NoNameIn(<<Space, Space>>)
      BY <2>s DEF NoNameIn
    <3> QED
      BY <2>w, <3>1, <3>2
  <2>6. CASE PressShift
    BY <2>6, <2>n, <2>w DEF PressShift
  <2>7. CASE ReleaseShift
    BY <2>7 DEF ReleaseShift
  <2>8. CASE ToggleMode
    BY <2>8, <2>n, <2>w DEF ToggleMode
  <2>9. CASE PressBack
    <3>1. text' = text /\ ~cut
      BY <2>9 DEF PressBack
    <3> QED
      BY <3>1
  <2>10. CASE PressEnter
    BY <2>10, <2>e DEF PressEnter
  <2>11. CASE PressTab
    BY <2>11, <2>n, <2>w DEF PressTab
  <2>12. CASE Choose
    BY <2>12, <2>e DEF Choose
  <2>13. CASE UNCHANGED vars
    BY <2>13 DEF vars
  <2> QED
    BY <2>1, <2>2, <2>3, <2>4, <2>5, <2>6, <2>7, <2>8, <2>9, <2>10, <2>11, <2>12,
       <2>13 DEF Next
<1> QED
  BY <1>1, <1>2, TypeCorrect, PTL DEF Spec
=============================================================================
