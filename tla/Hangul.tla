------------------------------- MODULE Hangul -------------------------------
(***************************************************************************)
(* How the keys of a Korean keyboard become syllables (HangulAutomata).    *)
(*                                                                         *)
(* A syllable has an initial consonant (cho), a vowel (jung) and perhaps   *)
(* final consonants (jong), each known by its index in the tables of       *)
(* Unicode.  The same key gives an initial or a final consonant: a final   *)
(* one moves on to the next syllable when a vowel follows, and only the    *)
(* second half of a double one does.  The automaton holds the syllable     *)
(* being composed; what it has finished goes into the text.                *)
(*                                                                         *)
(* Keys stands for the reference: the keys that spell a character, by the  *)
(* arithmetic of Unicode alone.                                            *)
(***************************************************************************)
EXTENDS Integers, Sequences

None == -1
Cho  == 0..18
Jung == 0..20
Jong == 1..27

(* The keys, as what they are mapped to: a consonant, by its index as an   *)
(* initial one, or one of the vowels that have a key.                      *)
SingleVowels == {0, 1, 2, 3, 4, 5, 6, 7, 8, 12, 13, 17, 18, 20}

Consonant(i) == [vowel |-> FALSE, index |-> i]
Vowel(i)     == [vowel |-> TRUE, index |-> i]
Jamo == {Consonant(i) : i \in Cho} \cup {Vowel(i) : i \in SingleVowels}

(* Characters: syllables, by their code point counted from HANGUL_BASE;    *)
(* the letters of unfinished ones, by their index; and all others, by a    *)
(* number, 0 for the space.                                                *)
Char(kind, code) == [kind |-> kind, code |-> code]
Space == Char("sign", 0)

Character == [kind : {"syllable"}, code : 0..(19 * 21 * 28 - 1)]
        \cup [kind : {"cho"}, code : Cho]
        \cup [kind : {"jung"}, code : Jung]
        \cup [kind : {"sign"}, code : Nat]

-----------------------------------------------------------------------------
(* The tables: combine_vowels, combine_consonants, cho_to_jong and         *)
(* jong_to_cho.                                                            *)

CombineVowels(v, w) ==
    CASE v = 8  /\ w = 0  -> 9  [] v = 8  /\ w = 1 -> 10 [] v = 8  /\ w = 20 -> 11
      [] v = 13 /\ w = 4  -> 14 [] v = 13 /\ w = 5 -> 15 [] v = 13 /\ w = 20 -> 16
      [] v = 18 /\ w = 20 -> 19
      [] OTHER -> None

CombineConsonants(c, d) ==
    CASE c = 1 /\ d = 19 -> 3  [] c = 4 /\ d = 22 -> 5  [] c = 4 /\ d = 27 -> 6
      [] c = 8 /\ d = 1  -> 9  [] c = 8 /\ d = 16 -> 10 [] c = 8 /\ d = 17 -> 11
      [] c = 8 /\ d = 19 -> 12 [] c = 8 /\ d = 25 -> 13 [] c = 8 /\ d = 26 -> 14
      [] c = 8 /\ d = 27 -> 15 [] c = 17 /\ d = 19 -> 18
      [] OTHER -> None

ChoToJong(c) ==
    CASE c = 0 -> 1   [] c = 1 -> 2   [] c = 2 -> 4   [] c = 3 -> 7   [] c = 5 -> 8
      [] c = 6 -> 16  [] c = 7 -> 17  [] c = 9 -> 19  [] c = 10 -> 20 [] c = 11 -> 21
      [] c = 12 -> 22 [] c = 14 -> 23 [] c = 15 -> 24 [] c = 16 -> 25 [] c = 17 -> 26
      [] c = 18 -> 27
      [] OTHER -> None

JongToCho(j) ==
    CASE j = 1 -> 0   [] j = 2 -> 1   [] j = 4 -> 2   [] j = 7 -> 3   [] j = 8 -> 5
      [] j = 16 -> 6  [] j = 17 -> 7  [] j = 19 -> 9  [] j = 20 -> 10 [] j = 21 -> 11
      [] j = 22 -> 12 [] j = 23 -> 14 [] j = 24 -> 15 [] j = 25 -> 16 [] j = 26 -> 17
      [] j = 27 -> 18
      [] OTHER -> None

(* split_complex_jong: what stays, and the consonant that moves on.        *)
Stays(j) ==
    CASE j = 3 -> 1 [] j \in {5, 6} -> 4 [] j \in 9..15 -> 8 [] j = 18 -> 17
      [] OTHER -> None

Moves(j) ==
    CASE j \in {3, 12, 18} -> 9 [] j = 5 -> 12 [] j \in {6, 15} -> 18
      [] j = 9  -> 0  [] j = 10 -> 6 [] j = 11 -> 7 [] j = 13 -> 16 [] j = 14 -> 17
      [] OTHER -> IF JongToCho(j) = None THEN 0 ELSE JongToCho(j)

-----------------------------------------------------------------------------
(* The automaton.                                                          *)

Composing(cho, jung, jong) == [cho |-> cho, jung |-> jung, jong |-> jong]
Blank == Composing(None, None, None)
IsComposing(c) == c # Blank

(* What it can hold: nothing, an initial consonant, a vowel alone, or both *)
(* with or without final consonants.                                       *)
Composition ==
    {c \in [cho : Cho \cup {None}, jung : Jung \cup {None}, jong : Jong \cup {None}] :
       c.jong # None => c.cho # None /\ c.jung # None}

(* get_composed_char.                                                      *)
ComposedChar(c) ==
    IF c.cho # None /\ c.jung # None
      THEN Char("syllable", c.cho * 588 + c.jung * 28 + (IF c.jong = None THEN 0 ELSE c.jong))
    ELSE IF c.cho # None THEN Char("cho", c.cho)
    ELSE IF c.jung # None THEN Char("jung", c.jung)
    ELSE Space

(* process_key, of a key that is mapped: the characters it commits, and    *)
(* what is composed then.  A consonant after a vowel alone meets none of   *)
(* the cases and is lost.                                                  *)
Step(out, c) == [out |-> out, next |-> c]
Goes(c)      == Step(<<>>, c)
Commits(c, next) == Step(<<ComposedChar(c)>>, next)

VowelKey(c, v) ==
    IF c.jung = None THEN Goes([c EXCEPT !.jung = v])
    ELSE IF c.jong = None THEN
      IF CombineVowels(c.jung, v) # None
        THEN Goes([c EXCEPT !.jung = CombineVowels(c.jung, v)])
        ELSE Commits(c, Composing(None, v, None))
    ELSE Commits([c EXCEPT !.jong = Stays(c.jong)], Composing(Moves(c.jong), v, None))

ConsonantKey(c, i) ==
    LET final == ChoToJong(i)
        joined == IF c.jong = None \/ final = None THEN final
                  ELSE CombineConsonants(c.jong, final)
    IN  IF c = Blank THEN Goes(Composing(i, None, None))
        ELSE IF c.cho = None THEN Goes(c)
        ELSE IF c.jung = None \/ joined = None THEN Commits(c, Composing(i, None, None))
        ELSE Goes([c EXCEPT !.jong = joined])

ProcessKey(c, k) == IF k.vowel THEN VowelKey(c, k.index) ELSE ConsonantKey(c, k.index)

Lost(c, k) == c.cho = None /\ c.jung # None /\ ~k.vowel

BackspacedFromTheFront(c) ==                                        \* a mutant
    IF c.cho # None THEN [c EXCEPT !.cho = None]
    ELSE IF c.jung # None THEN [c EXCEPT !.jung = None]
    ELSE Blank

(* handle_backspace, while something is composed.                          *)
Backspaced(c) ==
    IF c.jong # None THEN [c EXCEPT !.jong = None]
    ELSE IF c.jung # None THEN [c EXCEPT !.jung = None]
    ELSE Blank

-----------------------------------------------------------------------------
(* The reference: the keys that spell a vowel, the final consonants of a   *)
(* syllable, a composition, and a character, in the order of Unicode.      *)

VowelKeys(v) ==
    CASE v = 9  -> <<Vowel(8), Vowel(0)>>  [] v = 10 -> <<Vowel(8), Vowel(1)>>
      [] v = 11 -> <<Vowel(8), Vowel(20)>> [] v = 14 -> <<Vowel(13), Vowel(4)>>
      [] v = 15 -> <<Vowel(13), Vowel(5)>> [] v = 16 -> <<Vowel(13), Vowel(20)>>
      [] v = 19 -> <<Vowel(18), Vowel(20)>>
      [] OTHER -> <<Vowel(v)>>

One(i)    == <<Consonant(i)>>
Two(i, k) == <<Consonant(i), Consonant(k)>>

FinalKeys(j) ==
    CASE j = 1  -> One(0)     [] j = 2  -> One(1)     [] j = 3  -> Two(0, 9)
      [] j = 4  -> One(2)     [] j = 5  -> Two(2, 12) [] j = 6  -> Two(2, 18)
      [] j = 7  -> One(3)     [] j = 8  -> One(5)     [] j = 9  -> Two(5, 0)
      [] j = 10 -> Two(5, 6)  [] j = 11 -> Two(5, 7)  [] j = 12 -> Two(5, 9)
      [] j = 13 -> Two(5, 16) [] j = 14 -> Two(5, 17) [] j = 15 -> Two(5, 18)
      [] j = 16 -> One(6)     [] j = 17 -> One(7)     [] j = 18 -> Two(7, 9)
      [] j = 19 -> One(9)     [] j = 20 -> One(10)    [] j = 21 -> One(11)
      [] j = 22 -> One(12)    [] j = 23 -> One(14)    [] j = 24 -> One(15)
      [] j = 25 -> One(16)    [] j = 26 -> One(17)    [] j = 27 -> One(18)

KeysOf(c) ==
    (IF c.cho = None THEN <<>> ELSE One(c.cho))
    \o (IF c.jung = None THEN <<>> ELSE VowelKeys(c.jung))
    \o (IF c.jong = None THEN <<>> ELSE FinalKeys(c.jong))

(* What a character was composed from.                                     *)
Decomposed(ch) ==
    CASE ch.kind = "syllable" ->
           Composing(ch.code \div (21 * 28), (ch.code \div 28) % 21,
                     IF ch.code % 28 = 0 THEN None ELSE ch.code % 28)
      [] ch.kind = "cho"  -> Composing(ch.code, None, None)
      [] ch.kind = "jung" -> Composing(None, ch.code, None)

SpellingOf(ch) == IF ch.kind = "sign" THEN <<ch>> ELSE KeysOf(Decomposed(ch))
=============================================================================
