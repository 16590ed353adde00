------------------------------ MODULE ChatInput ------------------------------
(***************************************************************************)
(* The line in which a player writes a command.                            *)
(*                                                                         *)
(* Tab opens and closes the line.  While it is open the keys go to it, and *)
(* in Korean mode first to the automaton of Hangul: the syllable it holds  *)
(* is drawn after the text, but is no part of it until it is committed.    *)
(* A press arrives twice, as a key (key_down_event) and as the character   *)
(* the system makes of it (text_input_event): a press is one action here.  *)
(* A click into the world writes the name of what is there into the text.  *)
(*                                                                         *)
(* What becomes of a command that is sent is not modelled here.            *)
(***************************************************************************)
EXTENDS Hangul, SequencesExt

CONSTANTS
    Keys,           \* the letter keys pressed, as what they mean in Korean
    Signs,          \* other keys: digits and punctuation
    Names,          \* what a click writes: "@1분대" and the like
    MaxStrokes      \* bound: what is written, two for all but a
                    \* letter in Korean

At    == Char("sign", 1)        \* how the name of a squad begins
Latin == Char("sign", 2)        \* any letter of the alphabet

ASSUME KeysAssumption ==
    /\ Keys \subseteq Jamo
    /\ Signs \subseteq [kind : {"sign"}, code : Nat]
    /\ {At, Space} \cap Signs = {}
    /\ Names \subseteq Seq([kind : {"sign"}, code : Nat])
    /\ \A n \in Names : n # <<>> /\ \A i \in DOMAIN n : n[i] = At <=> i = 1
    /\ MaxStrokes \in Nat

VARIABLES
    open,           \* display_chat_gui
    korean,         \* HangulAutomata::is_korean_mode
    shift,          \* a Shift key is held
    composed,       \* HangulAutomata::{cho, jung, jong}
    text,           \* GuiState::chat_input
    strokes,        \* how much was written
    cut             \* history: a character of the text was deleted

vars == <<open, korean, shift, composed, text, strokes, cut>>

Init ==
    /\ open = FALSE /\ korean = FALSE /\ shift = FALSE
    /\ composed = Blank
    /\ text = <<>>
    /\ strokes = 0
    /\ cut = FALSE

-----------------------------------------------------------------------------
Writes(n) == open /\ strokes + n <= MaxStrokes /\ strokes' = strokes + n

(* force_commit, and the characters written after it.                      *)
WithoutCommitting(chars) ==                                         \* a mutant
    /\ text' = text \o chars
    /\ composed' = Blank

CommitAndPush(chars) ==
    /\ text' = text \o (IF IsComposing(composed) THEN <<ComposedChar(composed)>> ELSE <<>>)
                    \o chars
    /\ composed' = Blank

(* Some letters need Shift, and some mean another one with it.             *)
Doubled  == {Consonant(i) : i \in {1, 4, 8, 10, 13}} \cup {Vowel(3), Vowel(7)}
Doubling == {Consonant(i) : i \in {0, 3, 7, 9, 12}} \cup {Vowel(1), Vowel(5)}

PressKorean(k) ==
    /\ Writes(1)
    /\ korean
    /\ shift => k \notin Doubling
    /\ k \in Doubled => shift
    /\ LET step == ProcessKey(composed, k) IN
         text' = text \o step.out /\ composed' = step.next
    /\ UNCHANGED <<open, korean, shift, cut>>

PressLatin ==
    /\ Writes(2)
    /\ ~korean
    /\ text' = Append(text, Latin)
    /\ UNCHANGED <<open, korean, shift, composed, cut>>

(* A key the automaton does not map commits; the character then comes.     *)
PressSign(ch) ==
    /\ Writes(2)
    /\ IF korean THEN CommitAndPush(<<ch>>)
                 ELSE text' = Append(text, ch) /\ UNCHANGED composed
    /\ UNCHANGED <<open, korean, shift, cut>>

(* key_down_event pushes a space, and text_input_event another.            *)
PressSpace ==
    /\ Writes(2)
    /\ CommitAndPush(<<Space, Space>>)
    /\ UNCHANGED <<open, korean, shift, cut>>

(* Shift is a key the automaton does not map either.                       *)
PressShift ==
    /\ ~shift
    /\ shift' = TRUE
    /\ IF open /\ korean THEN CommitAndPush(<<>>) ELSE UNCHANGED <<text, composed>>
    /\ UNCHANGED <<open, korean, strokes, cut>>

ReleaseShift ==
    /\ shift
    /\ shift' = FALSE
    /\ UNCHANGED <<open, korean, composed, text, strokes, cut>>

(* The right Alt key.                                                      *)
ToggleMode ==
    /\ open
    /\ korean' = ~korean
    /\ CommitAndPush(<<>>)
    /\ UNCHANGED <<open, shift, strokes, cut>>

PopFirst ==                                                         \* a mutant
    /\ open
    /\ IF text = <<>> /\ IsComposing(composed)
         THEN composed' = Backspaced(composed) /\ UNCHANGED <<text, cut>>
         ELSE /\ text' = IF text = <<>> THEN text ELSE Front(text)
              /\ cut' = (cut \/ text # <<>>)
              /\ UNCHANGED composed
    /\ UNCHANGED <<open, korean, shift, strokes>>

PressBack ==
    /\ open
    /\ IF IsComposing(composed)
         THEN composed' = Backspaced(composed) /\ UNCHANGED <<text, cut>>
         ELSE /\ text' = IF text = <<>> THEN text ELSE Front(text)
              /\ cut' = (cut \/ text # <<>>)
              /\ UNCHANGED composed
    /\ UNCHANGED <<open, korean, shift, strokes>>

(* What is shown is committed and sent; spaces alone are not, and stay.    *)
PressEnter ==
    /\ open
    /\ composed' = Blank
    /\ IF IsComposing(composed) \/ \E i \in DOMAIN text : text[i] # Space
         THEN text' = <<>> /\ cut' = FALSE
         ELSE UNCHANGED <<text, cut>>
    /\ UNCHANGED <<open, korean, shift, strokes>>

(* Tab goes down, which the automaton does not map, and up.                *)
PressTab ==
    /\ open' = ~open
    /\ IF open /\ korean THEN CommitAndPush(<<>>) ELSE UNCHANGED <<text, composed>>
    /\ UNCHANGED <<korean, shift, strokes, cut>>

(* A suggestion, or a template, is sent instead of the text; the line is   *)
(* cleared and closes, but for what is being composed.                     *)
Choose ==
    /\ open
    /\ open' = FALSE
    /\ text' = <<>>
    /\ cut' = FALSE
    /\ UNCHANGED <<korean, shift, composed, strokes>>

PushName(n) ==                                                      \* a mutant
    /\ Writes(2)
    /\ text' = text \o Append(n, Space)
    /\ UNCHANGED <<open, korean, shift, composed, cut>>

(* mouse_button_up_event: a squad, or a sector of the map, is named.       *)
ClickName(n) ==
    /\ Writes(2)
    /\ text' = (IF text = <<>> \/ Last(text) = Space THEN text ELSE Append(text, Space))
               \o Append(n, Space)
    /\ UNCHANGED <<open, korean, shift, composed, cut>>

-----------------------------------------------------------------------------
Next ==
    \/ \E k \in Keys : PressKorean(k)
    \/ \E ch \in Signs : PressSign(ch)
    \/ \E n \in Names : ClickName(n)
    \/ PressLatin \/ PressSpace \/ PressShift \/ ReleaseShift \/ ToggleMode
    \/ PressBack \/ PressEnter \/ PressTab \/ Choose

Spec == Init /\ [][Next]_vars

-----------------------------------------------------------------------------
(* Properties.                                                             *)

(* What is composed is always a part of a syllable, and nothing outside    *)
(* Korean mode; what the text gets is what char::from_u32 and the tables   *)
(* of letters have: the arithmetic never leaves the block of syllables.    *)
TypeOK ==
    /\ open \in BOOLEAN /\ korean \in BOOLEAN /\ shift \in BOOLEAN /\ cut \in BOOLEAN
    /\ composed \in Composition
    /\ ~korean => composed = Blank
    /\ text \in Seq(Character)
    /\ strokes \in 0..MaxStrokes

(* The keys that spell what is shown: the text, then what is composed.     *)
Spelling ==
    FlattenSeq([i \in DOMAIN text |-> SpellingOf(text[i])]) \o KeysOf(composed)

Removing == PressBack \/ PressEnter \/ Choose
Misplaced == composed # Blank /\ composed' = composed

(* Through all the moves of a consonant from one syllable to the next, no  *)
(* key is lost, doubled or changes its place: each is spelled after those  *)
(* before it, whatever commits the syllable.  Two exceptions are the       *)
(* code's: a consonant after a vowel alone is lost, and a name clicked     *)
(* while a syllable is composed comes before it.                           *)
KeystrokesAreKept ==
    [][/\ \A k \in Keys : PressKorean(k) =>
            Spelling' = IF Lost(composed, k) THEN Spelling ELSE Append(Spelling, k)
       /\ Removing \/ Misplaced \/ IsPrefix(Spelling, Spelling')]_vars

(* Backspace takes what is shown away from its end, and always something:  *)
(* never a character of the text while a syllable is composed.             *)
BackspaceTakesTheLast ==
    [][PressBack /\ Spelling # <<>> => IsStrictPrefix(Spelling', Spelling)]_vars

(* The name n, and a space, are in a text from its i-th character on.      *)
NamedAt(t, n, i) ==
    /\ i + Len(n) <= Len(t)
    /\ \A j \in DOMAIN n : t[i + j - 1] = n[j]
    /\ t[i + Len(n)] = Space

Apart(t) ==
    \A i \in DOMAIN t : t[i] = At =>
      /\ i > 1 => t[i - 1] = Space
      /\ \E n \in Names : NamedAt(t, n, i)

(* The server splits a command at its spaces: a name is a word of its own  *)
(* until the player deletes something, whatever is composed around it.     *)
NamesStandApart == ~cut => Apart(text)
=============================================================================
