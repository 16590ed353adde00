----------------------------- MODULE MCChatInput -----------------------------
(* A few keys for ChatInput.                                               *)
EXTENDS ChatInput

CONSTANTS Consonants, Vowels    \* their indexes

MCKeys  == {Consonant(i) : i \in Consonants} \cup {Vowel(i) : i \in Vowels}
MCSigns == {Char("sign", 3)}
MCNames == {<<At, Char("sign", 3)>>}
=============================================================================
