--------------------------- MODULE MCInlineThink ---------------------------
(* Every answer of up to MaxWords words: a letter, a quote, or a tag.      *)
EXTENDS InlineThink, SequencesExt

CONSTANT MaxWords

Alphabet == <<"a", "b", "c", "d", "e", "f">>
MCLetters == {Alphabet[i] : i \in 1..MaxWords}

\* The letter of a word is told by its place.
Spell(word, i) ==
  CASE word = "letter" -> <<Alphabet[i]>> [] word = "quote" -> <<Quote>>
    [] word = "open" -> OpenTag [] word = "close" -> CloseTag

MCTexts ==
  {FlattenSeq([i \in 1..Len(w) |-> Spell(w[i], i)]) :
     w \in UNION {[1..n -> {"letter", "quote", "open", "close"}] : n \in 1..MaxWords}}
=============================================================================
