SPECIFICATION ThinkSpec
CHECK_DEADLOCK FALSE
CONSTANTS
  MaxWords = 6
  Letters <- MCLetters
  Texts <- MCTexts
INVARIANTS
  EveryLetterOnce
  LeadingSpanApart
