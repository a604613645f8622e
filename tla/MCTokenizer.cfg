SPECIFICATION Spec
CONSTANTS
    Letters = {"I"}
    Digits = {"0", "1"}
    Blanks = {" "}
    Strange = {"?"}
    Punctuation = {";"}
    Keywords <- MCKeywords
    ExitWord <- MCExitWord
    MaxText = 5
INVARIANTS TypeOK TokensCoverText RefusedForStrangeCharacter LiteralsKept WordsWhole
PROPERTY AlwaysReturns
CHECK_DEADLOCK FALSE
