SPECIFICATION Spec
CONSTANTS
    Names <- MCNames
    Numbers <- MCNumbers
    Texts <- MCTexts
    Ints <- MCInts
    atoi <- MCAtoi
    MaxColumns = 2
    MaxStatements = 1
INVARIANT TypeOK
INVARIANT AcceptedIsSpelled
INVARIANT RefusedAtFirstWrongToken
INVARIANT ProgramTellsStatement
