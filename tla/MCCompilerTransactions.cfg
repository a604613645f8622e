SPECIFICATION Spec
CONSTANTS
    Names <- MCNames
    Numbers <- MCNumbers
    Texts <- MCTexts
    Ints <- MCInts
    atoi <- MCAtoi
    MaxColumns = 1
    MaxStatements = 3
INVARIANT UsersTransactionHolds
