SPECIFICATION Spec
CONSTANTS
    Letters <- MCLetters
    LowerOf <- MCLowerOf
    Short <- MCShort
    Months = {"June"}
    Packs <- MCPacks
    SyllablesOf <- MCSyllablesOf
    InPieces <- MCInPieces
    InputTexts <- MCInputTexts
    MaxOff = 1
INVARIANTS
    SoundsInOrder
    DictionariesFindTheirWord
CHECK_DEADLOCK FALSE
