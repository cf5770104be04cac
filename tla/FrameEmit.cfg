SPECIFICATION FrameSpec
CONSTANTS
    Flags <- MCFlags
    Phonemes = {"a", "i", "l", "t", "j"}
    KeyPhonemes = {"h"}
    Aspiration = "h"
    LetterA = "a"
    TieBars = {"a"}
    LongPhonemes = {"t"}
    Clauses = {"?"}
    Packs <- MCPacks
    NoDef = NoDef
    MaxPhonemes = 3
    MaxMarks = 3
    MaxChunks = 2
    MaxFrames = 1
INVARIANTS
    ClosurePrecedesItsStop
    WordsKeepTheirMarks
    CommandsHeardOnce
CHECK_DEADLOCK FALSE
