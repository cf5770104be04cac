SPECIFICATION Spec
CONSTANTS
    Engines = {e1, e2}
    Runtimes = {1, 2}
    English = en
    Langs = {en, xx}
    Named = {en}
    Profiles = {beth}
    Builtin = adam
    NoLang = nolang
    None = none
    xx = xx
    beth = beth
    Tokens <- MCTokens
    Texts <- MCTexts
    MaxClauses = 1
    MaxAudio = 2
    Chunk = 2
    MaxSpeaks = 2
    MaxMoves = 4
INVARIANTS
    BookmarksKeepTheirPlace
    AbortCutsSpeech
    SpokenInItsVoice
PROPERTIES
    AbortedSpeakReturns
CHECK_DEADLOCK FALSE
