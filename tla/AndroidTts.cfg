SPECIFICATION Spec
CONSTANTS
    Langs = {en, de}
    English = en
    NoLang = NoLang
    Values = {v}
    NoValue = NoValue
    Modes = {"klatt", "legacy"}
    MaxEdits = 1
    MaxFailures = 1
    MaxChunks = 2
INVARIANTS
    SpokenAsStored
    FailedLoadIsRetried
    StopIsPrompt
