SPECIFICATION FairSpec
CONSTANTS
    Langs = {en, fr}
    English = en
    NoLang = NoLang
    Values = {v}
    NoValue = NoValue
    Modes = {"klatt"}
    Voices = {adam, robert}
    Adam = adam
    MaxRequests = 2
    MaxEdits = 1
    MaxSamples = 2
    MaxFrames = 2
INVARIANTS
    SpokenWithStoredSettings
    RenderedInOrder
PROPERTIES
    CancelSilences
    EveryRequestCompletes
