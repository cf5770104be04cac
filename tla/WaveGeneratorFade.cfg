SPECIFICATION GenFairSpec
CONSTANTS
    Shapes <- MCPhones
    MaxRequests = 3
    CounterMod = 6
    NoRequest = NoRequest
    NoFrame = NoFrame
    BufferSize = 3
    PurgeFade = 2
    StartFade = 2
    StopFade = 3
    LookAhead = 2
    StretchUnit = 2
    StretchStep = 1
PROPERTIES
    SpeechEndsInAFadeOut
