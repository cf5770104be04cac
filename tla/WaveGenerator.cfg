SPECIFICATION GenFairSpec
CONSTANTS
    Shapes <- MCShapes
    MaxRequests = 4
    CounterMod = 5
    NoRequest = NoRequest
    NoFrame = NoFrame
    BufferSize = 3
    PurgeFade = 2
    StartFade = 2
    StopFade = 3
    LookAhead = 2
    StretchUnit = 2
    StretchStep = 1
INVARIANTS
    CurrentFrameIsKept
PROPERTIES
    PurgeTakesOver
    NoClicks
    EachRequestPlaysOut
    ImplementsRequestQueue
    PurgedSoundNeverHeard
    FadeOutIsSmooth
    EventuallySilent
    EveryRequestResolved

