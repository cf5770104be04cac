SPECIFICATION FairSpec
CONSTANTS
    MaxSpeaks = 2
    MaxCancels = 1
    Chunks <- MCChunks
INVARIANTS
    SpeechAndIndicesInOrder
    CancelCutsSpeechShort
    DonePerUtterance
PROPERTIES
    AudioWakesAndSleeps
CHECK_DEADLOCK FALSE
