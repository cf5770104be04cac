CONSTANTS
    Langs <- MCLangs
    BaseOf <- MCBaseOf
    Default = Default
    None = None
    Words <- MCWords
    InitFiles <- MCInitFiles
    Texts <- MCTexts
    Json = "json"
    Keys <- MCKeys
    Values <- MCValues
    Searches <- MCSearches
    Page = 1
    MaxEdits = 2

SPECIFICATION Spec
INVARIANTS
    EditorsSeeThePack
    SpokenAsEdited
PROPERTIES
    RemovedEntryReverts
