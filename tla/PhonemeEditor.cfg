CONSTANTS
    Roots <- MCRoots
    Langs <- MCLangs
    Types = {"pronounce"}
    InitDisks <- MCInitDisks
    Broken = Broken
    None = None
    MaxChanges = 2
    MaxSpoilt = 1

SPECIFICATION Spec
INVARIANTS
    CleanMeansSaved
    SpeakHearsSavedFiles
PROPERTIES
    ChangesSurvive
