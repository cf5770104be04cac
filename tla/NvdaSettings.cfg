CONSTANTS
    Nested = nested
    Comment = comment
    SettingsKey = "settings"
    VoiceProfilesKey = "voiceProfiles"
    VoicingToneKey = "voicingTone"
    SiblingKeys = {"classScales", "phonemeOverrides"}
    None = None
    Default = "default"
    Words = {}
    Langs <- MCLangs
    BaseOf <- MCBaseOf
    Auto = "auto"
    Languages <- MCLanguages
    Fallback = "es"
    UiLang = "es"
    WinLang = "es-mx"
    EspeakTags <- MCEspeakTags
    EspeakVoices = {"es"}
    EspeakAccepts = {"es", "en"}
    English = "en"
    Presets = {"Adam", "David"}
    Adam = "Adam"
    HeadSizeOf <- MCHeadSizeOf
    Tilt = "tilt"
    HeadSize = "head"
    ToneSliders = {"tilt", "head"}
    ExSliders = {"creak"}
    SavedSliders = {"tilt", "creak"}
    SliderValues <- MCSliderValues
    SliderDefault <- MCSliderDefault
    ToneDefault <- MCToneDefault
    Rates = {22050, 16000}
    BoolKeys <- MCBoolKeys
    PitchKey <- Pitch
    ScaleKey <- ScaleKeyOf
    SettingOrder <- MCSettingOrder
    SettingDefault <- MCSettingDefault
    Values <- MCValues
    FactoryFiles <- MCFactoryFiles
    ImportFiles <- MCImportFiles
    StartFiles <- MCStartFiles
    StartPhonemes <- MCStartPhonemes
    OldConf <- MCOldConf
    MaxOps = 3
SPECIFICATION Spec
INVARIANTS
    SoundsAsShown
PROPERTIES
    ImplementsStore
CHECK_DEADLOCK FALSE
