---------------------------- MODULE MCNvdaSettings ----------------------------
(***************************************************************************)
(* Spanish, its Mexican dialect and the language that follows NVDA's; a    *)
(* default file with every setting, a language's file with some, two deep  *)
(* ones among them, and a dialect's without; a voice with a tone that has  *)
(* a number no slider shows, and one whose tone lacks the tilt.            *)
(***************************************************************************)
EXTENDS NvdaSettings

MCLangs == {"es", "es-mx", "auto"}
MCBaseOf == "es" :> None @@ "es-mx" :> "es" @@ "auto" :> None
MCLanguages == <<"es", "es-mx">>
MCEspeakTags == "es" :> <<"es">> @@ "es-mx" :> <<"es-419">> @@ "auto" :> <<>>

MCHeadSizeOf == "David" :> 100
MCSliderValues == "tilt" :> {50, 90} @@ "head" :> {100} @@ "creak" :> {0, 40}
MCSliderDefault == "tilt" :> 50 @@ "head" :> 50 @@ "creak" :> 0
MCToneDefault == "tilt" :> 0 @@ "head" :> 50 @@ "peak" :> 91

Pitch == <<"pitch">>
Year == <<"year">>
ScaleKeyOf == <<"scale">>
Glottal == <<"allophones", "glottal", "on">>
MCBoolKeys == {Year, Glottal}
MCSettingOrder == <<Pitch, Year, ScaleKeyOf>>
MCSettingDefault == Pitch :> "espeak_style" @@ Year :> "false" @@ ScaleKeyOf :> 29
MCValues == Pitch :> {"legacy"} @@ Year :> {"true", "false"} @@ ScaleKeyOf :> {560}
            @@ Glottal :> {"true"}

Section(key) == Line(0, key, Nested)
DefaultFile ==
    <<Line(0, Comment, 0), Section(SettingsKey), Line(2, "pitch", "true"), Line(2, "year", "yes"),
      Line(2, "allophones", Nested), Line(4, "on", "false"), Line(4, "glottal", Nested),
      Line(6, "on", "false"), Line(2, "scale", 580), Section("normalization"), Line(2, "x", 1)>>
SpanishFile ==
    <<Section("normalization"), Line(2, "x", 2), Section(SettingsKey), Line(2, Comment, 1),
      Line(2, "allophones", Nested), Line(4, "on", "true"), Line(2, "year", "false"),
      Section("transforms"), Line(2, "y", 1)>>
DialectFile == <<Section("normalization"), Line(2, "x", 3)>>
MCStartFiles ==
    {Default :> DefaultFile @@ "es" :> SpanishFile @@ "es-mx" :> DialectFile @@ "auto" :> None}
MCFactoryFiles ==
    Default :> DefaultFile @@ "es" :> SpanishFile @@ "es-mx" :> None @@ "auto" :> None

Voices(peak) ==
    <<Section("phonemes"), Line(2, "a", 1), Section(VoiceProfilesKey), Line(2, "Beth", Nested),
      Line(4, VoicingToneKey, Nested), Line(6, "tilt", 30), Line(6, "peak", peak),
      Line(4, "classScales", Nested), Line(6, "vowel", 1), Line(2, "Carl", Nested),
      Line(4, "classScales", Nested), Line(6, "vowel", 2)>>
MCStartPhonemes == {Voices(80)}
MCImportFiles == {Voices(95)}

MCOldConf ==
    [voice |-> Profile("Beth"), language |-> "es", rate |-> 16000,
     sliders |-> [MCSliderDefault EXCEPT !["creak"] = 40], settings |-> <<"legacy", "true", 28>>]
===============================================================================
