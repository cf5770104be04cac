---------------------------- MODULE SettingsStore ----------------------------
(***************************************************************************)
(* What the settings of the NVDA add-on promise: a store of values, one    *)
(* map per language and one for the voices, where a write changes what it  *)
(* names and nothing else, and a load that makes the frontend speak with   *)
(* the values of a language's chain.  Nothing here is a file.              *)
(***************************************************************************)
EXTENDS PackFiles

CONSTANTS
    Values,    \* the values of every setting, a function of their keys
    Tones,     \* what the sliders may be saved as, functions of the tone's keys
    Profiles,  \* names a voice may be saved under
    PathIn,    \* <<profile, key>> -> where the voices keep it
    Factory,   \* the settings a language pack is reset to, None: it has none
    Imports    \* the voices a user may import

VARIABLES
    settings,      \* language -> key -> value
    pending,       \* edits of the panel that are not saved: <<language, key>> -> value
    voices,        \* what the voices are made of
    loaded,        \* the language of the frontend
    spoken,        \* its settings
    heard          \* its voices

vars == <<settings, pending, voices, loaded, spoken, heard>>

Spoken(store, lang) ==
    FoldLeft(LAMBDA acc, name : store[name] @@ acc, Empty, Chain(lang))

LoadFrom(store, sound) ==
    \E lang \in Names : loaded' = lang /\ spoken' = Spoken(store, lang) /\ heard' = sound

Keys == DOMAIN Values
Written(lang, changes) == [settings EXCEPT ![lang] = changes @@ @]

PendingOf(lang) ==
    LET ks == {k \in Keys : <<lang, k>> \in DOMAIN pending} IN [k \in ks |-> pending[<<lang, k>>]]

\* The store that came with the program, or what an earlier session left.
Init == pending = Empty /\ loaded = None /\ spoken = Empty /\ heard = Empty

\* The settings of one language that were set, no other's and none but these.
Changed(lang) ==
    {k \in DOMAIN settings'[lang] :
        k \notin DOMAIN settings[lang] \/ settings'[lang][k] # settings[lang][k]}

Put ==
    /\ \E lang \in Langs :
          /\ settings' = Written(lang, [k \in Changed(lang) |-> settings'[lang][k]])
          /\ \A k \in Changed(lang) : k \in Keys /\ settings'[lang][k] \in Values[k]
    /\ LoadFrom(settings', voices) /\ UNCHANGED <<pending, voices>>

\* A text editor beside the program: nothing is told.
EditOutside ==
    /\ \E lang \in Names, k \in Keys : \E v \in Values[k] :
          k \in DOMAIN settings[lang] /\ settings' = Written(lang, k :> v)
    /\ UNCHANGED <<pending, voices, loaded, spoken, heard>>

Edit ==
    /\ \E lang \in Names, k \in Keys : \E v \in Values[k] : pending' = (<<lang, k>> :> v) @@ pending
    /\ UNCHANGED <<settings, voices, loaded, spoken, heard>>

Save ==
    /\ settings' = [lang \in Names |-> PendingOf(lang) @@ settings[lang]]
    /\ pending' = Empty
    /\ LoadFrom(settings', voices) /\ UNCHANGED voices

Discard == pending' = Empty /\ UNCHANGED <<settings, voices, loaded, spoken, heard>>

\* The values of the packs that came with the program again, edits of them forgotten.
Reset ==
    /\ \E langs \in SUBSET Names :
          /\ settings' = [lang \in Names |-> IF lang \in langs /\ Factory[lang] # None
                                             THEN Factory[lang] ELSE settings[lang]]
          /\ pending' = [e \in {d \in DOMAIN pending : d[1] \notin langs} |-> pending[e]]
    /\ LoadFrom(settings', voices) /\ UNCHANGED voices

\* The sliders' keys of one profile; its other keys and the other profiles stay.
SaveSliders ==
    /\ \E p \in Profiles, tone \in Tones :
          voices' = [q \in {PathIn[p, k] : k \in DOMAIN tone} |-> tone[Last(q)]] @@ voices
    /\ LoadFrom(settings, voices') /\ UNCHANGED <<settings, pending>>

Import == voices' \in Imports /\ LoadFrom(settings, voices') /\ UNCHANGED <<settings, pending>>

LoadOnly == LoadFrom(settings, voices) /\ UNCHANGED <<settings, pending, voices>>

\* The program starts anew with what it stored.
Restart ==
    /\ pending' = Empty /\ loaded' = None /\ spoken' = Empty /\ heard' = Empty
    /\ UNCHANGED <<settings, voices>>

Next ==
    \/ Put \/ EditOutside \/ Edit \/ Save \/ Discard \/ Reset
    \/ SaveSliders \/ Import \/ LoadOnly \/ Restart

Spec == Init /\ [][Next]_vars
==============================================================================
