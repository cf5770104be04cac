--------------------------- MODULE FrontendHandle ---------------------------
(***************************************************************************)
(* One frontend handle (src/src/frontend/frontend_handle.h) and the calls  *)
(* of its API that change what the next text sounds like, each an operator *)
(* from the handle before the call to the handle after it; every call runs *)
(* under the handle's mutex.                                               *)
(*                                                                         *)
(* A pack is its differences from the files: one value of each kind of     *)
(* override, NoValue where the file's value stands.  The dictionary types  *)
(* a language can switch off are one type.                                 *)
(***************************************************************************)
CONSTANTS
    Langs,       \* language tags with a pack
    Values,      \* what an override can set
    Modes,       \* pitch modes a caller can choose
    NoLang,      \* no language
    NoValue      \* no override

Default == "default"     \* the pack of a handle that was given no language
PackMode == "pack"       \* the pitch mode the pack's file has
NoMode == "none"

ASSUME HandleAssumption ==
    /\ NoLang \notin Langs /\ NoValue \notin Values
    /\ {NoLang, Default} \cap Langs = {} /\ {PackMode, NoMode} \cap Modes = {}

Kinds == {"setting", "phoneme", "dict"}
FilePack == [k \in Kinds |-> NoValue]

NewHandle == [lang |-> NoLang, pack |-> FilePack, off |-> {},
              mode |-> PackMode, pending |-> NoMode]

Handles == [lang : Langs \cup {NoLang, Default}, pack : [Kinds -> Values \cup {NoValue}],
            off : SUBSET Langs, mode : Modes \cup {PackMode}, pending : Modes \cup {NoMode}]

Loaded(h) == h.lang # NoLang

\* nvspFrontend_setLanguage: a load that fails leaves the pack and the language.
SetLanguage(h, l, ok) ==
    IF ~ok THEN h
    ELSE [h EXCEPT !.lang = l, !.pack = FilePack, !.pending = NoMode,
                   !.mode = IF h.pending = NoMode THEN PackMode ELSE h.pending]

\* nvspFrontend_setPitchMode: kept for the first setLanguage while no pack is loaded.
SetPitchMode(h, m) ==
    IF Loaded(h) THEN [h EXCEPT !.mode = m] ELSE [h EXCEPT !.pending = m]

\* nvspFrontend_setData of a setting, which reaches the pack only under its
\* language, and of a phoneme, which any loaded pack takes.
SetData(h, kind, l, v) ==
    IF (kind = "setting" /\ h.lang # l) \/ (kind = "phoneme" /\ ~Loaded(h)) THEN h
    ELSE [h EXCEPT !.pack[kind] = v]

\* Of a dictionary entry: the pack in memory takes it whatever language it is for.
SetDictEntry(h, v) == [h EXCEPT !.pack["dict"] = v]

\* The "config" sub-type: kept by the handle, not by the pack.
SetDictType(h, l, enabled) ==
    [h EXCEPT !.off = IF enabled THEN @ \ {l} ELSE @ \cup {l}]

\* nvspFrontend_queueIPA_ExWithText: a handle without a language takes the default
\* pack, and a mode that is pending stays pending.
QueueIPA(h, ok) ==
    IF Loaded(h) \/ ~ok THEN h
    ELSE [h EXCEPT !.lang = Default, !.pack = FilePack, !.mode = PackMode]
=============================================================================
