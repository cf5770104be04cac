---------------------------- MODULE PhonemeEditor ----------------------------
(***************************************************************************)
(* The Win32 editor of language packs (tools/tgsbPhonemeEditorWin32): the  *)
(* phonemes and one language are edited in memory and saved on demand,     *)
(* dictionaries in a dialog of their own, voice profiles in the file that  *)
(* also holds the phonemes. Speech comes from the frontend library, which  *)
(* reads the files by itself.                                              *)
(*                                                                         *)
(* A document is the set of changes it contains: a rule added, changed or  *)
(* removed is one more change. Broken stands for a file that cannot be     *)
(* parsed. Files are opened with truncation and what is written is not     *)
(* checked, so a write can be cut off (a full disk) and pass for a save.   *)
(* Dialogs are modal, so what they do up to their OK button is one         *)
(* step; the dictionary dialog, which saves by itself, is a state. A       *)
(* question the user answers with No leaves everything as it was, unless   *)
(* an action says otherwise.                                               *)
(***************************************************************************)
EXTENDS Naturals, FiniteSetsExt

CONSTANTS
    Roots,        \* directories with packs
    Langs,        \* languages, in the order of their files
    Types,        \* of dictionaries
    InitDisks,    \* what the directories may contain
    Broken, None,
    MaxChanges,   \* bound on the changes made
    MaxSpoilt     \* bound on the files that a failure spoils

\* A change has a number and a kind: see Change. NoFile: there is no document.
Changes == [n : 1 .. MaxChanges, kind : {"own", "class", "outside"}]
NoFile == {Broken, None}
Files == NoFile \cup SUBSET Changes
Directories == [phon : Files, voices : SUBSET Changes, lang : [Langs -> Files],
                dict : [Langs -> [Types -> SUBSET Changes]]]

\* What is edited in memory.
PhonemeDocs == [root : Roots, has : SUBSET Changes, voices : SUBSET Changes]
LanguageDocs == [root : Roots, lang : Langs, has : SUBSET Changes]
Dictionaries == [lang : Langs, type : Types, has : SUBSET Changes, modified : BOOLEAN]

ASSUME EditorAssumption ==
    /\ Langs \subseteq Nat /\ None \notin Roots /\ None \notin Langs
    /\ MaxChanges \in Nat /\ MaxSpoilt \in Nat
    /\ \A changes \in SUBSET Changes : changes \notin NoFile
    /\ None \notin PhonemeDocs \cup LanguageDocs \cup Dictionaries
    /\ InitDisks \subseteq [Roots -> Directories]

VARIABLES
    disk,       \* root -> [phon, voices, lang: language -> changes, dict: ... -> type -> ...]
    ini,        \* [root, lang]: what is remembered between sessions
    root,       \* packRoot
    list,       \* [root, langs, sel]: the language box and the files behind it
    phon,       \* None or [root, has, voices]: phonemes.yaml in memory
    phonDirty,
    doc,        \* None or [root, lang, has]: the language in memory
    langDirty,
    dlg,        \* None or [lang, type, has, modified]: the dictionary dialog
    rt,         \* [dlls, root, lang, fe], fe = None or [root, pack]: TgsbRuntime
    made,       \* the changes made
    confirmed,  \* the user agreed in this step to lose changes
    spoilt      \* files a write to which was cut off, or which were shown as empty

memory == <<phon, phonDirty, doc, langDirty>>
vars == <<disk, ini, root, list, memory, dlg, rt, made, confirmed, spoilt>>

NoList == [root |-> None, langs |-> {}, sel |-> None]

\* The user's changes are "own", but for the members of a class, see EditClass; those
\* another program makes to a file are "outside".
Change(kind) == [n |-> made + 1, kind |-> kind]
Make == made < MaxChanges /\ made' = made + 1
Own(changes) == IF changes \in NoFile THEN {} ELSE {c \in changes : c.kind = "own"}

PhonFile(r) == <<r>>
LangFile(r, l) == <<r, l>>
DictFile(r, l, type) == <<r, l, type>>
Spoil(gone) == spoilt' = spoilt \cup gone /\ Cardinality(spoilt') <= MaxSpoilt
Lost(file, failed) == IF failed THEN {file} ELSE {}

\* What a write of a YAML file may leave of it.
Rest(file) == IF file \in NoFile THEN {file} ELSE {Broken} \cup SUBSET file

-----------------------------------------------------------------------------
(* TgsbRuntime.                                                            *)

\* What the frontend makes of the files; None when one cannot be parsed.
PackOf(d, r, l) ==
    IF Broken \in {d[r].phon, d[r].lang[l]} THEN None
    ELSE [lang |-> l, phon |-> d[r].phon, voices |-> d[r].voices,
          has |-> d[r].lang[l], dict |-> d[r].dict[l]]

Unload(run) == [run EXCEPT !.dlls = FALSE, !.fe = None]
Load(run) == [run EXCEPT !.dlls = TRUE, !.fe = None]

\* Slip: the frontend is kept.
SetPackRootOnly(run, r) == [run EXCEPT !.root = r]

\* The frontend is bound to its directory and goes with it.
SetPackRoot(run, r) == [run EXCEPT !.root = r, !.fe = None]

\* The frontend is created when there is none; a pack that does not load leaves the old.
SetLanguage(run, l, d) ==
    LET fe == IF run.fe = None THEN [root |-> run.root, pack |-> None] ELSE run.fe
        pack == PackOf(d, fe.root, l)
    IN  IF l = None THEN run
        ELSE IF ~run.dlls \/ run.root = None THEN [run EXCEPT !.lang = l]
        ELSE [run EXCEPT !.lang = l,
                         !.fe = IF pack = None THEN fe ELSE [fe EXCEPT !.pack = pack]]

\* The libraries are loaded at the first use, from a directory that may not have them.
EnsureDlls(run, found) ==
    IF run.dlls THEN run
    ELSE IF ~found THEN Unload(run)
    ELSE IF root = None THEN Load(run)
    ELSE SetLanguage(SetPackRoot(Load(run), root), list.sel, disk)

\* onSpeak sets directory and language anew before it synthesizes.
Speaking(run) ==
    SetLanguage(SetPackRoot(run, root), IF list.sel = None THEN run.lang ELSE list.sel, disk)

\* A document was loaded or saved: the frontend reads its language again.
Told(run, l) == IF run.dlls /\ root # None THEN SetLanguage(run, l, disk') ELSE run

-----------------------------------------------------------------------------
(* Loading.                                                                *)

\* The runtime when a session begins.
Started(dlls) == [dlls |-> dlls, root |-> None, lang |-> None, fe |-> None]

Init ==
    /\ disk \in InitDisks /\ ini = [root |-> None, lang |-> None]
    /\ root = None /\ list = NoList /\ dlg = None /\ made = 0 /\ confirmed = FALSE
    /\ spoilt = {}
    /\ phon = None /\ phonDirty = FALSE /\ doc = None /\ langDirty = FALSE
    /\ \E dlls \in BOOLEAN : rt = Started(dlls)

\* populateLanguageCombo: the language used last, or the first.
LanguagesOf(r) ==
    LET langs == {l \in Langs : disk[r].lang[l] # None}
    IN  [root |-> r, langs |-> langs,
         sel |-> IF ini.lang \in langs THEN ini.lang
                 ELSE IF langs = {} THEN None ELSE Min(langs)]

Parses(from) == from.sel # None /\ disk[from.root].lang[from.sel] \notin NoFile

\* The document that was open stays if the file cannot be parsed.
LoadLanguage(from, opened, dirty) ==
    IF Parses(from)
    THEN /\ doc' = [root |-> from.root, lang |-> from.sel, has |-> disk[from.root].lang[from.sel]]
         /\ langDirty' = FALSE
    ELSE doc' = opened /\ langDirty' = dirty

LastLanguage(from) == IF Parses(from) THEN from.sel ELSE ini.lang

Readable == {r \in Roots : disk[r].phon \notin NoFile}

LoadPhonemes(r) ==
    /\ r \in Readable
    /\ phon' = [root |-> r, has |-> disk[r].phon, voices |-> disk[r].voices]
    /\ phonDirty' = FALSE

\* loadPackRoot.
LoadPackRoot(r, opened, dirty) ==
    LET from == LanguagesOf(r)
    IN  /\ root' = r
        /\ LoadPhonemes(r)
        /\ list' = from
        /\ LoadLanguage(from, opened, dirty)
        /\ ini' = [root |-> r, lang |-> LastLanguage(from)]

\* Without phonemes the directory changes and nothing else.
FailPackRoot(r) == r \notin Readable /\ root' = r /\ UNCHANGED <<ini, list, memory>>

\* The language is announced to the runtime before the directory is.
Announced(r, run) ==
    LET from == LanguagesOf(r)
    IN  IF ~run.dlls \/ r \notin Readable THEN run
        ELSE SetPackRoot(IF Parses(from) THEN SetLanguage(run, from.sel, disk) ELSE run, r)

OpenPackRoot(r) ==
    /\ dlg = None
    /\ confirmed' = (phonDirty \/ langDirty)
    /\ LoadPackRoot(r, doc, langDirty) \/ FailPackRoot(r)
    /\ rt' = Announced(r, rt)
    /\ UNCHANGED <<disk, dlg, made, spoilt>>

\* WM_CLOSE and the next session: the directory is opened that was opened last.
CloseAndReopen ==
    /\ dlg = None
    /\ confirmed' = (phonDirty \/ langDirty)
    /\ \E dlls \in BOOLEAN :
          \/ /\ ini.root \in Readable   \* else it was never opened
             /\ LoadPackRoot(ini.root, None, FALSE)
             /\ rt' = Announced(ini.root, Started(dlls))
          \/ /\ ini.root \notin Readable
             /\ root' = ini.root /\ list' = NoList /\ rt' = Started(dlls) /\ UNCHANGED ini
             /\ phon' = None /\ phonDirty' = FALSE /\ doc' = None /\ langDirty' = FALSE
    /\ UNCHANGED <<disk, dlg, made, spoilt>>

\* IDM_SETTINGS_DLL_DIR: packs beside the libraries are opened if none are.
SetDllDirectory ==
    /\ dlg = None
    /\ \/ rt' = Unload(rt) /\ UNCHANGED <<ini, root, list, memory>>
       \/ /\ rt' = IF root = None THEN Load(rt)
                   ELSE SetLanguage(SetPackRoot(Load(rt), root), list.sel, disk)
          /\ UNCHANGED <<ini, root, list, memory>>
       \/ \E r \in Roots : /\ root = None
                           /\ LoadPackRoot(r, doc, langDirty) \/ FailPackRoot(r)
                           /\ rt' = SetLanguage(SetPackRoot(Load(rt), r), list'.sel, disk)
    /\ confirmed' = FALSE /\ UNCHANGED <<disk, dlg, made, spoilt>>

\* The box shows the new language even if the user wants to keep the changes of the old
\* one or the file cannot be parsed.
SelectLanguage(l) ==
    LET from == [list EXCEPT !.sel = l]
    IN  /\ dlg = None /\ l \in list.langs \ {list.sel}
        /\ list' = from
        /\ UNCHANGED <<disk, root, phon, phonDirty, dlg, made, spoilt>>
        /\ \/ langDirty /\ confirmed' = FALSE /\ UNCHANGED <<ini, doc, langDirty, rt>>
           \/ /\ confirmed' = langDirty
              /\ LoadLanguage(from, doc, langDirty)
              /\ ini' = [ini EXCEPT !.lang = LastLanguage(from)]
              /\ rt' = IF Parses(from) THEN Told(rt, l) ELSE rt

ReloadLanguage ==
    LET has == disk[doc.root].lang[doc.lang]
    IN  /\ dlg = None /\ doc # None /\ has \notin NoFile
        /\ confirmed' = langDirty
        /\ doc' = [doc EXCEPT !.has = has] /\ langDirty' = FALSE
        /\ UNCHANGED <<disk, ini, root, list, phon, phonDirty, dlg, made, spoilt>>
        /\ rt' = Told(rt, list.sel)

ReloadPhonemes ==
    /\ dlg = None /\ phon # None
    /\ confirmed' = phonDirty
    /\ LoadPhonemes(phon.root)
    /\ UNCHANGED <<disk, ini, root, list, doc, langDirty, dlg, rt, made, spoilt>>

-----------------------------------------------------------------------------
(* Editing and saving.                                                     *)

\* A document with one more change.
Edited(document, kind) == [document EXCEPT !.has = @ \cup {Change(kind)}]

\* Mappings, skip rules, settings, allophone and coarticulation rules.
EditLanguage ==
    /\ dlg = None /\ doc # None /\ Make
    /\ doc' = Edited(doc, "own") /\ langDirty' = TRUE
    /\ confirmed' = FALSE
    /\ UNCHANGED <<disk, ini, root, list, phon, phonDirty, dlg, rt, spoilt>>

\* The classes dialog, opened from a rule's: the members of a class change, and only a
\* change of the rule, or of the names of the classes, makes the document dirty.
EditClass ==
    /\ dlg = None /\ doc # None /\ Make
    /\ doc' = Edited(doc, "class")
    /\ confirmed' = FALSE
    /\ UNCHANGED <<disk, ini, root, list, phon, phonDirty, langDirty, dlg, rt, spoilt>>

\* A phoneme is changed for all languages, or a new one begins as a copy.
EditPhoneme ==
    /\ dlg = None /\ phon # None /\ Make
    /\ phon' = Edited(phon, "own") /\ phonDirty' = TRUE
    /\ confirmed' = FALSE
    /\ UNCHANGED <<disk, ini, root, list, doc, langDirty, dlg, rt, spoilt>>

\* Slip: only the rule is seen to be new.
CloneForLanguageHalf ==
    /\ dlg = None /\ phon # None /\ doc # None /\ list.sel # None /\ Make
    /\ phon' = Edited(phon, "own")
    /\ doc' = Edited(doc, "own") /\ langDirty' = TRUE
    /\ confirmed' = FALSE /\ UNCHANGED <<disk, ini, root, list, phonDirty, dlg, rt, spoilt>>

\* A phoneme of its own for the language the box shows, with a rule, unless there is one,
\* in the language that is loaded.
CloneForLanguage ==
    /\ dlg = None /\ phon # None /\ doc # None /\ list.sel # None /\ Make
    /\ phon' = Edited(phon, "own") /\ phonDirty' = TRUE
    /\ \/ doc' = Edited(doc, "own") /\ langDirty' = TRUE
       \/ UNCHANGED <<doc, langDirty>>
    /\ confirmed' = FALSE /\ UNCHANGED <<disk, ini, root, list, dlg, rt, spoilt>>

\* LanguageYaml::save writes the whole file.
WriteLanguage(file) ==
    /\ disk' = [disk EXCEPT ![doc.root].lang[doc.lang] = file]
    /\ Spoil(Lost(LangFile(doc.root, doc.lang), file # doc.has))

\* The file is read again after it is written, and what is left of it becomes the document;
\* if it cannot be parsed the document stays, and counts as saved. A file that cannot be
\* opened changes nothing.
SaveLanguage ==
    /\ dlg = None /\ doc # None
    /\ \E file \in Rest(doc.has) :
          /\ WriteLanguage(file)
          /\ IF file = Broken THEN UNCHANGED <<doc, rt>>
             ELSE doc' = [doc EXCEPT !.has = file] /\ rt' = Told(rt, list.sel)
    /\ langDirty' = FALSE
    /\ confirmed' = FALSE /\ UNCHANGED <<ini, root, list, phon, phonDirty, dlg, made>>

\* PhonemesYaml::save replaces the lines of the phonemes, the others are the file's, or all
\* lines if nothing is left of the file.
WritePhonemes(file, voices) ==
    LET r == phon.root
    IN  /\ \/ voices \subseteq disk[r].voices
           \/ disk[r].phon = Broken /\ voices \subseteq phon.voices
        /\ disk' = [disk EXCEPT ![r].phon = file, ![r].voices = voices]
        /\ Spoil(Lost(PhonFile(r), file # phon.has \/ voices # disk[r].voices))

\* Read again like the language. The runtime is not told.
SavePhonemes ==
    /\ dlg = None /\ phon # None
    /\ \E file \in Rest(phon.has), voices \in SUBSET (phon.voices \cup disk[phon.root].voices) :
          /\ WritePhonemes(file, voices)
          /\ phon' = IF file = Broken THEN phon
                     ELSE [phon EXCEPT !.has = file, !.voices = voices]
    /\ phonDirty' = FALSE /\ confirmed' = FALSE
    /\ UNCHANGED <<ini, root, list, doc, langDirty, dlg, rt, made>>

\* saveVoiceProfilesToYaml replaces the lines of the profiles, and writes all.
WriteVoices(r) ==
    LET new == disk[r].voices \cup {Change("own")}
    IN  /\ disk[r].phon # None
        /\ \E file \in Rest(disk[r].phon), voices \in SUBSET new :
              /\ disk' = [disk EXCEPT ![r].phon = file, ![r].voices = voices]
              /\ Spoil(Lost(PhonFile(r), file # disk[r].phon \/ voices # new))

\* The profiles dialog reads and writes the file of the directory.
EditVoices ==
    /\ dlg = None /\ root # None /\ Make
    /\ WriteVoices(root)
    /\ confirmed' = FALSE /\ UNCHANGED <<ini, root, list, memory, dlg, rt>>

\* The sliders of the speech settings go to the file of the runtime's directory.
SaveVoiceProfileSliders ==
    /\ dlg = None /\ rt.root # None /\ Make
    /\ WriteVoices(rt.root)
    /\ confirmed' = FALSE /\ UNCHANGED <<ini, root, list, memory, dlg, rt>>

\* A text editor, whatever dialog is open here.
ExternalEdit ==
    /\ Make
    /\ \E r \in Roots :
          \/ /\ r \in Readable
             /\ disk' = [disk EXCEPT ![r].phon = @ \cup {Change("outside")}]
          \/ \E l \in Langs :
                /\ disk[r].lang[l] \notin NoFile
                /\ disk' = [disk EXCEPT ![r].lang[l] = @ \cup {Change("outside")}]
    /\ confirmed' = FALSE /\ UNCHANGED <<ini, root, list, memory, dlg, rt, spoilt>>

-----------------------------------------------------------------------------
(* The dictionary dialog.                                                  *)

\* A file that cannot be read is shown as an empty one, and the next save makes it so.
ShowDictionary(l, type, gone) ==
    LET has == disk'[root].dict[l][type]
    IN  \E shown \in {has, {}} :
           /\ dlg' = [lang |-> l, type |-> type, has |-> shown, modified |-> FALSE]
           /\ Spoil(gone \cup Lost(DictFile(root, l, type), shown # has))

OpenDictionary ==
    /\ dlg = None /\ root # None
    /\ UNCHANGED disk
    /\ \E l \in {l \in Langs : disk[root].lang[l] # None}, type \in Types :
          ShowDictionary(l, type, {})
    /\ confirmed' = FALSE /\ UNCHANGED <<ini, root, list, memory, rt, made>>

\* Add, Edit, Delete and Import.
ChangeEntries ==
    /\ dlg # None /\ Make
    /\ dlg' = [Edited(dlg, "own") EXCEPT !.modified = TRUE]
    /\ confirmed' = FALSE /\ UNCHANGED <<disk, ini, root, list, memory, rt, spoilt>>

\* saveDictTsv; gone has the file if the write was cut off.
SaveEntries(gone) ==
    \E has \in SUBSET dlg.has :
        /\ disk' = [disk EXCEPT ![root].dict[dlg.lang][dlg.type] = has]
        /\ gone = Lost(DictFile(root, dlg.lang, dlg.type), has # dlg.has)

\* The entries of the dialog are not read again.
SaveDictionary ==
    /\ dlg # None
    /\ \E gone \in SUBSET {DictFile(root, dlg.lang, dlg.type)} :
          SaveEntries(gone) /\ Spoil(gone)
    /\ dlg' = [dlg EXCEPT !.modified = FALSE]
    /\ confirmed' = FALSE /\ UNCHANGED <<ini, root, list, memory, rt, made>>

\* Slip: after a file that cannot be opened the dialog goes on all the same.
PromptSaveAndGoOn(gone) ==
    \/ dlg.modified /\ confirmed' = FALSE /\ (SaveEntries(gone) \/ (disk' = disk /\ gone = {}))
    \/ disk' = disk /\ gone = {} /\ confirmed' = dlg.modified

\* promptSaveIfModified: saved, or not wanted. A file that cannot be opened leaves all as it
\* was.
PromptSave(gone) ==
    \/ dlg.modified /\ confirmed' = FALSE /\ SaveEntries(gone)
    \/ disk' = disk /\ gone = {} /\ confirmed' = dlg.modified

SwitchDictionary ==
    /\ dlg # None
    /\ \E gone \in SUBSET {DictFile(root, dlg.lang, dlg.type)},
          l \in {l \in Langs : disk[root].lang[l] # None}, type \in Types :
          /\ <<l, type>> # <<dlg.lang, dlg.type>>
          /\ PromptSave(gone)
          /\ ShowDictionary(l, type, gone)
    /\ UNCHANGED <<ini, root, list, memory, rt, made>>

CloseDictionary ==
    /\ dlg # None /\ dlg' = None
    /\ \E gone \in SUBSET {DictFile(root, dlg.lang, dlg.type)} :
          PromptSave(gone) /\ Spoil(gone)
    /\ UNCHANGED <<ini, root, list, memory, rt, made>>

-----------------------------------------------------------------------------
(* Listening.                                                              *)

\* A phoneme is previewed from memory, also from a dialog.
PlayPhoneme ==
    /\ phon # None
    /\ \E found \in BOOLEAN : rt' = EnsureDlls(rt, found)
    /\ confirmed' = FALSE /\ UNCHANGED <<disk, ini, root, list, memory, dlg, made, spoilt>>

Speak ==
    /\ dlg = None
    /\ \E found \in BOOLEAN :
          LET run == EnsureDlls(rt, found)
          IN  rt' = IF run.dlls /\ root # None THEN Speaking(run) ELSE run
    /\ confirmed' = FALSE /\ UNCHANGED <<disk, ini, root, list, memory, dlg, made, spoilt>>

Next ==
    \/ \E r \in Roots : OpenPackRoot(r)
    \/ \E l \in Langs : SelectLanguage(l)
    \/ CloseAndReopen \/ SetDllDirectory \/ ReloadLanguage \/ ReloadPhonemes
    \/ EditLanguage \/ EditClass \/ EditPhoneme \/ CloneForLanguage
    \/ SaveLanguage \/ SavePhonemes \/ EditVoices \/ SaveVoiceProfileSliders \/ ExternalEdit
    \/ OpenDictionary \/ ChangeEntries \/ SaveDictionary \/ SwitchDictionary \/ CloseDictionary
    \/ PlayPhoneme \/ Speak

Spec == Init /\ [][Next]_vars

-----------------------------------------------------------------------------
(* Properties.                                                             *)

\* The user's changes in the files of d, or in memory, but for the files in gone.
OwnOnDisk(d, gone) ==
    UNION {(IF PhonFile(r) \in gone THEN {} ELSE Own(d[r].phon) \cup Own(d[r].voices))
             \cup (UNION {Own(d[r].lang[l]) : l \in {l \in Langs : LangFile(r, l) \notin gone}})
             \cup (UNION {UNION {Own(d[r].dict[l][type]) :
                                  type \in {t \in Types : DictFile(r, l, t) \notin gone}} :
                             l \in Langs}) : r \in Roots}
OwnInMemory(gone) ==
    (IF phon = None \/ PhonFile(phon.root) \in gone THEN {} ELSE Own(phon.has))
      \cup (IF doc = None \/ LangFile(doc.root, doc.lang) \in gone THEN {} ELSE Own(doc.has))
      \cup (IF dlg = None \/ DictFile(root, dlg.lang, dlg.type) \in gone THEN {}
            ELSE Own(dlg.has))

\* A document is called unchanged only if its file has every change the user made, however
\* it was opened, switched, cloned into and saved: closing it then loses none of them
\* (languageDirty, phonemesDirty). Two kinds of changes are excepted because the code does
\* lose them: those of the members of a class, which are not tracked (EditClass),
\* and those to a file a write to which was cut off, which counts as saved.
CleanMeansSaved ==
    /\ doc # None /\ ~langDirty /\ LangFile(doc.root, doc.lang) \notin spoilt =>
          Own(doc.has) \subseteq Own(disk[doc.root].lang[doc.lang])
    /\ phon # None /\ ~phonDirty /\ PhonFile(phon.root) \notin spoilt =>
          Own(phon.has) \subseteq Own(disk[phon.root].phon)

\* What the user changed, but for the members of classes, is in memory or in a file until
\* they agree to lose it, and what was saved stays: opening, switching, reloading and closing
\* drop nothing by themselves, and the phonemes and the voice profiles share a file, where a
\* save of the one, or of an older copy in memory, does not undo the other. A write that is
\* cut off and a dictionary that could not be read do lose changes, with no question asked,
\* but only those to that one file: never another document's or another file's.
ChangesSurvive ==
    [][/\ OwnOnDisk(disk, spoilt') \subseteq OwnOnDisk(disk', spoilt')
       /\ ~confirmed' =>
             OwnInMemory(spoilt') \subseteq OwnInMemory({})' \cup OwnOnDisk(disk', {})]_vars

\* A frontend never outlives the libraries it came from or the directory it was made for
\* (unload, setPackRoot), in whatever order directories are opened, with success or not,
\* libraries changed, languages announced and sounds previewed. With a directory and a
\* language chosen, Speak is therefore heard as the files have it, or not at all if they
\* cannot be parsed: never another directory's pack or one read earlier.
SpeakHearsSavedFiles ==
    /\ rt.fe # None => rt.dlls /\ rt.fe.root = rt.root
    /\ rt.dlls /\ root # None /\ list.sel # None =>
          Speaking(rt).fe = [root |-> root, pack |-> PackOf(disk, root, list.sel)]
=============================================================================
