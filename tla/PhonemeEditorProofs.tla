-------------------------- MODULE PhonemeEditorProofs --------------------------
(***************************************************************************)
(* Proofs about PhonemeEditor, for every set of directories, languages and *)
(* types of dictionaries, every content of the files and number of changes.*)
(***************************************************************************)
EXTENDS PhonemeEditor, WellFoundedInduction, TLAPS

-----------------------------------------------------------------------------
(* The invariant.                                                          *)

Disks == [Roots -> Directories]

\* A language can only be chosen in a directory that was read.
ListOK ==
    /\ list \in [root : Roots \cup {None}, langs : SUBSET Langs, sel : Langs \cup {None}]
    /\ list.langs # {} \/ list.sel # None => list.root \in Roots /\ root # None

\* Without a directory nothing is open.
EditorTypes ==
    /\ disk \in Disks /\ made \in 0 .. MaxChanges
    /\ root \in Roots \cup {None}
    /\ ini \in [root : Roots \cup {None}, lang : Langs \cup {None}]
    /\ phon \in PhonemeDocs \cup {None} /\ phonDirty \in BOOLEAN
    /\ doc \in LanguageDocs \cup {None} /\ langDirty \in BOOLEAN
    /\ dlg \in Dictionaries \cup {None}
    /\ root = None => phon = None /\ doc = None /\ dlg = None

\* What is open in memory contains every change of the user's that is in its file, and
\* nothing more unless it is called dirty, as long as the file is not spoilt.
Matches(memoryOwn, fileOwn, dirty) ==
    fileOwn \subseteq memoryOwn /\ (~dirty => memoryOwn \subseteq fileOwn)

PhonMatches ==
    phon # None /\ PhonFile(phon.root) \notin spoilt =>
        Matches(Own(phon.has), Own(disk[phon.root].phon), phonDirty)
DocMatches ==
    doc # None /\ LangFile(doc.root, doc.lang) \notin spoilt =>
        Matches(Own(doc.has), Own(disk[doc.root].lang[doc.lang]), langDirty)
DlgMatches ==
    dlg # None /\ DictFile(root, dlg.lang, dlg.type) \notin spoilt =>
        Matches(Own(dlg.has), Own(disk[root].dict[dlg.lang][dlg.type]), dlg.modified)

EditorInv == EditorTypes /\ ListOK /\ PhonMatches /\ DocMatches /\ DlgMatches

\* The frontend of a runtime goes with its libraries and its directory.
Fits(run) ==
    /\ run = [dlls |-> run.dlls, root |-> run.root, lang |-> run.lang, fe |-> run.fe]
    /\ run.dlls \in BOOLEAN
    /\ run.fe # None => run.dlls /\ run.fe = [root |-> run.root, pack |-> run.fe.pack]

-----------------------------------------------------------------------------
(* The runtime.                                                            *)

LEMMA RunFacts ==
    ASSUME NEW run, NEW new, NEW value,
           run = [dlls |-> run.dlls, root |-> run.root, lang |-> run.lang, fe |-> run.fe]
    PROVE  /\ new = [run EXCEPT !.root = value, !.fe = None] =>
                  new = [dlls |-> run.dlls, root |-> value, lang |-> run.lang, fe |-> None]
           /\ new = [run EXCEPT !.dlls = value, !.fe = None] =>
                  new = [dlls |-> value, root |-> run.root, lang |-> run.lang, fe |-> None]
<1>1. ASSUME new = [run EXCEPT !.root = value, !.fe = None]
      PROVE  new = [dlls |-> run.dlls, root |-> value, lang |-> run.lang, fe |-> None]
  BY <1>1
<1>2. ASSUME new = [run EXCEPT !.dlls = value, !.fe = None]
      PROVE  new = [dlls |-> value, root |-> run.root, lang |-> run.lang, fe |-> None]
  BY <1>2
<1> QED BY <1>1, <1>2

LEMMA SetPackRootFits ==
    ASSUME NEW run, NEW r, Fits(run)
    PROVE  /\ Fits(SetPackRoot(run, r))
           /\ SetPackRoot(run, r) =
                  [dlls |-> run.dlls, root |-> r, lang |-> run.lang, fe |-> None]
<1>1. SetPackRoot(run, r) = [dlls |-> run.dlls, root |-> r, lang |-> run.lang, fe |-> None]
  BY RunFacts, Zenon DEF SetPackRoot, Fits
<1> QED BY <1>1 DEF Fits

LEMMA SetLanguageFits ==
    ASSUME NEW run, NEW l, NEW d, Fits(run)
    PROVE  Fits(SetLanguage(run, l, d))
<1> DEFINE fe == IF run.fe = None THEN [root |-> run.root, pack |-> None] ELSE run.fe
           pack == PackOf(d, fe.root, l)
           read == IF pack = None THEN fe ELSE [fe EXCEPT !.pack = pack]
<1>1. fe = [root |-> run.root, pack |-> fe.pack]
  BY DEF Fits
<1>2. read = [root |-> run.root, pack |-> read.pack]
  <2> HIDE DEF pack
  <2> QED BY <1>1
<1>3. CASE l = None \/ ~run.dlls \/ run.root = None
  <2>1. SetLanguage(run, l, d) \in {run, [run EXCEPT !.lang = l]}
    BY <1>3 DEF SetLanguage
  <2>2. [run EXCEPT !.lang = l] =
            [dlls |-> run.dlls, root |-> run.root, lang |-> l, fe |-> run.fe]
    BY DEF Fits
  <2> QED BY <2>1, <2>2 DEF Fits
<1>4. CASE ~(l = None \/ ~run.dlls \/ run.root = None)
  <2>1. SetLanguage(run, l, d) = [run EXCEPT !.lang = l, !.fe = read]
    BY <1>4 DEF SetLanguage
  <2> HIDE DEF fe, pack, read
  <2>2. SetLanguage(run, l, d) =
            [dlls |-> run.dlls, root |-> run.root, lang |-> l, fe |-> read]
    BY <2>1 DEF Fits
  <2> QED BY <1>2, <1>4, <2>2 DEF Fits
<1> QED BY <1>3, <1>4

LEMMA LoadFits ==
    ASSUME NEW run, Fits(run)
    PROVE  Fits(Load(run)) /\ Fits(Unload(run))
<1>1. /\ Load(run) = [dlls |-> TRUE, root |-> run.root, lang |-> run.lang, fe |-> None]
      /\ Unload(run) = [dlls |-> FALSE, root |-> run.root, lang |-> run.lang, fe |-> None]
  BY RunFacts, Zenon DEF Load, Unload, Fits
<1> QED BY <1>1 DEF Fits

LEMMA StartedFits == \A dlls \in BOOLEAN : Fits(Started(dlls))
  BY DEF Started, Fits

LEMMA EnsureDllsFits ==
    ASSUME NEW run, NEW found, Fits(run)
    PROVE  Fits(EnsureDlls(run, found))
  BY LoadFits, SetPackRootFits, SetLanguageFits DEF EnsureDlls

LEMMA SpeakingFits ==
    ASSUME NEW run, Fits(run)
    PROVE  Fits(Speaking(run))
  BY SetPackRootFits, SetLanguageFits DEF Speaking

LEMMA AnnouncedFits ==
    ASSUME NEW r, NEW run, Fits(run)
    PROVE  Fits(Announced(r, run))
  BY SetPackRootFits, SetLanguageFits DEF Announced

LEMMA ToldFits ==
    ASSUME NEW run, NEW l, Fits(run)
    PROVE  Fits(Told(run, l))
  BY SetLanguageFits DEF Told

LEMMA NextFits == Fits(rt) /\ [Next]_vars => Fits(rt')
<1> SUFFICES ASSUME Fits(rt), [Next]_vars PROVE Fits(rt')
  OBVIOUS
<1>1. CASE UNCHANGED rt
  BY <1>1
<1>2. CASE rt' \in {Unload(rt), Load(rt)}
  BY <1>2, LoadFits
<1>3. ASSUME NEW r \in Roots, OpenPackRoot(r) PROVE Fits(rt')
  BY <1>3, AnnouncedFits DEF OpenPackRoot
<1>4. CASE CloseAndReopen
  <2>1. PICK dlls \in BOOLEAN : rt' \in {Announced(ini.root, Started(dlls)), Started(dlls)}
    BY <1>4 DEF CloseAndReopen
  <2>2. Fits(Started(dlls))
    BY StartedFits
  <2> QED BY <2>1, <2>2, AnnouncedFits
<1>5. CASE SetDllDirectory
  <2>1. \/ rt' \in {Unload(rt), Load(rt)}
        \/ \E r, l, d : rt' = SetLanguage(SetPackRoot(Load(rt), r), l, d)
    BY <1>5 DEF SetDllDirectory
  <2> QED BY <2>1, LoadFits, SetPackRootFits, SetLanguageFits
<1>6. ASSUME NEW l \in Langs, SelectLanguage(l) PROVE Fits(rt')
  BY <1>6, ToldFits DEF SelectLanguage
<1>7. CASE ReloadLanguage \/ SaveLanguage
  BY <1>7, ToldFits DEF ReloadLanguage, SaveLanguage
<1>8. CASE PlayPhoneme
  BY <1>8, EnsureDllsFits DEF PlayPhoneme
<1>9. CASE Speak
  <2>1. PICK found \in BOOLEAN :
            \/ rt' = EnsureDlls(rt, found)
            \/ rt' = Speaking(EnsureDlls(rt, found))
    BY <1>9 DEF Speak
  <2> QED BY <2>1, EnsureDllsFits, SpeakingFits
<1>10. CASE ReloadPhonemes \/ EditLanguage \/ EditClass \/ EditPhoneme \/ CloneForLanguage
  BY <1>1, <1>10 DEF ReloadPhonemes, EditLanguage, EditClass, EditPhoneme, CloneForLanguage
<1>11. CASE SavePhonemes \/ EditVoices \/ SaveVoiceProfileSliders \/ ExternalEdit
  BY <1>1, <1>11 DEF SavePhonemes, EditVoices, SaveVoiceProfileSliders, ExternalEdit
<1>12. CASE \/ OpenDictionary \/ ChangeEntries \/ SaveDictionary \/ SwitchDictionary
            \/ CloseDictionary
  BY <1>1, <1>12 DEF OpenDictionary, ChangeEntries, SaveDictionary, SwitchDictionary,
     CloseDictionary
<1>13. CASE UNCHANGED vars
  BY <1>1, <1>13 DEF vars
<1> QED BY <1>3, <1>4, <1>5, <1>6, <1>7, <1>8, <1>9, <1>10, <1>11, <1>12, <1>13 DEF Next

\* A frontend goes with its libraries and its directory, so that Speak, with a directory and
\* a language chosen, is heard as the files have it or not at all.
THEOREM SpeakIsUpToDate == Spec => []SpeakHearsSavedFiles
<1> DEFINE Inv == Fits(rt)
<1>1. Init => Inv
  BY StartedFits DEF Init
<1>2. Inv /\ [Next]_vars => Inv'
  BY NextFits
<1>3. Inv => SpeakHearsSavedFiles
  <2> SUFFICES ASSUME Fits(rt) PROVE SpeakHearsSavedFiles
    OBVIOUS
  <2>1. rt.fe # None => rt.dlls /\ rt.fe.root = rt.root
    BY DEF Fits
  <2>2. ASSUME rt.dlls, root # None, list.sel # None
        PROVE  Speaking(rt).fe = [root |-> root, pack |-> PackOf(disk, root, list.sel)]
    <3> DEFINE run == [dlls |-> rt.dlls, root |-> root, lang |-> rt.lang, fe |-> None]
               fe == [root |-> root, pack |-> None]
               pack == PackOf(disk, root, list.sel)
    <3>1. SetPackRoot(rt, root) = run
      BY SetPackRootFits
    <3>2. Speaking(rt) = SetLanguage(run, list.sel, disk)
      BY <2>2, <3>1 DEF Speaking
    <3>3. SetLanguage(run, list.sel, disk) =
              [run EXCEPT !.lang = list.sel,
                          !.fe = IF pack = None THEN fe ELSE [fe EXCEPT !.pack = pack]]
      BY <2>2 DEF SetLanguage
    <3> HIDE DEF pack
    <3>4. (IF pack = None THEN fe ELSE [fe EXCEPT !.pack = pack]) = [root |-> root, pack |-> pack]
      OBVIOUS
    <3> QED BY <3>2, <3>3, <3>4 DEF pack
  <2> QED BY <2>1, <2>2 DEF SpeakHearsSavedFiles
<1> HIDE DEF Inv
<1> QED BY <1>1, <1>2, <1>3, PTL DEF Spec
-----------------------------------------------------------------------------
(* Changes and files.                                                      *)

LEMMA OwnFacts ==
    /\ \A changes \in SUBSET Changes :
          /\ changes \in Files /\ changes \notin NoFile
          /\ Own(changes) = {c \in changes : c.kind = "own"}
    /\ \A file \in Files : file \notin NoFile => file \in SUBSET Changes
  BY EditorAssumption DEF Files, Own

LEMMA ChangeFacts ==
    ASSUME made \in 0 .. MaxChanges, made < MaxChanges, NEW changes \in SUBSET Changes,
           NEW kind \in {"own", "class", "outside"}
    PROVE  /\ changes \cup {Change(kind)} \in SUBSET Changes
           /\ Own(changes) \subseteq Own(changes \cup {Change(kind)})
           /\ kind # "own" => Own(changes \cup {Change(kind)}) = Own(changes)
<1>1. Change(kind) \in Changes /\ Change(kind).kind = kind
  <2>1. made + 1 \in 1 .. MaxChanges
    BY EditorAssumption
  <2> QED BY <2>1 DEF Change, Changes
<1> DEFINE more == changes \cup {Change(kind)}
<1>2. more \in SUBSET Changes
  BY <1>1
<1>3. /\ Own(changes) = {c \in changes : c.kind = "own"}
      /\ Own(more) = {c \in more : c.kind = "own"}
  BY <1>2, OwnFacts
<1> QED BY <1>1, <1>2, <1>3

WithPhon(d, r, file) == [d EXCEPT ![r].phon = file]

LEMMA PhonWritten ==
    ASSUME NEW d \in Disks, NEW r \in Roots, NEW file \in Files
    PROVE  LET e == WithPhon(d, r, file)
           IN  /\ e \in Disks
               /\ \A s \in Roots : /\ e[s].phon = IF s = r THEN file ELSE d[s].phon
                                   /\ e[s].voices = d[s].voices /\ e[s].lang = d[s].lang
                                   /\ e[s].dict = d[s].dict
<1> DEFINE e == WithPhon(d, r, file)
           dir == [d[r] EXCEPT !.phon = file]
<1>1. d[r] \in Directories
  BY DEF Disks
<1>2. /\ dir \in Directories /\ dir.phon = file /\ dir.voices = d[r].voices
      /\ dir.lang = d[r].lang /\ dir.dict = d[r].dict
  BY <1>1 DEF Directories
<1>3. e = [d EXCEPT ![r] = dir]
  BY DEF WithPhon
<1> HIDE DEF dir
<1>4. e \in Disks /\ \A s \in Roots : e[s] = IF s = r THEN dir ELSE d[s]
  BY <1>2, <1>3 DEF Disks
<1> QED BY <1>2, <1>4

WithVoices(d, r, changes) == [d EXCEPT ![r].voices = changes]

LEMMA VoicesWritten ==
    ASSUME NEW d \in Disks, NEW r \in Roots, NEW changes \in SUBSET Changes
    PROVE  LET e == WithVoices(d, r, changes)
           IN  /\ e \in Disks
               /\ \A s \in Roots : /\ e[s].voices = IF s = r THEN changes ELSE d[s].voices
                                   /\ e[s].phon = d[s].phon /\ e[s].lang = d[s].lang
                                   /\ e[s].dict = d[s].dict
<1> DEFINE e == WithVoices(d, r, changes)
           dir == [d[r] EXCEPT !.voices = changes]
<1>1. d[r] \in Directories
  BY DEF Disks
<1>2. /\ dir \in Directories /\ dir.voices = changes /\ dir.phon = d[r].phon
      /\ dir.lang = d[r].lang /\ dir.dict = d[r].dict
  BY <1>1 DEF Directories
<1>3. e = [d EXCEPT ![r] = dir]
  BY DEF WithVoices
<1> HIDE DEF dir
<1>4. e \in Disks /\ \A s \in Roots : e[s] = IF s = r THEN dir ELSE d[s]
  BY <1>2, <1>3 DEF Disks
<1> QED BY <1>2, <1>4

WithLang(d, r, l, file) == [d EXCEPT ![r].lang[l] = file]

LEMMA LangWritten ==
    ASSUME NEW d \in Disks, NEW r \in Roots, NEW l \in Langs, NEW file \in Files
    PROVE  LET e == WithLang(d, r, l, file)
           IN  /\ e \in Disks
               /\ \A s \in Roots :
                     /\ \A m \in Langs :
                           e[s].lang[m] = IF s = r /\ m = l THEN file ELSE d[s].lang[m]
                     /\ e[s].phon = d[s].phon /\ e[s].voices = d[s].voices
                     /\ e[s].dict = d[s].dict
<1> DEFINE e == WithLang(d, r, l, file)
           langs == [d[r].lang EXCEPT ![l] = file]
           dir == [d[r] EXCEPT !.lang = langs]
<1>1. d[r] \in Directories /\ d[r].lang \in [Langs -> Files]
  BY DEF Disks, Directories
<1>2. /\ langs \in [Langs -> Files]
      /\ \A m \in Langs : langs[m] = IF m = l THEN file ELSE d[r].lang[m]
  BY <1>1
<1>3. e = [d EXCEPT ![r] = dir]
  BY DEF WithLang
<1> HIDE DEF langs
<1>4. /\ dir \in Directories /\ dir.lang = langs /\ dir.phon = d[r].phon
      /\ dir.voices = d[r].voices /\ dir.dict = d[r].dict
  BY <1>1, <1>2 DEF Directories
<1> HIDE DEF dir
<1>5. e \in Disks /\ \A s \in Roots : e[s] = IF s = r THEN dir ELSE d[s]
  BY <1>3, <1>4 DEF Disks
<1>6. ASSUME NEW s \in Roots, NEW m \in Langs
      PROVE  e[s].lang[m] = IF s = r /\ m = l THEN file ELSE d[s].lang[m]
  <2>1. CASE s = r
    BY <1>2, <1>4, <1>5, <2>1
  <2>2. CASE s # r
    BY <1>5, <2>2
  <2> QED BY <2>1, <2>2
<1>7. \A s \in Roots : e[s].phon = d[s].phon /\ e[s].voices = d[s].voices /\ e[s].dict = d[s].dict
  BY <1>4, <1>5
<1> QED BY <1>5, <1>6, <1>7

WithDict(d, r, l, type, changes) == [d EXCEPT ![r].dict[l][type] = changes]

LEMMA DictWritten ==
    ASSUME NEW d \in Disks, NEW r \in Roots, NEW l \in Langs, NEW type \in Types,
           NEW changes \in SUBSET Changes
    PROVE  LET e == WithDict(d, r, l, type, changes)
           IN  /\ e \in Disks
               /\ \A s \in Roots :
                     /\ \A m \in Langs, other \in Types :
                           e[s].dict[m][other] =
                               IF s = r /\ m = l /\ other = type THEN changes ELSE d[s].dict[m][other]
                     /\ e[s].phon = d[s].phon /\ e[s].voices = d[s].voices
                     /\ e[s].lang = d[s].lang
<1> DEFINE e == WithDict(d, r, l, type, changes)
           types == [d[r].dict[l] EXCEPT ![type] = changes]
           dicts == [d[r].dict EXCEPT ![l] = types]
           dir == [d[r] EXCEPT !.dict = dicts]
<1>1. /\ d[r] \in Directories /\ d[r].dict \in [Langs -> [Types -> SUBSET Changes]]
      /\ d[r].dict[l] \in [Types -> SUBSET Changes]
  BY DEF Disks, Directories
<1>2. /\ types \in [Types -> SUBSET Changes]
      /\ \A other \in Types : types[other] = IF other = type THEN changes ELSE d[r].dict[l][other]
  BY <1>1
<1>3. e = [d EXCEPT ![r] = dir]
  BY DEF WithDict
<1> HIDE DEF types
<1>4. /\ dicts \in [Langs -> [Types -> SUBSET Changes]]
      /\ \A m \in Langs : dicts[m] = IF m = l THEN types ELSE d[r].dict[m]
  BY <1>1, <1>2
<1> HIDE DEF dicts
<1>5. /\ dir \in Directories /\ dir.dict = dicts /\ dir.phon = d[r].phon
      /\ dir.voices = d[r].voices /\ dir.lang = d[r].lang
  BY <1>1, <1>4 DEF Directories
<1> HIDE DEF dir
<1>6. e \in Disks /\ \A s \in Roots : e[s] = IF s = r THEN dir ELSE d[s]
  BY <1>3, <1>5 DEF Disks
<1>7. ASSUME NEW s \in Roots, NEW m \in Langs, NEW other \in Types
      PROVE  e[s].dict[m][other] =
                 IF s = r /\ m = l /\ other = type THEN changes ELSE d[s].dict[m][other]
  <2>1. CASE s = r
    <3>1. e[s].dict = dicts
      BY <1>5, <1>6, <2>1
    <3>2. CASE m = l
      BY <1>2, <1>4, <2>1, <3>1, <3>2
    <3>3. CASE m # l
      BY <1>4, <2>1, <3>1, <3>3
    <3> QED BY <3>2, <3>3
  <2>2. CASE s # r
    BY <1>6, <2>2
  <2> QED BY <2>1, <2>2
<1>8. \A s \in Roots : e[s].phon = d[s].phon /\ e[s].voices = d[s].voices /\ e[s].lang = d[s].lang
  BY <1>5, <1>6
<1> QED BY <1>6, <1>7, <1>8

LEMMA MinFacts ==
    ASSUME NEW S \in SUBSET Nat, S # {}
    PROVE  Min(S) \in S
<1> DEFINE Less == {pair \in Nat \X Nat : pair[1] < pair[2]}
<1>1. IsWellFoundedOn(Less, Nat)
  BY NatLessThanWellFounded DEF OpToRel
<1>2. \A x, y \in Nat : <<y, x>> \notin Less => x =< y
  OBVIOUS
<1> HIDE DEF Less
<1>3. \E x \in S : \A y \in S : <<y, x>> \notin Less
  BY <1>1, WFMin
<1> QED BY <1>2, <1>3 DEF Min

\* The language box shows a language of the directory, if it has one.
LEMMA LanguagesOfFacts ==
    ASSUME NEW r \in Roots
    PROVE  /\ LanguagesOf(r) \in [root : Roots \cup {None}, langs : SUBSET Langs,
                                  sel : Langs \cup {None}]
           /\ LanguagesOf(r).root = r
<1> DEFINE langs == {l \in Langs : disk[r].lang[l] # None}
<1>1. ASSUME langs # {} PROVE Min(langs) \in langs
  BY <1>1, MinFacts, EditorAssumption
<1> HIDE DEF langs
<1>2. langs \subseteq Langs
  BY DEF langs
<1> QED BY <1>1, <1>2 DEF LanguagesOf, langs
-----------------------------------------------------------------------------
(* What a step leaves in the files and in memory.                          *)

SamePhon ==
    /\ spoilt \subseteq spoilt'
    /\ \A s \in Roots : PhonFile(s) \notin spoilt' => Own(disk'[s].phon) = Own(disk[s].phon)
SameLang ==
    /\ spoilt \subseteq spoilt'
    /\ \A s \in Roots, l \in Langs :
          LangFile(s, l) \notin spoilt' => Own(disk'[s].lang[l]) = Own(disk[s].lang[l])
SameDict ==
    /\ spoilt \subseteq spoilt'
    /\ \A s \in Roots, l \in Langs, type \in Types :
          DictFile(s, l, type) \notin spoilt' =>
              Own(disk'[s].dict[l][type]) = Own(disk[s].dict[l][type])

\* No file that is not spoilt loses a change of the user's.
Grows ==
    /\ spoilt \subseteq spoilt'
    /\ \A s \in Roots : PhonFile(s) \notin spoilt' =>
          /\ Own(disk[s].phon) \subseteq Own(disk'[s].phon)
          /\ Own(disk[s].voices) \subseteq Own(disk'[s].voices)
    /\ \A s \in Roots, l \in Langs : LangFile(s, l) \notin spoilt' =>
          Own(disk[s].lang[l]) \subseteq Own(disk'[s].lang[l])
    /\ \A s \in Roots, l \in Langs, type \in Types : DictFile(s, l, type) \notin spoilt' =>
          Own(disk[s].dict[l][type]) \subseteq Own(disk'[s].dict[l][type])

LEMMA NothingWritten ==
    ASSUME disk \in Disks, UNCHANGED disk, spoilt \subseteq spoilt'
    PROVE  disk' \in Disks /\ SamePhon /\ SameLang /\ SameDict /\ Grows
  BY DEF SamePhon, SameLang, SameDict, Grows

LEMMA PhonKept ==
    ASSUME EditorInv, UNCHANGED <<phon, phonDirty>>, SamePhon
    PROVE  PhonMatches'
<1> SUFFICES ASSUME phon # None, PhonFile(phon.root) \notin spoilt'
             PROVE  Matches(Own(phon.has), Own(disk'[phon.root].phon), phonDirty)
  BY DEF PhonMatches
<1>1. phon.root \in Roots
  BY DEF EditorInv, EditorTypes, PhonemeDocs
<1> QED BY <1>1 DEF EditorInv, PhonMatches, SamePhon

LEMMA DocKept ==
    ASSUME EditorInv, UNCHANGED <<doc, langDirty>>, SameLang
    PROVE  DocMatches'
<1> SUFFICES ASSUME doc # None, LangFile(doc.root, doc.lang) \notin spoilt'
             PROVE  Matches(Own(doc.has), Own(disk'[doc.root].lang[doc.lang]), langDirty)
  BY DEF DocMatches
<1>1. doc.root \in Roots /\ doc.lang \in Langs
  BY DEF EditorInv, EditorTypes, LanguageDocs
<1> QED BY <1>1 DEF EditorInv, DocMatches, SameLang

LEMMA DlgKept ==
    ASSUME EditorInv, UNCHANGED <<dlg, root>>, SameDict
    PROVE  DlgMatches'
<1> SUFFICES ASSUME dlg # None, DictFile(root, dlg.lang, dlg.type) \notin spoilt'
             PROVE  Matches(Own(dlg.has), Own(disk'[root].dict[dlg.lang][dlg.type]), dlg.modified)
  BY DEF DlgMatches
<1>1. root \in Roots /\ dlg.lang \in Langs /\ dlg.type \in Types
  BY DEF EditorInv, EditorTypes, Dictionaries
<1> QED BY <1>1 DEF EditorInv, DlgMatches, SameDict

LEMMA PhonemesLoaded ==
    ASSUME disk \in Disks, UNCHANGED disk, NEW r, LoadPhonemes(r)
    PROVE  /\ phon' \in PhonemeDocs /\ phonDirty' \in BOOLEAN
           /\ PhonMatches'
<1>1. /\ r \in Roots /\ disk[r].phon \notin NoFile /\ phonDirty' = FALSE
      /\ phon' = [root |-> r, has |-> disk[r].phon, voices |-> disk[r].voices]
  BY DEF LoadPhonemes, Readable
<1>2. disk[r].phon \in SUBSET Changes /\ disk[r].voices \in SUBSET Changes
  BY <1>1, OwnFacts DEF Disks, Directories
<1>3. phon' \in PhonemeDocs
  BY <1>1, <1>2 DEF PhonemeDocs
<1>4. PhonMatches'
  BY <1>1 DEF PhonMatches, Matches
<1> QED BY <1>1, <1>3, <1>4

LEMMA LanguageLoaded ==
    ASSUME EditorInv, UNCHANGED <<disk, spoilt>>, NEW from,
           from.sel # None => from.root \in Roots /\ from.sel \in Langs,
           LoadLanguage(from, doc, langDirty) \/ LoadLanguage(from, None, FALSE)
    PROVE  /\ doc' \in LanguageDocs \cup {None} /\ langDirty' \in BOOLEAN
           /\ DocMatches'
           /\ LastLanguage(from) \in Langs \cup {None}
<1>1. LastLanguage(from) \in Langs \cup {None}
  BY DEF LastLanguage, Parses, EditorInv, EditorTypes
<1>2. CASE Parses(from)
  <2>1. /\ from.root \in Roots /\ from.sel \in Langs /\ langDirty' = FALSE
        /\ disk[from.root].lang[from.sel] \notin NoFile
        /\ doc' = [root |-> from.root, lang |-> from.sel, has |-> disk[from.root].lang[from.sel]]
    BY <1>2 DEF LoadLanguage, Parses
  <2>2. disk[from.root].lang[from.sel] \in SUBSET Changes
    <3>1. disk[from.root].lang \in [Langs -> Files]
      BY <2>1 DEF EditorInv, EditorTypes, Disks, Directories
    <3> QED BY <2>1, <3>1, OwnFacts
  <2>3. doc' \in LanguageDocs
    BY <2>1, <2>2 DEF LanguageDocs
  <2>4. DocMatches'
    BY <2>1 DEF DocMatches, Matches
  <2> QED BY <1>1, <2>1, <2>3, <2>4
<1>3. CASE ~Parses(from) /\ LoadLanguage(from, doc, langDirty)
  <2>1. UNCHANGED <<doc, langDirty>>
    BY <1>3 DEF LoadLanguage
  <2>2. SameLang
    BY NothingWritten DEF EditorInv, EditorTypes
  <2> QED BY <1>1, <2>1, <2>2, DocKept DEF EditorInv, EditorTypes
<1>4. CASE ~Parses(from) /\ LoadLanguage(from, None, FALSE)
  BY <1>1, <1>4 DEF LoadLanguage, DocMatches
<1> QED BY <1>2, <1>3, <1>4

LEMMA PackRootLoaded ==
    ASSUME EditorInv, dlg = None, UNCHANGED <<disk, dlg, made, spoilt>>, NEW r \in Roots,
           LoadPackRoot(r, doc, langDirty) \/ LoadPackRoot(r, None, FALSE)
    PROVE  EditorInv'
<1> DEFINE from == LanguagesOf(r)
<1>1. /\ root' = r /\ list' = from /\ ini' = [root |-> r, lang |-> LastLanguage(from)]
      /\ LoadPhonemes(r)
      /\ LoadLanguage(from, doc, langDirty) \/ LoadLanguage(from, None, FALSE)
  BY DEF LoadPackRoot
<1>2. /\ from \in [root : Roots \cup {None}, langs : SUBSET Langs, sel : Langs \cup {None}]
      /\ from.root = r
  BY LanguagesOfFacts
<1> HIDE DEF from
<1>3. /\ doc' \in LanguageDocs \cup {None} /\ langDirty' \in BOOLEAN /\ DocMatches'
      /\ LastLanguage(from) \in Langs \cup {None}
  BY <1>1, <1>2, LanguageLoaded
<1>4. phon' \in PhonemeDocs /\ phonDirty' \in BOOLEAN /\ PhonMatches'
  BY <1>1, PhonemesLoaded DEF EditorInv, EditorTypes
<1>5. ListOK'
  BY <1>1, <1>2, EditorAssumption DEF ListOK
<1>6. ini' \in [root : Roots \cup {None}, lang : Langs \cup {None}]
  BY <1>1, <1>3
<1>7. root' # None
  BY <1>1, EditorAssumption
<1>8. EditorTypes'
  BY <1>1, <1>3, <1>4, <1>6, <1>7 DEF EditorInv, EditorTypes
<1>9. DlgMatches'
  BY DEF DlgMatches
<1> QED BY <1>3, <1>4, <1>5, <1>8, <1>9 DEF EditorInv

LEMMA PackRootFailed ==
    ASSUME EditorInv, dlg = None, UNCHANGED <<disk, dlg, made, spoilt>>, NEW r \in Roots,
           FailPackRoot(r)
    PROVE  EditorInv'
<1>1. root' = r /\ UNCHANGED <<ini, list, phon, phonDirty, doc, langDirty>>
  BY DEF FailPackRoot, memory
<1>2. root' # None
  BY <1>1, EditorAssumption
<1>3. EditorTypes' /\ ListOK'
  BY <1>1, <1>2 DEF EditorInv, EditorTypes, ListOK
<1>4. SamePhon /\ SameLang
  BY NothingWritten DEF EditorInv, EditorTypes
<1>5. PhonMatches' /\ DocMatches' /\ DlgMatches'
  BY <1>1, <1>4, PhonKept, DocKept DEF DlgMatches
<1> QED BY <1>3, <1>5 DEF EditorInv
-----------------------------------------------------------------------------
(* Editing and saving.                                                     *)

LEMMA LanguageEdited ==
    ASSUME EditorInv, Make, doc # None, UNCHANGED <<disk, spoilt>>,
           \/ doc' = Edited(doc, "own") /\ langDirty' = TRUE
           \/ doc' = Edited(doc, "class") /\ langDirty' = langDirty
    PROVE  /\ doc' \in LanguageDocs /\ Own(doc.has) \subseteq Own(doc'.has)
           /\ DocMatches'
<1>0. PICK kind \in {"own", "class"} :
          /\ doc' = [doc EXCEPT !.has = doc.has \cup {Change(kind)}]
          /\ langDirty' = IF kind = "own" THEN TRUE ELSE langDirty
  BY DEF Edited
<1> DEFINE has == doc.has \cup {Change(kind)}
<1>1. doc \in LanguageDocs /\ doc.has \in SUBSET Changes
  BY DEF EditorInv, EditorTypes, LanguageDocs
<1>2. /\ has \in SUBSET Changes /\ Own(doc.has) \subseteq Own(has)
      /\ kind = "class" => Own(has) = Own(doc.has)
  BY <1>1, ChangeFacts DEF EditorInv, EditorTypes, Make
<1>3. doc' = [doc EXCEPT !.has = has]
  BY <1>0
<1> HIDE DEF has
<1>4. /\ doc' \in LanguageDocs /\ doc'.has = has /\ doc'.root = doc.root
      /\ doc'.lang = doc.lang
  BY <1>1, <1>2, <1>3 DEF LanguageDocs
<1>5. LangFile(doc.root, doc.lang) \notin spoilt =>
          Matches(Own(doc.has), Own(disk[doc.root].lang[doc.lang]), langDirty)
  BY DEF EditorInv, DocMatches
<1> QED BY <1>0, <1>2, <1>4, <1>5 DEF DocMatches, Matches

LEMMA PhonemesEdited ==
    ASSUME EditorInv, Make, phon # None, UNCHANGED <<disk, spoilt>>, phonDirty' = TRUE,
           phon' = Edited(phon, "own")
    PROVE  /\ phon' \in PhonemeDocs /\ Own(phon.has) \subseteq Own(phon'.has)
           /\ PhonMatches'
<1> DEFINE has == phon.has \cup {Change("own")}
<1>1. phon \in PhonemeDocs /\ phon.has \in SUBSET Changes
  BY DEF EditorInv, EditorTypes, PhonemeDocs
<1>2. has \in SUBSET Changes /\ Own(phon.has) \subseteq Own(has)
  BY <1>1, ChangeFacts DEF EditorInv, EditorTypes, Make
<1>3. phon' = [phon EXCEPT !.has = has]
  BY DEF Edited
<1> HIDE DEF has
<1>4. phon' \in PhonemeDocs /\ phon'.has = has /\ phon'.root = phon.root
  BY <1>1, <1>2, <1>3 DEF PhonemeDocs
<1>5. PhonFile(phon.root) \notin spoilt =>
          Matches(Own(phon.has), Own(disk[phon.root].phon), phonDirty)
  BY DEF EditorInv, PhonMatches
<1> QED BY <1>2, <1>4, <1>5 DEF PhonMatches, Matches

LEMMA EntriesChanged ==
    ASSUME EditorInv, ChangeEntries
    PROVE  /\ dlg' \in Dictionaries /\ Own(dlg.has) \subseteq Own(dlg'.has)
           /\ DlgMatches'
<1> DEFINE has == dlg.has \cup {Change("own")}
<1>1. dlg \in Dictionaries /\ dlg.has \in SUBSET Changes
  BY DEF ChangeEntries, EditorInv, EditorTypes, Dictionaries
<1>2. has \in SUBSET Changes /\ Own(dlg.has) \subseteq Own(has)
  BY <1>1, ChangeFacts DEF ChangeEntries, EditorInv, EditorTypes, Make
<1>3. dlg' = [[dlg EXCEPT !.has = has] EXCEPT !.modified = TRUE]
  BY DEF ChangeEntries, Edited
<1> HIDE DEF has
<1>4. /\ dlg' \in Dictionaries /\ dlg'.has = has /\ dlg'.lang = dlg.lang
      /\ dlg'.type = dlg.type /\ dlg'.modified = TRUE
  BY <1>1, <1>2, <1>3 DEF Dictionaries
<1>5. DictFile(root, dlg.lang, dlg.type) \notin spoilt =>
          Matches(Own(dlg.has), Own(disk[root].dict[dlg.lang][dlg.type]), dlg.modified)
  BY DEF ChangeEntries, EditorInv, DlgMatches
<1>6. UNCHANGED <<disk, root, spoilt>>
  BY DEF ChangeEntries
<1> QED BY <1>2, <1>4, <1>5, <1>6 DEF DlgMatches, Matches

LEMMA RestFacts ==
    ASSUME NEW file \in Files, NEW rest \in Rest(file)
    PROVE  rest \in Files /\ (file \in SUBSET Changes => rest = Broken \/ rest \in SUBSET file)
  BY OwnFacts DEF Rest, Files, NoFile

\* A file loses something only when it is spoilt.
LEMMA SpoilFacts ==
    ASSUME NEW file, NEW failed, Spoil(Lost(file, failed))
    PROVE  spoilt \subseteq spoilt' /\ (file \notin spoilt' => ~failed)
  BY DEF Spoil, Lost

LEMMA LanguageWritten ==
    ASSUME EditorInv, SaveLanguage
    PROVE  /\ disk' \in Disks /\ SamePhon /\ SameDict /\ Grows
           /\ doc' \in LanguageDocs /\ doc'.root = doc.root /\ doc'.lang = doc.lang
           /\ LangFile(doc.root, doc.lang) \notin spoilt' =>
                 disk'[doc.root].lang[doc.lang] = doc.has /\ doc'.has = doc.has
<1>1. /\ doc \in LanguageDocs /\ doc.root \in Roots /\ doc.lang \in Langs
      /\ doc.has \in SUBSET Changes /\ doc.has \in Files /\ disk \in Disks
      /\ LangFile(doc.root, doc.lang) \notin spoilt =>
            Own(disk[doc.root].lang[doc.lang]) \subseteq Own(doc.has)
  BY DEF SaveLanguage, EditorInv, EditorTypes, LanguageDocs, DocMatches, Matches, Files
<1>2. PICK file \in Rest(doc.has) :
          /\ disk' = WithLang(disk, doc.root, doc.lang, file)
          /\ Spoil(Lost(LangFile(doc.root, doc.lang), file # doc.has))
          /\ doc' = IF file = Broken THEN doc ELSE [doc EXCEPT !.has = file]
  BY DEF SaveLanguage, WriteLanguage, WithLang
<1>3. file \in Files /\ (file = Broken \/ file \in SUBSET doc.has)
  BY <1>1, RestFacts
<1>4. /\ spoilt \subseteq spoilt'
      /\ LangFile(doc.root, doc.lang) \notin spoilt' => file = doc.has
  BY <1>2, SpoilFacts
<1>5. /\ disk' \in Disks
      /\ \A s \in Roots :
            /\ \A m \in Langs :
                  disk'[s].lang[m] = IF s = doc.root /\ m = doc.lang THEN file
                                     ELSE disk[s].lang[m]
            /\ disk'[s].phon = disk[s].phon /\ disk'[s].voices = disk[s].voices
            /\ disk'[s].dict = disk[s].dict
  BY <1>1, <1>2, <1>3, LangWritten
<1>6. SamePhon /\ SameDict
  BY <1>4, <1>5 DEF SamePhon, SameDict
<1>7. ASSUME NEW s \in Roots, NEW m \in Langs, LangFile(s, m) \notin spoilt'
      PROVE  Own(disk[s].lang[m]) \subseteq Own(disk'[s].lang[m])
  <2>1. CASE s = doc.root /\ m = doc.lang
    BY <1>1, <1>4, <1>5, <1>7, <2>1
  <2>2. CASE ~(s = doc.root /\ m = doc.lang)
    BY <1>5, <2>2
  <2> QED BY <2>1, <2>2
<1>8. Grows
  BY <1>4, <1>5, <1>7 DEF Grows
<1>9. doc' \in LanguageDocs /\ doc'.root = doc.root /\ doc'.lang = doc.lang
  BY <1>1, <1>2, <1>3 DEF LanguageDocs
<1>10. LangFile(doc.root, doc.lang) \notin spoilt' =>
           disk'[doc.root].lang[doc.lang] = doc.has /\ doc'.has = doc.has
  BY <1>1, <1>2, <1>4, <1>5 DEF LanguageDocs
<1> QED BY <1>5, <1>6, <1>8, <1>9, <1>10

\* A file of phonemes is written, of which some may be cut off.
LEMMA PhonFileWritten ==
    ASSUME disk \in Disks, NEW r \in Roots, NEW file \in Files, NEW voices \in SUBSET Changes,
           disk' = [disk EXCEPT ![r].phon = file, ![r].voices = voices],
           spoilt \subseteq spoilt',
           PhonFile(r) \notin spoilt' => /\ Own(disk[r].phon) \subseteq Own(file)
                                        /\ Own(disk[r].voices) \subseteq Own(voices)
    PROVE  /\ disk' \in Disks /\ SameLang /\ SameDict /\ Grows
           /\ disk'[r].phon = file /\ disk'[r].voices = voices
           /\ \A s \in Roots : s # r => disk'[s].phon = disk[s].phon
<1> DEFINE d == WithPhon(disk, r, file)
<1>1. /\ d \in Disks
      /\ \A s \in Roots : /\ d[s].phon = IF s = r THEN file ELSE disk[s].phon
                          /\ d[s].voices = disk[s].voices /\ d[s].lang = disk[s].lang
                          /\ d[s].dict = disk[s].dict
  BY PhonWritten
<1>2. disk' = WithVoices(d, r, voices)
  BY DEF WithPhon, WithVoices
<1> HIDE DEF d
<1> DEFINE e == WithVoices(d, r, voices)
<1>3. /\ e \in Disks
      /\ \A s \in Roots : /\ e[s].voices = IF s = r THEN voices ELSE d[s].voices
                          /\ e[s].phon = d[s].phon /\ e[s].lang = d[s].lang
                          /\ e[s].dict = d[s].dict
  BY <1>1, VoicesWritten
<1> HIDE DEF e
<1>4. \A s \in Roots : /\ disk'[s].phon = IF s = r THEN file ELSE disk[s].phon
                       /\ disk'[s].voices = IF s = r THEN voices ELSE disk[s].voices
                       /\ disk'[s].lang = disk[s].lang /\ disk'[s].dict = disk[s].dict
  BY <1>1, <1>2, <1>3 DEF e
<1>5. SameLang /\ SameDict
  BY <1>4 DEF SameLang, SameDict
<1>6. Grows
  BY <1>4 DEF Grows
<1> QED BY <1>2, <1>3, <1>4, <1>5, <1>6 DEF e

LEMMA PhonemesWritten ==
    ASSUME EditorInv, SavePhonemes
    PROVE  /\ disk' \in Disks /\ SameLang /\ SameDict /\ Grows
           /\ phon' \in PhonemeDocs /\ phon'.root = phon.root
           /\ PhonFile(phon.root) \notin spoilt' =>
                 disk'[phon.root].phon = phon.has /\ phon'.has = phon.has
<1>1. /\ phon \in PhonemeDocs /\ phon.root \in Roots /\ phon.has \in SUBSET Changes
      /\ phon.has \in Files /\ phon.voices \in SUBSET Changes /\ disk \in Disks
      /\ disk[phon.root].voices \in SUBSET Changes
      /\ PhonFile(phon.root) \notin spoilt => Own(disk[phon.root].phon) \subseteq Own(phon.has)
  BY DEF SavePhonemes, EditorInv, EditorTypes, PhonemeDocs, PhonMatches, Matches, Files, Disks,
     Directories
<1>2. PICK file \in Rest(phon.has), voices \in SUBSET (phon.voices \cup disk[phon.root].voices) :
          /\ WritePhonemes(file, voices)
          /\ phon' = IF file = Broken THEN phon ELSE [phon EXCEPT !.has = file, !.voices = voices]
  BY DEF SavePhonemes
<1>3. file \in Files /\ (file = Broken \/ file \in SUBSET phon.has) /\ voices \in SUBSET Changes
  BY <1>1, RestFacts
<1>4. /\ disk' = [disk EXCEPT ![phon.root].phon = file, ![phon.root].voices = voices]
      /\ spoilt \subseteq spoilt'
      /\ PhonFile(phon.root) \notin spoilt' =>
            file = phon.has /\ voices = disk[phon.root].voices
  BY <1>2, SpoilFacts DEF WritePhonemes
<1>5. /\ disk' \in Disks /\ SameLang /\ SameDict /\ Grows
      /\ disk'[phon.root].phon = file
  BY <1>1, <1>3, <1>4, PhonFileWritten
<1>6. phon' \in PhonemeDocs /\ phon'.root = phon.root
  BY <1>1, <1>2, <1>3 DEF PhonemeDocs
<1>7. PhonFile(phon.root) \notin spoilt' =>
          disk'[phon.root].phon = phon.has /\ phon'.has = phon.has
  BY <1>1, <1>2, <1>4, <1>5 DEF PhonemeDocs
<1> QED BY <1>5, <1>6, <1>7

LEMMA ProfilesWritten ==
    ASSUME EditorInv, Make, NEW r, WriteVoices(r)
    PROVE  disk' \in Disks /\ SamePhon /\ SameLang /\ SameDict /\ Grows
<1> DEFINE new == disk[r].voices \cup {Change("own")}
<1>1. PICK file \in Rest(disk[r].phon), voices \in SUBSET new :
          /\ disk' = [disk EXCEPT ![r].phon = file, ![r].voices = voices]
          /\ Spoil(Lost(PhonFile(r), file # disk[r].phon \/ voices # new))
  BY DEF WriteVoices
<1>2. /\ spoilt \subseteq spoilt'
      /\ PhonFile(r) \notin spoilt' => file = disk[r].phon /\ voices = new
  BY <1>1, SpoilFacts
<1>3. disk \in Disks
  BY DEF EditorInv, EditorTypes
<1>4. CASE r \in Roots
  <2>1. disk[r].phon \in Files /\ disk[r].voices \in SUBSET Changes
    BY <1>3, <1>4 DEF Disks, Directories
  <2>2. new \in SUBSET Changes /\ Own(disk[r].voices) \subseteq Own(new)
    BY <2>1, ChangeFacts DEF EditorInv, EditorTypes, Make
  <2> HIDE DEF new
  <2>3. file \in Files /\ voices \in SUBSET Changes
    BY <2>1, <2>2, RestFacts
  <2>4. /\ disk' \in Disks /\ SameLang /\ SameDict /\ Grows /\ disk'[r].phon = file
        /\ \A s \in Roots : s # r => disk'[s].phon = disk[s].phon
    BY <1>1, <1>2, <1>3, <1>4, <2>2, <2>3, PhonFileWritten
  <2>5. SamePhon
    BY <1>2, <2>4 DEF SamePhon
  <2> QED BY <2>4, <2>5
<1>5. CASE r \notin Roots
  <2>1. disk' = disk
    BY <1>1, <1>3, <1>5 DEF Disks
  <2> QED BY <1>2, <1>3, <2>1, NothingWritten
<1> QED BY <1>4, <1>5

LEMMA EntriesWritten ==
    ASSUME EditorInv, dlg # None, NEW gone, SaveEntries(gone), spoilt \cup gone \subseteq spoilt'
    PROVE  /\ disk' \in Disks /\ SamePhon /\ SameLang /\ Grows
           /\ DictFile(root, dlg.lang, dlg.type) \notin spoilt' =>
                 disk'[root].dict[dlg.lang][dlg.type] = dlg.has
<1>1. /\ dlg \in Dictionaries /\ root \in Roots /\ dlg.lang \in Langs /\ dlg.type \in Types
      /\ dlg.has \in SUBSET Changes /\ disk \in Disks
      /\ DictFile(root, dlg.lang, dlg.type) \notin spoilt =>
            Own(disk[root].dict[dlg.lang][dlg.type]) \subseteq Own(dlg.has)
  BY DEF EditorInv, EditorTypes, Dictionaries, DlgMatches, Matches
<1>2. PICK has \in SUBSET dlg.has :
          /\ disk' = WithDict(disk, root, dlg.lang, dlg.type, has)
          /\ gone = Lost(DictFile(root, dlg.lang, dlg.type), has # dlg.has)
  BY DEF SaveEntries, WithDict
<1>3. /\ spoilt \subseteq spoilt'
      /\ DictFile(root, dlg.lang, dlg.type) \notin spoilt' => has = dlg.has
  BY <1>2 DEF Lost
<1>4. has \in SUBSET Changes
  BY <1>1
<1>5. /\ disk' \in Disks
      /\ \A s \in Roots :
            /\ \A m \in Langs, other \in Types :
                  disk'[s].dict[m][other] =
                      IF s = root /\ m = dlg.lang /\ other = dlg.type THEN has
                      ELSE disk[s].dict[m][other]
            /\ disk'[s].phon = disk[s].phon /\ disk'[s].voices = disk[s].voices
            /\ disk'[s].lang = disk[s].lang
  BY <1>1, <1>2, <1>4, DictWritten
<1>6. SamePhon /\ SameLang
  BY <1>3, <1>5 DEF SamePhon, SameLang
<1>7. ASSUME NEW s \in Roots, NEW m \in Langs, NEW other \in Types,
             DictFile(s, m, other) \notin spoilt'
      PROVE  Own(disk[s].dict[m][other]) \subseteq Own(disk'[s].dict[m][other])
  <2>1. CASE s = root /\ m = dlg.lang /\ other = dlg.type
    BY <1>1, <1>3, <1>5, <1>7, <2>1
  <2>2. CASE ~(s = root /\ m = dlg.lang /\ other = dlg.type)
    BY <1>5, <2>2
  <2> QED BY <2>1, <2>2
<1>8. Grows
  BY <1>3, <1>5, <1>7 DEF Grows
<1> QED BY <1>1, <1>3, <1>5, <1>6, <1>8

LEMMA OutsideWritten ==
    ASSUME EditorInv, ExternalEdit
    PROVE  disk' \in Disks /\ SamePhon /\ SameLang /\ SameDict /\ Grows
<1>1. disk \in Disks /\ made \in 0 .. MaxChanges /\ made < MaxChanges /\ UNCHANGED spoilt
  BY DEF ExternalEdit, Make, EditorInv, EditorTypes
<1>2. ASSUME NEW r \in Roots, r \in Readable,
             disk' = [disk EXCEPT ![r].phon = @ \cup {Change("outside")}]
      PROVE  disk' \in Disks /\ SamePhon /\ SameLang /\ SameDict /\ Grows
  <2> DEFINE file == disk[r].phon \cup {Change("outside")}
  <2>1. disk[r].phon \in SUBSET Changes
    BY <1>1, <1>2, OwnFacts DEF Readable, Disks, Directories
  <2>2. file \in Files /\ Own(file) = Own(disk[r].phon)
    BY <1>1, <2>1, ChangeFacts DEF Files
  <2>3. disk' = WithPhon(disk, r, file)
    BY <1>2 DEF WithPhon
  <2> HIDE DEF file
  <2>4. /\ disk' \in Disks
        /\ \A s \in Roots : /\ disk'[s].phon = IF s = r THEN file ELSE disk[s].phon
                            /\ disk'[s].voices = disk[s].voices /\ disk'[s].lang = disk[s].lang
                            /\ disk'[s].dict = disk[s].dict
    BY <1>1, <2>2, <2>3, PhonWritten
  <2> QED BY <1>1, <2>2, <2>4 DEF SamePhon, SameLang, SameDict, Grows
<1>3. ASSUME NEW r \in Roots, NEW l \in Langs, disk[r].lang[l] \notin NoFile,
             disk' = [disk EXCEPT ![r].lang[l] = @ \cup {Change("outside")}]
      PROVE  disk' \in Disks /\ SamePhon /\ SameLang /\ SameDict /\ Grows
  <2> DEFINE file == disk[r].lang[l] \cup {Change("outside")}
  <2>1. disk[r].lang[l] \in SUBSET Changes
    <3>1. disk[r].lang \in [Langs -> Files]
      BY <1>1 DEF Disks, Directories
    <3> QED BY <1>3, <3>1, OwnFacts
  <2>2. file \in Files /\ Own(file) = Own(disk[r].lang[l])
    BY <1>1, <2>1, ChangeFacts DEF Files
  <2>3. disk' = WithLang(disk, r, l, file)
    BY <1>3 DEF WithLang
  <2> HIDE DEF file
  <2>4. /\ disk' \in Disks
        /\ \A s \in Roots :
              /\ \A m \in Langs :
                    disk'[s].lang[m] = IF s = r /\ m = l THEN file ELSE disk[s].lang[m]
              /\ disk'[s].phon = disk[s].phon /\ disk'[s].voices = disk[s].voices
              /\ disk'[s].dict = disk[s].dict
    BY <1>1, <2>2, <2>3, LangWritten
  <2> QED BY <1>1, <2>2, <2>4 DEF SamePhon, SameLang, SameDict, Grows
<1> QED BY <1>2, <1>3 DEF ExternalEdit

LEMMA DictionaryOpened ==
    ASSUME disk' \in Disks, root \in Roots, UNCHANGED root, NEW l \in Langs, NEW type \in Types,
           NEW gone, ShowDictionary(l, type, gone)
    PROVE  dlg' \in Dictionaries /\ DlgMatches' /\ spoilt \cup gone \subseteq spoilt'
<1> DEFINE has == disk'[root].dict[l][type]
<1>1. PICK shown \in {has, {}} :
          /\ dlg' = [lang |-> l, type |-> type, has |-> shown, modified |-> FALSE]
          /\ spoilt' = spoilt \cup (gone \cup Lost(DictFile(root, l, type), shown # has))
  BY DEF ShowDictionary, Spoil
<1>2. has \in SUBSET Changes
  <2>1. disk'[root].dict \in [Langs -> [Types -> SUBSET Changes]]
    BY DEF Disks, Directories
  <2> QED BY <2>1
<1>3. dlg' \in Dictionaries
  BY <1>1, <1>2 DEF Dictionaries
<1>4. DictFile(root, l, type) \notin spoilt' => shown = has
  BY <1>1 DEF Lost
<1>5. DlgMatches'
  BY <1>1, <1>4 DEF DlgMatches, Matches
<1> QED BY <1>1, <1>3, <1>5

-----------------------------------------------------------------------------
(* Steps.                                                                  *)

\* What was open is in memory, or was not dirty, or is written, or its file is spoilt.
PhonStays ==
    phon # None /\ PhonFile(phon.root) \notin spoilt' =>
        ~phonDirty \/ (phon' # None /\ Own(phon.has) \subseteq Own(phon'.has))
DocStays ==
    doc # None /\ LangFile(doc.root, doc.lang) \notin spoilt' =>
        ~langDirty \/ (doc' # None /\ Own(doc.has) \subseteq Own(doc'.has))
DlgStays ==
    dlg # None /\ DictFile(root, dlg.lang, dlg.type) \notin spoilt' =>
        \/ ~dlg.modified
        \/ Own(dlg.has) \subseteq Own(disk'[root].dict[dlg.lang][dlg.type])
        \/ dlg' # None /\ Own(dlg.has) \subseteq Own(dlg'.has)

StepKeeps == EditorInv' /\ Grows /\ (~confirmed' => PhonStays /\ DocStays /\ DlgStays)

LEMMA NoDocument ==
    None \notin PhonemeDocs /\ None \notin LanguageDocs /\ None \notin Dictionaries
  BY EditorAssumption

LEMMA MemoryStays ==
    /\ UNCHANGED phon => PhonStays
    /\ UNCHANGED doc => DocStays
    /\ UNCHANGED dlg => DlgStays
  BY DEF PhonStays, DocStays, DlgStays

\* Steps of the runtime only.
LEMMA NothingTouched ==
    ASSUME EditorInv,
           UNCHANGED <<disk, made, root, ini, list, phon, phonDirty, doc, langDirty, dlg, spoilt>>
    PROVE  StepKeeps
<1>1. disk' \in Disks /\ SamePhon /\ SameLang /\ SameDict /\ Grows
  BY NothingWritten DEF EditorInv, EditorTypes
<1>2. EditorTypes' /\ ListOK'
  BY DEF EditorInv, EditorTypes, ListOK
<1> QED BY <1>1, <1>2, PhonKept, DocKept, DlgKept, MemoryStays DEF EditorInv, StepKeeps

LEMMA OpenPackRootKeeps ==
    ASSUME EditorInv, NEW r \in Roots, OpenPackRoot(r)
    PROVE  StepKeeps
<1>1. EditorInv'
  <2>1. /\ dlg = None /\ UNCHANGED <<disk, dlg, made, spoilt>>
        /\ LoadPackRoot(r, doc, langDirty) \/ FailPackRoot(r)
    BY DEF OpenPackRoot
  <2>2. CASE LoadPackRoot(r, doc, langDirty)
    BY <2>1, <2>2, PackRootLoaded
  <2>3. CASE FailPackRoot(r)
    BY <2>1, <2>3, PackRootFailed
  <2> QED BY <2>1, <2>2, <2>3
<1>2. Grows
  BY NothingWritten DEF OpenPackRoot, EditorInv, EditorTypes
<1> QED BY <1>1, <1>2 DEF OpenPackRoot, StepKeeps, PhonStays, DocStays, DlgStays

LEMMA CloseAndReopenKeeps ==
    ASSUME EditorInv, CloseAndReopen
    PROVE  StepKeeps
<1>1. Grows
  BY NothingWritten DEF CloseAndReopen, EditorInv, EditorTypes
<1>2. EditorInv'
  <2>1. CASE ini.root \in Readable /\ LoadPackRoot(ini.root, None, FALSE)
    <3>1. ini.root \in Roots
      BY <2>1 DEF Readable
    <3> QED BY <2>1, <3>1, PackRootLoaded DEF CloseAndReopen
  <2>2. CASE /\ root' = ini.root /\ list' = NoList /\ UNCHANGED ini
             /\ phon' = None /\ phonDirty' = FALSE /\ doc' = None /\ langDirty' = FALSE
    <3>1. UNCHANGED <<disk, dlg, made, spoilt>> /\ dlg = None
      BY DEF CloseAndReopen
    <3>2. ListOK'
      BY <2>2 DEF ListOK, NoList
    <3>3. EditorTypes'
      BY <2>2, <3>1 DEF EditorInv, EditorTypes
    <3> QED BY <2>2, <3>1, <3>2, <3>3 DEF EditorInv, PhonMatches, DocMatches, DlgMatches
  <2> QED BY <2>1, <2>2 DEF CloseAndReopen
<1> QED BY <1>1, <1>2 DEF CloseAndReopen, StepKeeps, PhonStays, DocStays, DlgStays

LEMMA SetDllDirectoryKeeps ==
    ASSUME EditorInv, SetDllDirectory
    PROVE  StepKeeps
<1>1. CASE UNCHANGED <<ini, root, list, memory>>
  BY <1>1, NothingTouched DEF SetDllDirectory, memory
<1>2. ASSUME NEW r \in Roots, root = None, LoadPackRoot(r, doc, langDirty) \/ FailPackRoot(r)
      PROVE  StepKeeps
  <2>1. EditorInv'
    <3>1. dlg = None /\ UNCHANGED <<disk, dlg, made, spoilt>>
      BY DEF SetDllDirectory
    <3>2. CASE LoadPackRoot(r, doc, langDirty)
      BY <3>1, <3>2, PackRootLoaded
    <3>3. CASE FailPackRoot(r)
      BY <3>1, <3>3, PackRootFailed
    <3> QED BY <1>2, <3>2, <3>3
  <2>2. Grows
    BY NothingWritten DEF SetDllDirectory, EditorInv, EditorTypes
  <2>3. phon = None /\ doc = None /\ dlg = None
    BY <1>2 DEF EditorInv, EditorTypes
  <2> QED BY <2>1, <2>2, <2>3 DEF StepKeeps, PhonStays, DocStays, DlgStays
<1> QED BY <1>1, <1>2 DEF SetDllDirectory

LEMMA SelectLanguageKeeps ==
    ASSUME EditorInv, NEW l \in Langs, SelectLanguage(l)
    PROVE  StepKeeps
<1> DEFINE from == [list EXCEPT !.sel = l]
<1>1. /\ dlg = None /\ l \in list.langs /\ list' = from
      /\ UNCHANGED <<disk, root, phon, phonDirty, dlg, made, spoilt>>
  BY DEF SelectLanguage
<1>2. /\ from \in [root : Roots \cup {None}, langs : SUBSET Langs, sel : Langs \cup {None}]
      /\ from.root \in Roots /\ from.sel = l
  BY <1>1 DEF EditorInv, ListOK
<1>3. ListOK'
  BY <1>1, <1>2 DEF EditorInv, ListOK
<1>4. SamePhon /\ SameLang /\ Grows
  BY <1>1, NothingWritten DEF EditorInv, EditorTypes
<1>5. PhonMatches' /\ DlgMatches'
  BY <1>1, <1>4, PhonKept DEF DlgMatches
<1>6. CASE langDirty /\ ~confirmed' /\ UNCHANGED <<ini, doc, langDirty>>
  <2>1. EditorTypes' /\ DocMatches'
    BY <1>1, <1>4, <1>6, DocKept DEF EditorInv, EditorTypes
  <2> QED BY <1>1, <1>3, <1>4, <1>5, <1>6, <2>1, MemoryStays DEF EditorInv, StepKeeps
<1>7. CASE /\ confirmed' = langDirty /\ LoadLanguage(from, doc, langDirty)
           /\ ini' = [ini EXCEPT !.lang = LastLanguage(from)]
  <2> HIDE DEF from
  <2>1. /\ doc' \in LanguageDocs \cup {None} /\ langDirty' \in BOOLEAN /\ DocMatches'
        /\ LastLanguage(from) \in Langs \cup {None}
    <3>1. from.root \in Roots /\ from.sel \in Langs /\ UNCHANGED <<disk, spoilt>>
      BY <1>1, <1>2
    <3>2. LoadLanguage(from, doc, langDirty)
      BY <1>7
    <3> QED BY <3>1, <3>2, LanguageLoaded
  <2>2. ini' \in [root : Roots \cup {None}, lang : Langs \cup {None}]
    BY <1>7, <2>1 DEF EditorInv, EditorTypes
  <2>3. root # None
    BY <1>1 DEF EditorInv, ListOK
  <2>4. EditorTypes'
    BY <1>1, <2>1, <2>2, <2>3 DEF EditorInv, EditorTypes
  <2> QED BY <1>1, <1>3, <1>4, <1>5, <1>7, <2>1, <2>4, MemoryStays
          DEF EditorInv, StepKeeps, DocStays
<1> QED BY <1>6, <1>7 DEF SelectLanguage
LEMMA ReloadLanguageKeeps ==
    ASSUME EditorInv, ReloadLanguage
    PROVE  StepKeeps
<1> DEFINE has == disk[doc.root].lang[doc.lang]
<1>1. /\ dlg = None /\ doc # None /\ has \notin NoFile /\ confirmed' = langDirty
      /\ doc' = [doc EXCEPT !.has = has] /\ langDirty' = FALSE
      /\ UNCHANGED <<disk, ini, root, list, phon, phonDirty, dlg, made, spoilt>>
  BY DEF ReloadLanguage
<1>2. doc \in LanguageDocs /\ doc.root \in Roots /\ doc.lang \in Langs
  BY <1>1 DEF EditorInv, EditorTypes, LanguageDocs
<1>3. has \in SUBSET Changes
  <2>1. disk[doc.root].lang \in [Langs -> Files]
    BY <1>2 DEF EditorInv, EditorTypes, Disks, Directories
  <2> QED BY <1>1, <1>2, <2>1, OwnFacts
<1>4. Own(has) = Own(disk[doc.root].lang[doc.lang])
  OBVIOUS
<1> HIDE DEF has
<1>5. /\ doc' \in LanguageDocs /\ doc'.has = has /\ doc'.root = doc.root
      /\ doc'.lang = doc.lang
  BY <1>1, <1>2, <1>3 DEF LanguageDocs
<1>6. DocMatches'
  BY <1>1, <1>4, <1>5 DEF DocMatches, Matches
<1>7. SamePhon /\ Grows
  BY <1>1, NothingWritten DEF EditorInv, EditorTypes
<1>8. EditorTypes' /\ ListOK'
  BY <1>1, <1>5 DEF EditorInv, EditorTypes, ListOK
<1>9. PhonMatches' /\ DlgMatches'
  BY <1>1, <1>7, PhonKept DEF DlgMatches
<1> QED BY <1>1, <1>6, <1>7, <1>8, <1>9, MemoryStays DEF EditorInv, StepKeeps, DocStays

LEMMA ReloadPhonemesKeeps ==
    ASSUME EditorInv, ReloadPhonemes
    PROVE  StepKeeps
<1>1. /\ dlg = None /\ phon # None /\ confirmed' = phonDirty /\ LoadPhonemes(phon.root)
      /\ UNCHANGED <<disk, ini, root, list, doc, langDirty, dlg, made, spoilt>>
  BY DEF ReloadPhonemes
<1>2. phon' \in PhonemeDocs /\ phonDirty' \in BOOLEAN /\ PhonMatches'
  <2>1. \E r : LoadPhonemes(r)
    BY <1>1
  <2> QED BY <1>1, <2>1, PhonemesLoaded DEF EditorInv, EditorTypes
<1>3. SameLang /\ Grows
  BY <1>1, NothingWritten DEF EditorInv, EditorTypes
<1>4. EditorTypes' /\ ListOK'
  BY <1>1, <1>2 DEF EditorInv, EditorTypes, ListOK
<1>5. DocMatches' /\ DlgMatches'
  BY <1>1, <1>3, DocKept DEF DlgMatches
<1> QED BY <1>1, <1>2, <1>3, <1>4, <1>5, MemoryStays DEF EditorInv, StepKeeps, PhonStays

LEMMA MakeCounts == EditorInv /\ Make => made' \in 0 .. MaxChanges
  BY EditorAssumption DEF EditorInv, EditorTypes, Make

LEMMA EditLanguageKeeps ==
    ASSUME EditorInv, EditLanguage \/ EditClass
    PROVE  StepKeeps
<1>1. /\ dlg = None /\ doc # None /\ Make /\ ~confirmed'
      /\ UNCHANGED <<disk, ini, root, list, phon, phonDirty, dlg, spoilt>>
  BY DEF EditLanguage, EditClass
<1>2. \/ doc' = Edited(doc, "own") /\ langDirty' = TRUE
      \/ doc' = Edited(doc, "class") /\ langDirty' = langDirty
  BY DEF EditLanguage, EditClass
<1>3. doc' \in LanguageDocs /\ Own(doc.has) \subseteq Own(doc'.has) /\ DocMatches'
  BY <1>1, <1>2, LanguageEdited
<1>4. SamePhon /\ Grows
  BY <1>1, NothingWritten DEF EditorInv, EditorTypes
<1>5. EditorTypes' /\ ListOK'
  BY <1>1, <1>2, <1>3, MakeCounts DEF EditorInv, EditorTypes, ListOK
<1>6. PhonMatches' /\ DlgMatches'
  BY <1>1, <1>4, PhonKept DEF DlgMatches
<1>7. DocStays
  BY <1>3, NoDocument DEF DocStays
<1> QED BY <1>1, <1>3, <1>4, <1>5, <1>6, <1>7, MemoryStays DEF EditorInv, StepKeeps

LEMMA EditPhonemeKeeps ==
    ASSUME EditorInv, EditPhoneme
    PROVE  StepKeeps
<1>1. /\ dlg = None /\ phon # None /\ Make /\ ~confirmed'
      /\ phon' = Edited(phon, "own") /\ phonDirty' = TRUE
      /\ UNCHANGED <<disk, ini, root, list, doc, langDirty, dlg, spoilt>>
  BY DEF EditPhoneme
<1>2. phon' \in PhonemeDocs /\ Own(phon.has) \subseteq Own(phon'.has) /\ PhonMatches'
  BY <1>1, PhonemesEdited
<1>3. SameLang /\ Grows
  BY <1>1, NothingWritten DEF EditorInv, EditorTypes
<1>4. EditorTypes' /\ ListOK'
  BY <1>1, <1>2, MakeCounts DEF EditorInv, EditorTypes, ListOK
<1>5. DocMatches' /\ DlgMatches'
  BY <1>1, <1>3, DocKept DEF DlgMatches
<1>6. PhonStays
  BY <1>2, NoDocument DEF PhonStays
<1> QED BY <1>1, <1>2, <1>3, <1>4, <1>5, <1>6, MemoryStays DEF EditorInv, StepKeeps

LEMMA CloneForLanguageKeeps ==
    ASSUME EditorInv, CloneForLanguage
    PROVE  StepKeeps
<1>1. /\ dlg = None /\ phon # None /\ doc # None /\ Make /\ ~confirmed'
      /\ phon' = Edited(phon, "own") /\ phonDirty' = TRUE
      /\ UNCHANGED <<disk, ini, root, list, dlg, spoilt>>
      /\ \/ doc' = Edited(doc, "own") /\ langDirty' = TRUE
         \/ UNCHANGED <<doc, langDirty>>
  BY DEF CloneForLanguage
<1>2. phon' \in PhonemeDocs /\ Own(phon.has) \subseteq Own(phon'.has) /\ PhonMatches'
  BY <1>1, PhonemesEdited
<1>3. SameLang /\ Grows
  BY <1>1, NothingWritten DEF EditorInv, EditorTypes
<1>4. doc \in LanguageDocs
  BY <1>1 DEF EditorInv, EditorTypes
<1>5. doc' \in LanguageDocs /\ Own(doc.has) \subseteq Own(doc'.has) /\ DocMatches'
  <2>1. CASE doc' = Edited(doc, "own") /\ langDirty' = TRUE
    BY <1>1, <2>1, LanguageEdited
  <2>2. CASE UNCHANGED <<doc, langDirty>>
    BY <1>3, <1>4, <2>2, DocKept
  <2> QED BY <1>1, <2>1, <2>2
<1>6. EditorTypes' /\ ListOK'
  BY <1>1, <1>2, <1>5, MakeCounts DEF EditorInv, EditorTypes, ListOK
<1>7. DlgMatches'
  BY <1>1 DEF DlgMatches
<1>8. PhonStays /\ DocStays
  BY <1>2, <1>5, NoDocument DEF PhonStays, DocStays
<1> QED BY <1>1, <1>2, <1>3, <1>5, <1>6, <1>7, <1>8, MemoryStays DEF EditorInv, StepKeeps

LEMMA SaveLanguageKeeps ==
    ASSUME EditorInv, SaveLanguage
    PROVE  StepKeeps
<1>1. /\ dlg = None /\ doc # None /\ langDirty' = FALSE
      /\ UNCHANGED <<ini, root, list, phon, phonDirty, dlg, made>>
  BY DEF SaveLanguage
<1>2. /\ disk' \in Disks /\ SamePhon /\ Grows
      /\ doc' \in LanguageDocs /\ doc'.root = doc.root /\ doc'.lang = doc.lang
      /\ LangFile(doc.root, doc.lang) \notin spoilt' =>
            disk'[doc.root].lang[doc.lang] = doc.has /\ doc'.has = doc.has
  BY LanguageWritten
<1>3. root # None
  BY <1>1 DEF EditorInv, EditorTypes
<1>4. EditorTypes' /\ ListOK'
  BY <1>1, <1>2, <1>3 DEF EditorInv, EditorTypes, ListOK
<1>5. PhonMatches' /\ DlgMatches'
  BY <1>1, <1>2, PhonKept DEF DlgMatches
<1>6. DocMatches' /\ DocStays
  BY <1>1, <1>2, NoDocument DEF DocMatches, Matches, DocStays
<1> QED BY <1>1, <1>2, <1>4, <1>5, <1>6, MemoryStays DEF EditorInv, StepKeeps

LEMMA SavePhonemesKeeps ==
    ASSUME EditorInv, SavePhonemes
    PROVE  StepKeeps
<1>1. /\ dlg = None /\ phon # None /\ phonDirty' = FALSE
      /\ UNCHANGED <<ini, root, list, doc, langDirty, dlg, made>>
  BY DEF SavePhonemes
<1>2. /\ disk' \in Disks /\ SameLang /\ Grows
      /\ phon' \in PhonemeDocs /\ phon'.root = phon.root
      /\ PhonFile(phon.root) \notin spoilt' =>
            disk'[phon.root].phon = phon.has /\ phon'.has = phon.has
  BY PhonemesWritten
<1>3. root # None
  BY <1>1 DEF EditorInv, EditorTypes
<1>4. EditorTypes' /\ ListOK'
  BY <1>1, <1>2, <1>3 DEF EditorInv, EditorTypes, ListOK
<1>5. DocMatches' /\ DlgMatches'
  BY <1>1, <1>2, DocKept DEF DlgMatches
<1>6. PhonMatches' /\ PhonStays
  BY <1>1, <1>2, NoDocument DEF PhonMatches, Matches, PhonStays
<1> QED BY <1>1, <1>2, <1>4, <1>5, <1>6, MemoryStays DEF EditorInv, StepKeeps

\* What writes to a file of which nothing is held in memory.
LEMMA BesideMemory ==
    ASSUME EditorInv, disk' \in Disks, SamePhon, SameLang, SameDict, Grows, Make,
           UNCHANGED <<ini, root, list, phon, phonDirty, doc, langDirty, dlg>>
    PROVE  StepKeeps
<1>1. EditorTypes' /\ ListOK'
  BY MakeCounts DEF EditorInv, EditorTypes, ListOK
<1> QED BY <1>1, PhonKept, DocKept, DlgKept, MemoryStays DEF EditorInv, StepKeeps

LEMMA VoicesKeep ==
    ASSUME EditorInv, EditVoices \/ SaveVoiceProfileSliders \/ ExternalEdit
    PROVE  StepKeeps
<1>1. /\ Make /\ UNCHANGED <<ini, root, list, phon, phonDirty, doc, langDirty, dlg>>
      /\ WriteVoices(root) \/ WriteVoices(rt.root) \/ ExternalEdit
  BY DEF EditVoices, SaveVoiceProfileSliders, ExternalEdit, memory
<1>2. disk' \in Disks /\ SamePhon /\ SameLang /\ SameDict /\ Grows
  <2>1. CASE WriteVoices(root)
    BY <1>1, <2>1, ProfilesWritten
  <2>2. CASE WriteVoices(rt.root)
    BY <1>1, <2>2, ProfilesWritten
  <2>3. CASE ExternalEdit
    BY <2>3, OutsideWritten
  <2> QED BY <1>1, <2>1, <2>2, <2>3
<1> QED BY <1>1, <1>2, BesideMemory
LEMMA OpenDictionaryKeeps ==
    ASSUME EditorInv, OpenDictionary
    PROVE  StepKeeps
<1>1. /\ dlg = None /\ root # None /\ ~confirmed'
      /\ UNCHANGED <<disk, ini, root, list, phon, phonDirty, doc, langDirty, made>>
  BY DEF OpenDictionary, memory
<1>2. root \in Roots /\ disk' \in Disks
  BY <1>1 DEF EditorInv, EditorTypes
<1>3. PICK l \in Langs, type \in Types : ShowDictionary(l, type, {})
  BY DEF OpenDictionary
<1>4. dlg' \in Dictionaries /\ DlgMatches' /\ spoilt \subseteq spoilt'
  BY <1>1, <1>2, <1>3, DictionaryOpened
<1>5. SamePhon /\ SameLang /\ Grows
  BY <1>1, <1>4, NothingWritten DEF EditorInv, EditorTypes
<1>6. EditorTypes' /\ ListOK'
  BY <1>1, <1>4 DEF EditorInv, EditorTypes, ListOK
<1>7. PhonMatches' /\ DocMatches'
  BY <1>1, <1>5, PhonKept, DocKept
<1>8. DlgStays
  BY <1>1 DEF DlgStays
<1> QED BY <1>1, <1>4, <1>5, <1>6, <1>7, <1>8, MemoryStays DEF EditorInv, StepKeeps

LEMMA ChangeEntriesKeeps ==
    ASSUME EditorInv, ChangeEntries
    PROVE  StepKeeps
<1>1. /\ dlg # None /\ Make
      /\ UNCHANGED <<disk, ini, root, list, phon, phonDirty, doc, langDirty, spoilt>>
  BY DEF ChangeEntries, memory
<1>2. dlg' \in Dictionaries /\ Own(dlg.has) \subseteq Own(dlg'.has) /\ DlgMatches'
  BY EntriesChanged
<1>3. SamePhon /\ SameLang /\ Grows
  BY <1>1, NothingWritten DEF EditorInv, EditorTypes
<1>4. root # None
  BY <1>1 DEF EditorInv, EditorTypes
<1>5. EditorTypes' /\ ListOK'
  BY <1>1, <1>2, <1>4, MakeCounts DEF EditorInv, EditorTypes, ListOK
<1>6. PhonMatches' /\ DocMatches'
  BY <1>1, <1>3, PhonKept, DocKept
<1>7. DlgStays
  BY <1>2, NoDocument DEF DlgStays
<1> QED BY <1>1, <1>2, <1>3, <1>5, <1>6, <1>7, MemoryStays DEF EditorInv, StepKeeps

LEMMA SaveDictionaryKeeps ==
    ASSUME EditorInv, SaveDictionary
    PROVE  StepKeeps
<1>1. /\ dlg # None /\ dlg' = [dlg EXCEPT !.modified = FALSE]
      /\ UNCHANGED <<ini, root, list, phon, phonDirty, doc, langDirty, made>>
  BY DEF SaveDictionary, memory
<1>2. PICK gone : SaveEntries(gone) /\ spoilt' = spoilt \cup gone
  BY DEF SaveDictionary, Spoil
<1>3. /\ disk' \in Disks /\ SamePhon /\ SameLang /\ Grows
      /\ DictFile(root, dlg.lang, dlg.type) \notin spoilt' =>
            disk'[root].dict[dlg.lang][dlg.type] = dlg.has
  BY <1>1, <1>2, EntriesWritten
<1>4. dlg \in Dictionaries /\ root # None
  BY <1>1 DEF EditorInv, EditorTypes
<1>5. /\ dlg' \in Dictionaries /\ dlg'.has = dlg.has /\ dlg'.lang = dlg.lang
      /\ dlg'.type = dlg.type
  BY <1>1, <1>4 DEF Dictionaries
<1>6. DlgMatches'
  BY <1>1, <1>3, <1>5 DEF DlgMatches, Matches
<1>7. EditorTypes' /\ ListOK'
  BY <1>1, <1>3, <1>4, <1>5 DEF EditorInv, EditorTypes, ListOK
<1>8. PhonMatches' /\ DocMatches'
  BY <1>1, <1>3, PhonKept, DocKept
<1>9. DlgStays
  BY <1>3 DEF DlgStays
<1> QED BY <1>1, <1>3, <1>6, <1>7, <1>8, <1>9, MemoryStays DEF EditorInv, StepKeeps

LEMMA PromptSaveFacts ==
    ASSUME EditorInv, dlg # None, NEW gone, PromptSave(gone), spoilt \cup gone \subseteq spoilt'
    PROVE  /\ disk' \in Disks /\ SamePhon /\ SameLang /\ Grows
           /\ ~confirmed' => DlgStays
<1>1. CASE SaveEntries(gone)
  BY <1>1, EntriesWritten DEF DlgStays
<1>2. CASE disk' = disk /\ confirmed' = dlg.modified
  BY <1>2, NothingWritten DEF EditorInv, EditorTypes, DlgStays
<1> QED BY <1>1, <1>2 DEF PromptSave

LEMMA SwitchDictionaryKeeps ==
    ASSUME EditorInv, SwitchDictionary
    PROVE  StepKeeps
<1>1. /\ dlg # None
      /\ UNCHANGED <<ini, root, list, phon, phonDirty, doc, langDirty, made>>
  BY DEF SwitchDictionary, memory
<1>2. PICK gone \in SUBSET {DictFile(root, dlg.lang, dlg.type)}, l \in Langs, type \in Types :
          PromptSave(gone) /\ ShowDictionary(l, type, gone)
  BY DEF SwitchDictionary
<1>3. root \in Roots /\ root # None
  BY <1>1 DEF EditorInv, EditorTypes
<1>4. spoilt \cup gone \subseteq spoilt'
  BY <1>2 DEF ShowDictionary, Spoil
<1>5. /\ disk' \in Disks /\ SamePhon /\ SameLang /\ Grows
      /\ ~confirmed' => DlgStays
  BY <1>1, <1>2, <1>4, PromptSaveFacts
<1>6. dlg' \in Dictionaries /\ DlgMatches'
  BY <1>1, <1>2, <1>3, <1>5, DictionaryOpened
<1>7. EditorTypes' /\ ListOK'
  BY <1>1, <1>3, <1>5, <1>6 DEF EditorInv, EditorTypes, ListOK
<1>8. PhonMatches' /\ DocMatches'
  BY <1>1, <1>5, PhonKept, DocKept
<1> QED BY <1>1, <1>5, <1>6, <1>7, <1>8, MemoryStays DEF EditorInv, StepKeeps

LEMMA CloseDictionaryKeeps ==
    ASSUME EditorInv, CloseDictionary
    PROVE  StepKeeps
<1>1. /\ dlg # None /\ dlg' = None
      /\ UNCHANGED <<ini, root, list, phon, phonDirty, doc, langDirty, made>>
  BY DEF CloseDictionary, memory
<1>2. PICK gone : PromptSave(gone) /\ spoilt' = spoilt \cup gone
  BY DEF CloseDictionary, Spoil
<1>3. /\ disk' \in Disks /\ SamePhon /\ SameLang /\ Grows
      /\ ~confirmed' => DlgStays
  BY <1>1, <1>2, PromptSaveFacts
<1>4. EditorTypes' /\ ListOK'
  BY <1>1, <1>3 DEF EditorInv, EditorTypes, ListOK
<1>5. PhonMatches' /\ DocMatches' /\ DlgMatches'
  BY <1>1, <1>3, PhonKept, DocKept DEF DlgMatches
<1> QED BY <1>1, <1>3, <1>4, <1>5, MemoryStays DEF EditorInv, StepKeeps

LEMMA NextEditor == EditorInv /\ [Next]_vars => StepKeeps
<1> SUFFICES ASSUME EditorInv, [Next]_vars PROVE StepKeeps
  OBVIOUS
<1>1. CASE UNCHANGED vars
  BY <1>1, NothingTouched DEF vars, memory
<1>2. CASE PlayPhoneme \/ Speak
  BY <1>2, NothingTouched DEF PlayPhoneme, Speak, memory
<1>3. ASSUME NEW r \in Roots, OpenPackRoot(r) PROVE StepKeeps
  BY <1>3, OpenPackRootKeeps
<1>4. ASSUME NEW l \in Langs, SelectLanguage(l) PROVE StepKeeps
  BY <1>4, SelectLanguageKeeps
<1>5. CASE CloseAndReopen \/ SetDllDirectory \/ ReloadLanguage \/ ReloadPhonemes
  BY <1>5, CloseAndReopenKeeps, SetDllDirectoryKeeps, ReloadLanguageKeeps, ReloadPhonemesKeeps
<1>6. CASE EditLanguage \/ EditClass \/ EditPhoneme \/ CloneForLanguage
  BY <1>6, EditLanguageKeeps, EditPhonemeKeeps, CloneForLanguageKeeps
<1>7. CASE SaveLanguage \/ SavePhonemes \/ EditVoices \/ SaveVoiceProfileSliders \/ ExternalEdit
  BY <1>7, SaveLanguageKeeps, SavePhonemesKeeps, VoicesKeep
<1>8. CASE \/ OpenDictionary \/ ChangeEntries \/ SaveDictionary \/ SwitchDictionary
           \/ CloseDictionary
  BY <1>8, OpenDictionaryKeeps, ChangeEntriesKeeps, SaveDictionaryKeeps, SwitchDictionaryKeeps,
     CloseDictionaryKeeps
<1> QED BY <1>1, <1>2, <1>3, <1>4, <1>5, <1>6, <1>7, <1>8 DEF Next

LEMMA EditorInductive == Spec => []EditorInv
<1>1. Init => EditorInv
  <2> SUFFICES ASSUME Init PROVE EditorInv
    OBVIOUS
  <2>1. /\ disk \in Disks /\ made = 0 /\ root = None /\ list = NoList
        /\ ini = [root |-> None, lang |-> None] /\ phon = None /\ phonDirty = FALSE
        /\ doc = None /\ langDirty = FALSE /\ dlg = None
    BY EditorAssumption DEF Init, Disks
  <2>2. made \in 0 .. MaxChanges
    BY <2>1, EditorAssumption
  <2>3. ini \in [root : Roots \cup {None}, lang : Langs \cup {None}]
    BY <2>1
  <2>4. ListOK
    BY <2>1 DEF ListOK, NoList
  <2>5. EditorTypes
    BY <2>1, <2>2, <2>3 DEF EditorTypes
  <2> QED BY <2>1, <2>4, <2>5 DEF EditorInv, PhonMatches, DocMatches, DlgMatches
<1>2. EditorInv /\ [Next]_vars => EditorInv'
  BY NextEditor DEF StepKeeps
<1> QED BY <1>1, <1>2, PTL DEF Spec

-----------------------------------------------------------------------------
(* The theorems.                                                           *)

\* A language or the phonemes are called unchanged only if their file has every change the
\* user made, but for the members of classes, as long as no write of that file was cut off.
THEOREM CleanIsSaved == Spec => []CleanMeansSaved
<1>1. EditorInv => CleanMeansSaved
  BY DEF EditorInv, PhonMatches, DocMatches, Matches, CleanMeansSaved
<1> QED BY <1>1, EditorInductive, PTL

\* The changes of the user's in the directory r of d, but for the files in gone.
DictOf(d, r, l, gone) ==
    UNION {Own(d[r].dict[l][type]) : type \in {t \in Types : DictFile(r, l, t) \notin gone}}
OwnOf(d, r, gone) ==
    (IF PhonFile(r) \in gone THEN {} ELSE Own(d[r].phon) \cup Own(d[r].voices))
      \cup (UNION {Own(d[r].lang[l]) : l \in {l \in Langs : LangFile(r, l) \notin gone}})
      \cup (UNION {DictOf(d, r, l, gone) : l \in Langs})

LEMMA OwnOnDiskFacts ==
    ASSUME NEW d, NEW gone, NEW c
    PROVE  c \in OwnOnDisk(d, gone) <=>
               \E r \in Roots :
                   \/ PhonFile(r) \notin gone /\ (c \in Own(d[r].phon) \/ c \in Own(d[r].voices))
                   \/ \E l \in Langs : LangFile(r, l) \notin gone /\ c \in Own(d[r].lang[l])
                   \/ \E l \in Langs, type \in Types :
                         DictFile(r, l, type) \notin gone /\ c \in Own(d[r].dict[l][type])
<1>0. OwnOnDisk(d, gone) = UNION {OwnOf(d, r, gone) : r \in Roots}
  BY DEF OwnOnDisk, OwnOf, DictOf
<1>1. c \in OwnOnDisk(d, gone) <=> \E r \in Roots : c \in OwnOf(d, r, gone)
  BY <1>0, Zenon
<1>2. ASSUME NEW r
      PROVE  c \in OwnOf(d, r, gone) <=>
                 \/ PhonFile(r) \notin gone /\ (c \in Own(d[r].phon) \/ c \in Own(d[r].voices))
                 \/ \E l \in Langs : LangFile(r, l) \notin gone /\ c \in Own(d[r].lang[l])
                 \/ \E l \in Langs, type \in Types :
                       DictFile(r, l, type) \notin gone /\ c \in Own(d[r].dict[l][type])
  <2> DEFINE phons == IF PhonFile(r) \in gone THEN {} ELSE Own(d[r].phon) \cup Own(d[r].voices)
             langs == UNION {Own(d[r].lang[l]) : l \in {l \in Langs : LangFile(r, l) \notin gone}}
             dicts == UNION {DictOf(d, r, l, gone) : l \in Langs}
  <2>1. c \in langs <=> \E l \in Langs : LangFile(r, l) \notin gone /\ c \in Own(d[r].lang[l])
    BY Zenon
  <2>2. ASSUME NEW l
        PROVE  c \in DictOf(d, r, l, gone) <=> \E type \in Types :
                   DictFile(r, l, type) \notin gone /\ c \in Own(d[r].dict[l][type])
    BY Zenon DEF DictOf
  <2>3. c \in phons <=>
            PhonFile(r) \notin gone /\ (c \in Own(d[r].phon) \/ c \in Own(d[r].voices))
    OBVIOUS
  <2>4. OwnOf(d, r, gone) = phons \cup langs \cup dicts
    BY Zenon DEF OwnOf
  <2>5. c \in dicts <=> \E l \in Langs : c \in DictOf(d, r, l, gone)
    BY Zenon
  <2> HIDE DEF phons, langs, dicts
  <2>6. c \in OwnOf(d, r, gone) <=> c \in phons \/ c \in langs \/ c \in dicts
    BY <2>4
  <2> QED BY <2>1, <2>2, <2>3, <2>5, <2>6, Zenon
<1> QED BY <1>1, <1>2, Zenon

\* What the user changed, but for the members of classes, is in memory or in a file until they
\* agree to lose it: no step takes a change from a file that is not spoilt, and none drops one
\* from memory that is not in a file, unasked.
THEOREM NoChangeIsLost == Spec => ChangesSurvive
<1>2. ASSUME Grows PROVE OwnOnDisk(disk, spoilt') \subseteq OwnOnDisk(disk', spoilt')
  <2> SUFFICES ASSUME NEW c \in OwnOnDisk(disk, spoilt') PROVE c \in OwnOnDisk(disk', spoilt')
    OBVIOUS
  <2>1. PICK r \in Roots :
            \/ PhonFile(r) \notin spoilt' /\ (c \in Own(disk[r].phon) \/ c \in Own(disk[r].voices))
            \/ \E l \in Langs : LangFile(r, l) \notin spoilt' /\ c \in Own(disk[r].lang[l])
            \/ \E l \in Langs, type \in Types :
                  DictFile(r, l, type) \notin spoilt' /\ c \in Own(disk[r].dict[l][type])
    BY OwnOnDiskFacts
  <2>2. \/ PhonFile(r) \notin spoilt' /\ (c \in Own(disk'[r].phon) \/ c \in Own(disk'[r].voices))
        \/ \E l \in Langs : LangFile(r, l) \notin spoilt' /\ c \in Own(disk'[r].lang[l])
        \/ \E l \in Langs, type \in Types :
              DictFile(r, l, type) \notin spoilt' /\ c \in Own(disk'[r].dict[l][type])
    BY <1>2, <2>1 DEF Grows
  <2> QED BY <2>2, OwnOnDiskFacts
<1>3. ASSUME EditorInv, Grows, PhonStays, DocStays, DlgStays
      PROVE  OwnInMemory(spoilt') \subseteq OwnInMemory({})' \cup OwnOnDisk(disk', {})
  <2>1. ASSUME NEW c, phon # None, PhonFile(phon.root) \notin spoilt', c \in Own(phon.has)
        PROVE  c \in OwnInMemory({})' \cup OwnOnDisk(disk', {})
    <3>1. CASE phon' # None /\ Own(phon.has) \subseteq Own(phon'.has)
      BY <2>1, <3>1 DEF OwnInMemory
    <3>2. CASE ~phonDirty
      <4>1. phon.root \in Roots /\ c \in Own(disk[phon.root].phon)
        BY <1>3, <2>1, <3>2 DEF EditorInv, EditorTypes, PhonemeDocs, PhonMatches, Matches, Grows
      <4>2. c \in Own(disk'[phon.root].phon)
        BY <1>3, <2>1, <4>1 DEF Grows
      <4> QED BY <4>1, <4>2, OwnOnDiskFacts
    <3> QED BY <1>3, <2>1, <3>1, <3>2 DEF PhonStays
  <2>2. ASSUME NEW c, doc # None, LangFile(doc.root, doc.lang) \notin spoilt',
             c \in Own(doc.has)
        PROVE  c \in OwnInMemory({})' \cup OwnOnDisk(disk', {})
    <3>1. CASE doc' # None /\ Own(doc.has) \subseteq Own(doc'.has)
      BY <2>2, <3>1 DEF OwnInMemory
    <3>2. CASE ~langDirty
      <4>1. /\ doc.root \in Roots /\ doc.lang \in Langs
            /\ c \in Own(disk[doc.root].lang[doc.lang])
        BY <1>3, <2>2, <3>2 DEF EditorInv, EditorTypes, LanguageDocs, DocMatches, Matches, Grows
      <4>2. c \in Own(disk'[doc.root].lang[doc.lang])
        BY <1>3, <2>2, <4>1 DEF Grows
      <4> QED BY <4>1, <4>2, OwnOnDiskFacts
    <3> QED BY <1>3, <2>2, <3>1, <3>2 DEF DocStays
  <2>3. ASSUME NEW c, dlg # None, DictFile(root, dlg.lang, dlg.type) \notin spoilt',
             c \in Own(dlg.has)
        PROVE  c \in OwnInMemory({})' \cup OwnOnDisk(disk', {})
    <3>1. CASE dlg' # None /\ Own(dlg.has) \subseteq Own(dlg'.has)
      BY <2>3, <3>1 DEF OwnInMemory
    <3>2. root \in Roots /\ dlg.lang \in Langs /\ dlg.type \in Types
      BY <1>3, <2>3 DEF EditorInv, EditorTypes, Dictionaries
    <3>3. CASE Own(dlg.has) \subseteq Own(disk'[root].dict[dlg.lang][dlg.type])
      <4>1. c \in Own(disk'[root].dict[dlg.lang][dlg.type])
        BY <2>3, <3>3
      <4> QED BY <3>2, <4>1, OwnOnDiskFacts
    <3>4. CASE ~dlg.modified
      <4>1. c \in Own(disk[root].dict[dlg.lang][dlg.type])
        BY <1>3, <2>3, <3>4 DEF EditorInv, DlgMatches, Matches, Grows
      <4>2. c \in Own(disk'[root].dict[dlg.lang][dlg.type])
        BY <1>3, <2>3, <3>2, <4>1 DEF Grows
      <4> QED BY <3>2, <4>2, OwnOnDiskFacts
    <3> QED BY <1>3, <2>3, <3>1, <3>3, <3>4 DEF DlgStays
  <2>4. \A c \in OwnInMemory(spoilt') :
            \/ phon # None /\ PhonFile(phon.root) \notin spoilt' /\ c \in Own(phon.has)
            \/ doc # None /\ LangFile(doc.root, doc.lang) \notin spoilt' /\ c \in Own(doc.has)
            \/ /\ dlg # None /\ DictFile(root, dlg.lang, dlg.type) \notin spoilt'
               /\ c \in Own(dlg.has)
    BY DEF OwnInMemory
  <2> QED BY <2>1, <2>2, <2>3, <2>4
<1>4. EditorInv /\ [Next]_vars =>
          [/\ OwnOnDisk(disk, spoilt') \subseteq OwnOnDisk(disk', spoilt')
           /\ ~confirmed' =>
                 OwnInMemory(spoilt') \subseteq OwnInMemory({})' \cup OwnOnDisk(disk', {})]_vars
  BY <1>2, <1>3, NextEditor DEF StepKeeps
<1> QED BY <1>4, EditorInductive, PTL DEF Spec, ChangesSurvive
=============================================================================
