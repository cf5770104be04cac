------------------------------- MODULE PackData -------------------------------
(***************************************************************************)
(* The dictionary and settings editors of the Android application          *)
(* (TgsbViewModel.kt, DictionaryEditorScreen.kt) and the frontend handle   *)
(* they work on (frontend_data_api.cpp, data_query.cpp, nvspFrontend.cpp). *)
(*                                                                         *)
(* The user's changes are stored in the preferences, per dictionary and    *)
(* language, and applied to the loaded pack word by word. The pack is      *)
(* loaded from the files of PackFiles; the application itself never writes *)
(* them. The editor may show another language than the loaded one: the     *)
(* frontend then reads its dictionaries from the files.                    *)
(***************************************************************************)
EXTENDS FiniteSets, PackFiles

CONSTANTS
    InitFiles,    \* the packs an installation may have
    Texts,        \* replacements the user may enter
    Json,         \* what a dictionary that does not read JSON makes of it
    Keys, Values, \* settings and their values
    Searches,     \* search boxes' contents, as the sets of words they match
    Page,         \* entries loaded at a time
    MaxEdits      \* bound on the user's changes

ASSUME DataAssumption ==
    /\ Words \subseteq Nat /\ IsFiniteSet(Words)   \* in the order of their spelling
    /\ Page \in Nat \ {0} /\ MaxEdits \in Nat
    /\ Searches \subseteq SUBSET Words

\* The rules of a file are a sequence.
ASSUME FilesAssumption ==
    \A packs \in InitFiles, name \in Names :
        LET file == packs.bundle.lang[name]
        IN  file # None => file.rules \in Seq(ToSet(file.rules))

VARIABLES
    files,
    h,               \* the frontend handle, see SetLanguage
    stored,          \* "dict_overrides_" of a dictionary and language: word -> change
    storedSettings,  \* "pack_overrides_" of a language
    storedOff,       \* "dict_disabled_" of a language
    selected,        \* the language of the Speak tab
    editor,          \* None, or the dictionary screen
    edits

prefs == <<stored, storedSettings, storedOff>>
vars == <<files, h, prefs, selected, editor, edits>>

\* A change of an entry: its new text, or its mask alone.
Text(t) == [text |-> t, mask |-> None]
Mask(b) == [text |-> None, mask |-> b]

-----------------------------------------------------------------------------
(* The frontend's data interface.                                          *)

NewHandle == [lang |-> None, dicts |-> [k \in Kinds |-> Empty], settings |-> Empty,
              cache |-> None, off |-> [l \in Langs |-> {}]]

\* Slip: a language that is loaded need not be loaded again.
SetLanguageOnce(hd, l) ==
    LET pack == LoadPackSet(files, FALSE, l)
    IN  IF hd.lang = l THEN hd
        ELSE [hd EXCEPT !.lang = l, !.dicts = pack.dicts, !.settings = pack.settings,
                        !.cache = None]

\* The pack is read anew and the listing dropped; what is switched off stays so.
SetLanguage(hd, l) ==
    LET pack == LoadPackSet(files, FALSE, l)
    IN  [hd EXCEPT !.lang = l, !.dicts = pack.dicts, !.settings = pack.settings,
                   !.cache = None]

\* The loaded dictionary, or another language's from the files.
GetDictRefs(hd, kind, l) ==
    IF l = hd.lang THEN hd.dicts[kind] ELSE LoadDictFiles(files, FALSE, l)[kind]

\* A pronunciation: a text makes the user's entry, a mask needs an entry.
SetPronounce(dict, w, change) ==
    IF change.text # None THEN Over(One(w, Entry(change.text, "user")), dict)
    ELSE IF w \in DOMAIN dict THEN [dict EXCEPT ![w].masked = change.mask]
    ELSE dict

\* The other dictionaries expect bare text: a character's description is searched for
\* "toText", the parts of a compound are whatever is between spaces, and stress digits
\* are not found in JSON at all.
SetOther(kind, dict, w, change) ==
    CASE kind = "character" ->
            Over(One(w, Entry(IF change.text = None THEN Json ELSE change.text, "main")), dict)
      [] kind = "compound" -> Over(One(w, Entry(Json, "main")), dict)
      [] kind = "stress" -> dict

Refused(hd, kind, w, change) ==
    \/ kind = "stress"
    \/ kind = "pronounce" /\ change.text = None /\ w \notin DOMAIN hd.dicts[kind]

\* Slip: the listing stays.
SetDictionaryOnly(hd, kind, w, change) ==
    IF Refused(hd, kind, w, change) THEN hd
    ELSE [hd EXCEPT !.dicts[kind] = IF kind = "pronounce" THEN SetPronounce(@, w, change)
                                    ELSE SetOther(kind, @, w, change)]

\* setData writes to the loaded pack, whatever language it is told, and drops the
\* listing unless it refuses.
SetDictionary(hd, kind, w, change) ==
    IF Refused(hd, kind, w, change) THEN hd
    ELSE [hd EXCEPT !.cache = None,
                    !.dicts[kind] = IF kind = "pronounce" THEN SetPronounce(@, w, change)
                                    ELSE SetOther(kind, @, w, change)]

\* Changes made one after another, in no particular order.
SetAll(hd, kind, changes) ==
    FoldLeft(LAMBDA acc, w : SetDictionary(acc, kind, w, changes[w]),
             hd, SetToSeq(DOMAIN changes))

\* A setting does mind the language.
SetSettings(hd, l, changes) ==
    [hd EXCEPT !.settings = IF hd.lang = l THEN Over(changes, @) ELSE @, !.cache = None]

SetTypeEnabled(hd, l, kind, enabled) ==
    [hd EXCEPT !.off[l] = IF enabled THEN @ \ {kind} ELSE @ \cup {kind}]

\* queryData and getDataCount: the listing is built unless it is there for this
\* dictionary and language.
QueryData(hd, kind, l) ==
    IF hd.cache # None /\ hd.cache.kind = kind /\ hd.cache.lang = l THEN hd
    ELSE [hd EXCEPT !.cache = [kind |-> kind, lang |-> l,
                               list |-> GetDictRefs(hd, kind, l)]]

CountDictionaryMatches(list, search) == Cardinality(DOMAIN list \cap search)

\* A page of the listing, sorted by word.
SerializeDictionary(list, search, offset) ==
    LET found == SetToSortSeq(DOMAIN list \cap search, <)
        page == SubSeq(found, offset + 1, Min({offset + Page, Len(found)}))
    IN  [i \in DOMAIN page |-> [word |-> page[i], entry |-> list[page[i]]]]

-----------------------------------------------------------------------------
(* The application's engine.                                               *)

\* What is stored as switched off is switched off.
SwitchOff(hd, l) == [hd EXCEPT !.off[l] = @ \cup storedOff[l]]

\* reapplyDictOverrides: what is stored under the bare tag goes into whatever is loaded.
Reapply(hd, l) == SwitchOff(SetAll(hd, "pronounce", stored["pronounce"][l]), l)

\* How the Speak tab loads a language: the files, then everything stored.
ReloadWith(hd, l, changes) == Reapply(SetSettings(SetLanguage(hd, l), l, changes), l)
Reload(hd, l) == ReloadWith(hd, l, storedSettings[l])

\* What is stored at the start is what another installation left.
Init ==
    /\ files \in InitFiles /\ selected \in Langs
    /\ stored = [k \in Kinds |-> [l \in Langs |-> Empty]]
    /\ storedSettings = [l \in Langs |-> Empty] /\ storedOff = [l \in Langs |-> {}]
    /\ h = SetLanguage(NewHandle, selected) /\ editor = None /\ edits = 0

\* The process is killed and the application opened again.
Restart ==
    /\ h' = Reload(NewHandle, selected) /\ editor' = None
    /\ UNCHANGED <<files, prefs, selected, edits>>

OnLanguageSelected ==
    /\ selected' \in Langs \ {selected} /\ h' = Reload(h, selected') /\ editor' = None
    /\ UNCHANGED <<files, prefs, edits>>

Speak ==
    /\ h' = Reload(h, selected) /\ UNCHANGED <<files, prefs, selected, editor, edits>>

-----------------------------------------------------------------------------
(* The dictionary screen.                                                  *)

\* loadDictionary after a change: the first page of everything, though the search box
\* and the offset of "Load more" stay as they were.
Relist(hd) ==
    LET q == QueryData(hd, editor.kind, editor.lang) IN
    /\ h' = q
    /\ editor' = [editor EXCEPT !.total = Cardinality(DOMAIN q.cache.list),
                                !.shown = SerializeDictionary(q.cache.list, Words, 0)]

\* Another dictionary, language or search: what is stored for that language is applied.
OpenDictionary ==
    /\ \E kind \in Kinds, l \in Langs, search \in Searches :
         LET q == QueryData(Reapply(h, l), kind, l) IN
         /\ h' = q
         /\ editor' = [kind |-> kind, lang |-> l, search |-> search, loaded |-> Page,
                       total |-> CountDictionaryMatches(q.cache.list, search),
                       shown |-> SerializeDictionary(q.cache.list, search, 0)]
    /\ UNCHANGED <<files, prefs, selected, edits>>

\* Offered while entries are missing. After a change the offset may be past them; then
\* it loads empty pages and stays, which changes nothing and is left out.
LoadMore ==
    /\ editor # None /\ Len(editor.shown) < editor.total /\ editor.search = Words
    /\ editor.loaded < editor.total
    /\ LET q == QueryData(h, editor.kind, editor.lang) IN
       /\ h' = q
       /\ editor' = [editor EXCEPT
            !.loaded = @ + Page, !.total = Cardinality(DOMAIN q.cache.list),
            !.shown = @ \o SerializeDictionary(q.cache.list, Words, editor.loaded)]
    /\ UNCHANGED <<files, prefs, selected, edits>>

Edit == editor # None /\ edits < MaxEdits /\ edits' = edits + 1
Shown(test(_)) == {w \in Words : \E e \in ToSet(editor.shown) : e.word = w /\ test(e.entry)}

Store(changes) ==
    stored' = [stored EXCEPT ![editor.kind][editor.lang] = Over(changes, @)]

AddEntry ==
    /\ Edit
    /\ \E w \in Words, t \in Texts :
         /\ Store(One(w, Text(t)))
         /\ Relist(SetDictionary(h, editor.kind, w, Text(t)))
    /\ UNCHANGED <<files, storedSettings, storedOff, selected>>

\* One entry's mask, offered for those that came with the pack.
MaskEntry ==
    /\ Edit
    /\ \E x \in ToSet(editor.shown) :
         LET change == Mask(~x.entry.masked) IN
         /\ x.entry.source = "main"
         /\ Store(One(x.word, change))
         /\ Relist(SetDictionary(h, editor.kind, x.word, change))
    /\ UNCHANGED <<files, storedSettings, storedOff, selected>>

\* A whole category's, which takes the user's entries too: their mask is stored in
\* place of their text.
MaskCategory ==
    /\ Edit /\ editor.kind = "pronounce"
    /\ \E masked \in BOOLEAN, category \in (SUBSET Words) \ {{}} :
         LET ws == Shown(LAMBDA e : e.masked # masked) \cap category
             changes == [w \in ws |-> Mask(masked)] IN
         /\ ws # {}
         /\ Store(changes)
         /\ Relist(SetAll(h, "pronounce", changes))
    /\ UNCHANGED <<files, storedSettings, storedOff, selected>>

\* The changes forgotten, the language of the screen loaded and what is left of the
\* changes applied; settings are not.
DeleteEntries(ws) ==
    stored' = [stored EXCEPT ![editor.kind][editor.lang] =
                  [w \in DOMAIN @ \ ws |-> @[w]]]

\* Slip: the word is taken out of the loaded pack.
RevertedInPlace(l) ==
    LET left == DOMAIN stored[editor.kind][l] \ DOMAIN stored'[editor.kind][l]
    IN  [h EXCEPT !.cache = None,
                  !.dicts[editor.kind] = [w \in DOMAIN @ \ left |-> @[w]]]

Reverted(l) ==
    SwitchOff(SetAll(SetLanguage(h, l), "pronounce", stored'["pronounce"][l]), l)

DeleteEntry ==
    /\ Edit
    /\ \E w \in Shown(LAMBDA e : e.source = "user") :
         DeleteEntries({w}) /\ Relist(Reverted(editor.lang))
    /\ UNCHANGED <<files, storedSettings, storedOff, selected>>

\* The edit dialog: another word is the old one deleted and a new one added.
RenameEntry ==
    /\ Edit
    /\ \E x \in ToSet(editor.shown), w \in Words, t \in Texts :
         /\ w # x.word
         /\ stored' = [stored EXCEPT ![editor.kind][editor.lang] =
               Over(One(w, Text(t)), [v \in DOMAIN @ \ {x.word} |-> @[v]])]
         /\ Relist(SetDictionary(Reverted(editor.lang), editor.kind, w, Text(t)))
    /\ UNCHANGED <<files, storedSettings, storedOff, selected>>

\* "Remove changed entries": those that are shown.
RemoveChanged ==
    /\ Edit
    /\ LET users == Shown(LAMBDA e : e.source = "user")
           masked == Shown(LAMBDA e : e.source = "main" /\ e.masked)
           changes == [w \in masked |-> Mask(FALSE)] IN
       /\ users \cup masked # {}
       /\ stored' = [stored EXCEPT ![editor.kind][editor.lang] =
             Over(changes, [w \in DOMAIN @ \ users |-> @[w]])]
       /\ Relist(SetAll(IF users = {} THEN h ELSE Reverted(editor.lang),
                        editor.kind, changes))
    /\ UNCHANGED <<files, storedSettings, storedOff, selected>>

SetDictTypeEnabled ==
    /\ Edit
    /\ \E enabled \in BOOLEAN :
         /\ h' = SetTypeEnabled(h, editor.lang, editor.kind, enabled)
         /\ storedOff' = [storedOff EXCEPT ![editor.lang] =
                IF enabled THEN @ \ {editor.kind} ELSE @ \cup {editor.kind}]
    /\ UNCHANGED <<files, stored, storedSettings, selected, editor>>

-----------------------------------------------------------------------------
(* The settings editor.                                                    *)

SaveOverrides(l, changes) ==
    /\ edits < MaxEdits /\ edits' = edits + 1
    /\ storedSettings' = [storedSettings EXCEPT ![l] = changes]
    /\ h' = SetSettings(ReloadWith(h, selected, storedSettings'[selected]), l, changes)
    /\ UNCHANGED <<files, stored, storedOff, selected, editor>>

Without(changes, k) == [x \in DOMAIN changes \ {k} |-> changes[x]]

\* The files' own value is not stored.
SetEditorOverride ==
    \E l \in Langs, v \in Values : \E k \in DOMAIN GetEffectiveSettings(files, l) :
        SaveOverrides(l, IF GetEffectiveSettings(files, l)[k] = v
                         THEN Without(storedSettings[l], k)
                         ELSE Over(One(k, v), storedSettings[l]))

RemoveEditorOverride ==
    \E l \in Langs : \E k \in DOMAIN storedSettings[l] :
        SaveOverrides(l, Without(storedSettings[l], k))

ResetAllEditorOverrides ==
    \E l \in Langs : storedSettings[l] # Empty /\ SaveOverrides(l, Empty)

\* loadEditorSettings: to look at a language's settings applies what is stored.
LoadEditorSettings ==
    /\ \E l \in Langs : storedSettings[l] # Empty /\ h' = SetSettings(h, l, storedSettings[l])
    /\ UNCHANGED <<files, prefs, selected, editor, edits>>

Next ==
    \/ Restart \/ OnLanguageSelected \/ Speak
    \/ OpenDictionary \/ LoadMore
    \/ AddEntry \/ RenameEntry \/ MaskEntry \/ MaskCategory \/ DeleteEntry
    \/ RemoveChanged \/ SetDictTypeEnabled
    \/ SetEditorOverride \/ RemoveEditorOverride \/ ResetAllEditorOverrides
    \/ LoadEditorSettings

Spec == Init /\ [][Next]_vars

-----------------------------------------------------------------------------
(* Properties.                                                             *)

\* The listing a query would be answered from is the dictionary it stands for, although
\* changes of either language, reloads and other queries come between
\* (frontend_data_api.cpp:318).
ListingIsFresh ==
    h.cache # None => h.cache.list = GetDictRefs(h, h.cache.kind, h.cache.lang)

\* Changes applied to the files: texts replace an entry or make one, masks need one.
AsEdited(l) ==
    LET disk == PackDicts(files, FALSE, l)["pronounce"]
        changes == stored["pronounce"][l]
        texts == {w \in DOMAIN changes : changes[w].text # None}
    IN  [w \in DOMAIN disk \cup texts |->
            IF w \in texts THEN Entry(changes[w].text, "user")
            ELSE IF w \in DOMAIN changes THEN [disk[w] EXCEPT !.masked = changes[w].mask]
            ELSE disk[w]]

\* Whatever the editors left in the loaded pack, words of other languages or entries
\* since removed, the next text is spoken with the files and the stored changes of its
\* own language alone (TgsbViewModel.kt:182-185).
SpokenAsEdited ==
    LET spoken == Reload(h, selected)
    IN  /\ spoken.dicts["pronounce"] = AsEdited(selected)
        /\ spoken.off[selected] = storedOff[selected]

\* "Removing a modified base entry reverts to the original" (TgsbViewModel.kt:952-954):
\* when a change is forgotten the loaded pack has the word as the files do.
RemovedEntryReverts ==
    [][\A l \in Langs, kind \in Kinds :
        \A w \in DOMAIN stored[kind][l] \ DOMAIN stored'[kind][l] :
            LET disk == PackDicts(files, FALSE, l)[kind] IN
            /\ h'.lang = l
            /\ (w \in DOMAIN h'.dicts[kind]) = (w \in DOMAIN disk)
            /\ w \in DOMAIN disk => h'.dicts[kind][w] = disk[w]]_vars

\* What the editors read for themselves, from the files, is what a language is spoken
\* with. Its settings are the chain's with what is stored (pack.cpp:2395). Its dictionaries
\* (loadDictFiles) are those of loadPackSet, another directory's files and the fallbacks
\* included; stress is left out, browsing falls back there on the base language and speech
\* does not. Every shared phoneme that a rule left in the loaded pack leads to is listed
\* (data_query.cpp:338).
BrowsedAsSpoken ==
    /\ Reload(h, selected).settings =
           Over(storedSettings[selected], GetEffectiveSettings(files, selected))
    /\ \A l \in Langs :
        /\ \A over \in BOOLEAN, kind \in Kinds \ {"stress"} :
              LoadDictFiles(files, over, l)[kind] = PackDicts(files, over, l)[kind]
        /\ \A rule \in ToSet(LoadPackSet(files, FALSE, l).rules) :
              rule.to \in DOMAIN files.phonemes => rule.to \in DOMAIN BuildPhonemesCache(files, l)

\* An editor is shown the dictionaries and the settings the language is spoken with.
EditorsSeeThePack == ListingIsFresh /\ BrowsedAsSpoken
==============================================================================
