------------------------------- MODULE YamlText -------------------------------
(***************************************************************************)
(* A pack's YAML files as text. They are read twice, by the frontend       *)
(* (yaml_min.cpp) and by the NVDA add-on (langPackYaml.py), and they are   *)
(* changed in place, line by line, so that what a user wrote around a      *)
(* value stays: the add-on writes settings, the frontend the sliders of a  *)
(* voice profile.                                                          *)
(*                                                                         *)
(* A file is its sequence of lines, a line its indentation, key and value. *)
(* A line that opens a block has the value Nested and a comment the key    *)
(* Comment; blank lines, quotes and lists are left out.                    *)
(***************************************************************************)
EXTENDS Naturals, SequencesExt

CONSTANTS
    Nested,            \* the value of a line that opens a block
    Comment,           \* the key of a line that is a comment
    SettingsKey,       \* settings:
    VoiceProfilesKey,  \* voiceProfiles:
    VoicingToneKey,    \* voicingTone:
    SiblingKeys        \* classScales: and phonemeOverrides:

Line(ind, key, val) == [ind |-> ind, key |-> key, val |-> val]
Content(f, i) == f[i].key # Comment
Contents(f) == {i \in DOMAIN f : Content(f, i)}
Between(f, from, to) == {i \in Contents(f) : from <= i /\ i < to}
First(S, otherwise) == IF S = {} THEN otherwise ELSE Min(S)

Numbers(f) == [i \in DOMAIN f |-> i]

\* Before every line: the last line above it and those that one is indented under.
Chains(f) ==
    LET add(chains, i) ==
            Append(chains, IF ~Content(f, i) THEN Last(chains)
                           ELSE {j \in Last(chains) : f[j].ind < f[i].ind} \cup {i})
    IN  FoldLeft(add, <<{}>>, Numbers(f))

\* The lines a line is indented under.
Enclosing(f, chains, i) == {j \in chains[i] : f[j].ind < f[i].ind}

\* The keys of some lines, in their order.
KeysOf(f, lines) ==
    LET at == SelectSeq(Numbers(f), LAMBDA i : i \in lines) IN [d \in DOMAIN at |-> f[at[d]].key]

-----------------------------------------------------------------------------
(* yaml_min.cpp                                                            *)

\* A deeper line needs an open block before it, any other one a line it lines up with.
ParsesAt(f, chain, i) ==
    chain # {} =>
        \/ f[i].ind > f[Max(chain)].ind /\ f[Max(chain)].val = Nested
        \/ \E j \in chain : f[j].ind = f[i].ind

Parses(f) == LET chains == Chains(f) IN \A i \in Contents(f) : ParsesAt(f, chains[i], i)

\* The scalars of the tree, by their path from the root. n.map[key] = value: a later line
\* of a key replaces the node of an earlier one, with everything below it.
Tree(f) ==
    LET chains == Chains(f)
        add(tree, i) ==
            LET path == KeysOf(f, Enclosing(f, chains, i) \cup {i})
                kept == {p \in DOMAIN tree : ~IsPrefix(path, p)}
                rest == [p \in kept |-> tree[p]]
            IN  IF ~Content(f, i) THEN tree
                ELSE IF f[i].val = Nested THEN rest
                ELSE (path :> f[i].val) @@ rest
    IN  FoldLeft(add, <<>>, Numbers(f))

\* The part of a tree below a key.
Below(tree, key) ==
    LET under == {p \in DOMAIN tree : Head(p) = key /\ Len(p) > 1}
    IN  [p \in {Tail(q) : q \in under} |-> tree[<<key>> \o p]]

-----------------------------------------------------------------------------
(* langPackYaml.py: reading                                                *)

Header(f) == First({i \in Contents(f) : f[i].ind = 0 /\ f[i].key = SettingsKey /\ f[i].val = Nested}, 0)
SectionEnd(f) == First({i \in Between(f, Header(f) + 1, Len(f) + 1) : f[i].ind = 0}, Len(f) + 1)

\* keyLineIndex: the last line of a dotted path counts; only lines that open a block are
\* part of it.
KeyLineIndex(f) ==
    LET chains == Chains(f)
        add(index, i) ==
            LET outer == {j \in Enclosing(f, chains, i) : j > Header(f) /\ f[j].val = Nested} IN
            IF f[i].val = Nested THEN index ELSE (KeysOf(f, outer \cup {i}) :> i) @@ index
        lines == SelectSeq(Numbers(f), LAMBDA i : i \in Between(f, Header(f) + 1, SectionEnd(f)))
    IN  IF Header(f) = 0 THEN <<>> ELSE FoldLeft(add, <<>>, lines)

ParseSettings(f) == LET at == KeyLineIndex(f) IN [p \in DOMAIN at |-> f[at[p]].val]

-----------------------------------------------------------------------------
(* langPackYaml.py: writing                                                *)

\* The opening lines a key is nested in, then the key, each two columns deeper.
NewKeyLines(path, val) ==
    [d \in DOMAIN path |-> Line(2 * d, path[d], IF d = Len(path) THEN val ELSE Nested)]

\* The line that opens part d of a path, looked for among the lines from..to-1 until
\* they are less indented.
ParentLine(f, part, d, from, to) ==
    First({i \in Between(f, from, to) :
              /\ f[i].ind = 2 * d /\ f[i].key = part /\ f[i].val = Nested
              /\ \A k \in Between(f, from, i) : f[k].ind >= 2 * d}, 0)

\* Slip: a new key goes to the end of the section, whatever block it belongs to.
InsertAtEnd(f, path, val) == InsertAt(f, SectionEnd(f), Line(2 * Len(path), Last(path), val))

\* A new key goes to the end of the innermost block of its path that is there, and brings
\* the opening lines that are missing.
InsertNestedKey(f, path, val) ==
    LET enter(at, d) ==
            LET i == ParentLine(f, path[d], d, at.from, at.to)
                e == First({j \in Between(f, i + 1, at.to) : f[j].ind <= 2 * d}, at.to)
            IN  IF i = 0 \/ at.depth < d - 1 THEN at ELSE [from |-> i + 1, to |-> e, depth |-> d]
        at == FoldLeft(enter, [from |-> Header(f) + 1, to |-> SectionEnd(f), depth |-> 0],
                       [d \in 1 .. Len(path) - 1 |-> d])
    IN  SubSeq(f, 1, at.to - 1) \o SubSeq(NewKeyLines(path, val), at.depth + 1, Len(path))
            \o SubSeq(f, at.to, Len(f))

\* A file that is missing is made by the caller, as one without a line.
UpsertSetting(f, path, val) ==
    IF Header(f) = 0 THEN f \o <<Line(0, SettingsKey, Nested)>> \o NewKeyLines(path, val)
    ELSE IF path \in DOMAIN KeyLineIndex(f) THEN [f EXCEPT ![KeyLineIndex(f)[path]].val = val]
    ELSE InsertNestedKey(f, path, val)

-----------------------------------------------------------------------------
(* nvspFrontend_saveVoiceProfileSliders: one walk over phonemes.yaml, as   *)
(* the locals of the loop; sliders is a function from keys to values.      *)

StartWalk ==
    [in |-> FALSE, target |-> FALSE, tone |-> FALSE, found |-> FALSE, hasTone |-> FALSE,
     profInd |-> 0, toneInd |-> 0, contInd |-> 0, written |-> {}, out |-> <<>>]

PushLine(w, l) == [w EXCEPT !.out = Append(@, l)]

WriteAllSliders(w, sliders, ind) ==
    LET rest == SetToSeq(DOMAIN sliders \ w.written) IN
    [w EXCEPT !.written = DOMAIN sliders,
              !.out = @ \o [i \in DOMAIN rest |-> Line(ind, rest[i], sliders[rest[i]])]]

AddToneBlock(w, sliders, ind) ==
    WriteAllSliders([PushLine(w, Line(ind, VoicingToneKey, Nested)) EXCEPT !.hasTone = TRUE],
                    sliders, ind + 2)

LeaveTone(w, sliders) ==
    [WriteAllSliders(w, sliders, IF w.contInd # 0 THEN w.contInd ELSE w.toneInd + 2)
        EXCEPT !.tone = FALSE]

ProfileIndent(w) == IF w.profInd # 0 THEN w.profInd ELSE 2

\* Whatever the profile still lacks, before what follows it.
CloseProfile(w, sliders) ==
    IF w.target /\ ~w.hasTone THEN AddToneBlock(w, sliders, ProfileIndent(w) + 2)
    ELSE IF w.tone THEN LeaveTone(w, sliders) ELSE w

\* A line in the first column, comments too, ends the section or begins it.
AtRoot(w, l, sliders) ==
    IF l.ind > 0 THEN w
    ELSE IF l.key = VoiceProfilesKey
        THEN [w EXCEPT !.in = TRUE, !.profInd = 0, !.target = FALSE, !.tone = FALSE]
    ELSE IF w.in THEN [CloseProfile(w, sliders) EXCEPT !.in = FALSE, !.target = FALSE]
    ELSE w

\* The line of a profile; the first block of the section tells how deep those are.
AtProfile(w, l, profile, sliders) ==
    LET v == IF w.profInd = 0 /\ l.val = Nested THEN [w EXCEPT !.profInd = l.ind] ELSE w IN
    IF l.ind # v.profInd \/ l.ind = 0 THEN v
    ELSE IF l.key = profile
        THEN [v EXCEPT !.target = TRUE, !.found = TRUE, !.tone = FALSE, !.hasTone = FALSE,
                       !.toneInd = 0, !.written = {}]
    ELSE IF v.target
        THEN [CloseProfile(v, sliders) EXCEPT !.target = FALSE, !.tone = FALSE]
    ELSE v

AtSibling(w, l, sliders) ==
    IF l.key \in SiblingKeys /\ l.ind = w.profInd + 2 THEN CloseProfile(w, sliders) ELSE w

\* A slider's line is replaced where it is, the first time; others are kept.
AtToneKey(w, l, sliders) ==
    LET v == IF w.contInd = 0 THEN [w EXCEPT !.contInd = l.ind] ELSE w IN
    IF l.key \notin DOMAIN sliders THEN PushLine(v, l)
    ELSE IF l.key \in v.written THEN v
    ELSE [PushLine(v, Line(l.ind, l.key, sliders[l.key])) EXCEPT !.written = @ \cup {l.key}]

InProfile(w, l, sliders) ==
    LET s == AtSibling(w, l, sliders) IN
    IF l.key = VoicingToneKey /\ ~w.tone
        THEN [PushLine(w, l) EXCEPT !.tone = TRUE, !.hasTone = TRUE, !.toneInd = l.ind, !.contInd = 0]
    ELSE IF s.tone /\ l.ind > s.toneInd THEN AtToneKey(s, l, sliders)
    ELSE PushLine(IF s.tone THEN LeaveTone(s, sliders) ELSE s, l)

WalkLine(w, l, profile, sliders) ==
    LET r == AtRoot(w, l, sliders)
        p == IF r.in THEN AtProfile(r, l, profile, sliders) ELSE r
    IN  IF p.in /\ p.target /\ l.ind > p.profInd THEN InProfile(p, l, sliders) ELSE PushLine(p, l)

NewProfile(f, profile, sliders) ==
    LET keys == SetToSeq(DOMAIN sliders) IN
    (IF \E i \in DOMAIN f : f[i].ind = 0 /\ f[i].key = VoiceProfilesKey THEN <<>>
     ELSE <<Line(0, VoiceProfilesKey, Nested)>>)
        \o <<Line(2, profile, Nested), Line(4, VoicingToneKey, Nested)>>
        \o [i \in DOMAIN keys |-> Line(6, keys[i], sliders[keys[i]])]

SaveVoiceProfileSliders(f, profile, sliders) ==
    LET walked == FoldLeft(LAMBDA acc, l : WalkLine(acc, l, profile, sliders), StartWalk, f)
        w      == CloseProfile(walked, sliders)
    IN  IF w.found THEN w.out ELSE w.out \o NewProfile(f, profile, sliders)
===============================================================================
