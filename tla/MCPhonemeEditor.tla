--------------------------- MODULE MCPhonemeEditor ---------------------------
(***************************************************************************)
(* Two directories and two languages; the second directory has one         *)
(* language, or phonemes that cannot be parsed, and the languages of the   *)
(* first may not be parsed either.                                         *)
(***************************************************************************)
EXTENDS PhonemeEditor, TLC

Dir(phonemes, first, second) ==
    [phon |-> phonemes, voices |-> {}, lang |-> 1 :> first @@ 2 :> second,
     dict |-> [l \in Langs |-> [type \in Types |-> {}]]]

MCRoots == {"here", "there"}
MCLangs == {1, 2}
MCInitDisks ==
    {"here" :> Dir({}, {}, {}) @@ "there" :> Dir({}, {}, None),
     "here" :> Dir({}, Broken, {}) @@ "there" :> Dir(Broken, {}, {})}
=============================================================================
