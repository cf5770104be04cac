----------------------------- MODULE MCFrameEmit -----------------------------
(***************************************************************************)
(* Sounds of the kinds the passes tell apart, and two packs: English       *)
(* (en-us) ties, flaps, spells, splits its laterals and scores prominence; *)
(* Continental joins what other packs set: the hiatus gap and the trill of *)
(* Spanish (es), and of German (de) the closure before every stop, the     *)
(* geminates and a rule that inserts.                                      *)
(***************************************************************************)
EXTENDS FrameEmit

\* Two vowels, a lateral, a stop, a voiced affricate, a fricative, which is the aspiration
\* as well; a tap and the glottal stop, which only come from rules.
MCFlags ==
    [a |-> {"vowel", "voiced"},
     i |-> {"vowel", "voiced", "offglide", "ish", "reduced"},
     l |-> {"liquid", "voiced"}, r |-> {"voiced", "tap"}, t |-> {"stop"},
     j |-> {"affricate", "voiced"}, h |-> {"fricative"}, q |-> {"stop"}]

Rule ==
    [phonemes |-> {}, flags |-> {}, notFlags |-> {}, position |-> "any", stress |-> "any",
     action |-> "replace", to |-> NoDef, dropsClosure |-> FALSE, dropsAspiration |-> FALSE,
     contexts |-> {}]
Flapping ==
    [Rule EXCEPT !.phonemes = {"t"}, !.position = "intervocalic", !.stress = "next-unstressed",
                 !.to = "r", !.dropsClosure = TRUE]
GlottalReinforcement ==
    [Rule EXCEPT !.flags = {"stop"}, !.notFlags = {"voiced"}, !.position = "word-final",
                 !.action = "insert-before", !.to = "q", !.contexts = {"V_#"}]

English ==
    [aspiration |-> TRUE, hiatusGap |-> FALSE, closure |-> "vowel-and-cluster", clusterGaps |-> TRUE,
     afterNasals |-> FALSE, nasalGap |-> FALSE, taper |-> TRUE, autoTie |-> TRUE,
     spelling |-> "monophthong", rules |-> <<Flapping>>, prominence |-> TRUE,
     functionWords |-> {<<"a">>, <<"i", "t">>}, liquids |-> {"l"}, labials |-> {}, lengths |-> FALSE,
     collapse |-> TRUE, accents |-> "all", clauseFade |-> TRUE, wordFade |-> TRUE, dip |-> TRUE,
     trill |-> FALSE, gap |-> TRUE, skipVowelVowel |-> TRUE, skipVowelLiquid |-> FALSE]
Continental ==
    [English EXCEPT !.aspiration = FALSE, !.hiatusGap = TRUE, !.closure = "always", !.taper = FALSE,
                    !.autoTie = FALSE, !.spelling = "none", !.rules = <<GlottalReinforcement>>,
                    !.prominence = FALSE, !.liquids = {}, !.lengths = TRUE, !.accents = "first_only",
                    !.clauseFade = FALSE, !.dip = FALSE, !.trill = TRUE, !.skipVowelVowel = FALSE]

MCPacks == {English, Continental}
=============================================================================
