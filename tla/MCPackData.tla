------------------------------ MODULE MCPackData ------------------------------
(***************************************************************************)
(* A language and a dialect of it, two words; packs with and without       *)
(* dictionaries of the dialect, user files and an override directory.      *)
(***************************************************************************)
EXTENDS PackData

MCLangs == {"en", "en-us"}
MCBaseOf == "en" :> None @@ "en-us" :> "en"
MCWords == 1..2
MCTexts == {"x"}
MCKeys == {"k"}
MCValues == {1, 2}
MCSearches == {MCWords, {2}}

Line(w, t) == [word |-> w, text |-> t]
NoDicts == [k \in Kinds |-> None]
Yaml(v, rules, skips) ==
    [settings |-> "k" :> v, rules |-> rules, skips |-> skips, phonemes |-> Empty]
Rule(from, to) == [from |-> from, to |-> to]
NoFiles == [lang |-> [n \in Names |-> None], dict |-> [l \in Langs |-> NoDicts],
            user |-> [l \in Langs |-> None]]

\* Every kind has lines; the dialect has none of its own, or a pronunciation.
Bundle(dialect, v) ==
    [lang |-> Default :> Yaml(1, <<Rule("r", "p1"), Rule("s", "p2")>>, {})
              @@ "en" :> Yaml(v, <<Rule("r", "p2")>>, {Rule("r", "p1")}) @@ "en-us" :> None,
     dict |-> "en" :> [k \in Kinds |-> <<Line(1, "a"), Line(2, "b"), Line(1, "c")>>]
              @@ "en-us" :> [NoDicts EXCEPT !["pronounce"] = dialect],
     user |-> "en" :> <<Line(2, "u")>> @@ "en-us" :> None]

Override == [NoFiles EXCEPT !.dict["en-us"] =
                [NoDicts EXCEPT !["compound"] = <<Line(2, "o")>>],
             !.user["en-us"] = <<Line(2, "p")>>]

MCPhonemes == "p1" :> 0 @@ "p2" :> 0

MCInitFiles ==
    {[phonemes |-> MCPhonemes, bundle |-> Bundle(None, 2), override |-> NoFiles],
     [phonemes |-> MCPhonemes, bundle |-> Bundle(<<Line(2, "d")>>, 1), override |-> Override]}
==============================================================================
