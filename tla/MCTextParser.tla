----------------------------- MODULE MCTextParser -----------------------------
(***************************************************************************)
(* English with its dictionaries, and a language that knows no number      *)
(* words.                                                                  *)
(***************************************************************************)
EXTENDS TextParser

MCWords == {"the", "window", "lock", "box", "pop", "corn", "nevil", "june", "oh", "o'clock", "am",
            "a", "m", "st", "nd", "rd", "th", "s", "percent", "point", "colon", "dash"}
Caps == "June" :> "june" @@ "AM" :> "am" @@ "A" :> "a" @@ "M" :> "m"
MCLetters == MCWords \cup DOMAIN Caps \cup ToSet(Ones) \cup ToSet(Teens) \cup ToSet(Tens) \cup {"hundred", "thousand"}
MCLowerOf == [a \in MCLetters |-> IF a \in DOMAIN Caps THEN Caps[a] ELSE a]
MCShort == {"s", "st", "nd", "rd", "th", "oh", "am", "a", "m", "AM", "A", "M"}

V(stress) == [stress |-> stress, weak |-> FALSE]
W == [stress |-> 0, weak |-> TRUE]
Two == {"seven", "twenty", "thirty", "forty", "fifty", "sixty", "seventy", "eighty",
        "ninety", "zero", "hundred", "thousand", "percent", "AM", "o'clock", "nevil"}
MCSyllablesOf ==
    [a \in MCLetters |->
        IF a = "window" THEN <<V(1), V(0)>>
        ELSE IF a \in Two THEN <<V(1), W>> ELSE <<V(IF a \in {"the", "oh"} THEN 0 ELSE 1)>>]

Text(t) == [text |-> t, ipa |-> << >>, masked |-> FALSE]
Ipa(i) == [text |-> << >>, ipa |-> i, masked |-> FALSE]

MCPacks ==
    "en" :> [english |-> TRUE, years |-> TRUE, commaToSpace |-> FALSE, oh |-> <<"oh">>,
             suffixes |-> <<"s">>, numbers |-> TRUE, conjunction |-> << >>, onsets |-> TRUE,
             pron |-> <<"nevil">> :> Ipa(<<V(2), V(1)>>) @@ <<"box">> :> Text(<<"the">>),
             compounds |-> <<"pop", "corn">> :> <<<<"pop">>, <<"corn">>>>,
             stress |-> <<"window">> :> <<0, 1>> @@ <<"lock", "box">> :> <<1, 2>>
                        @@ <<"nevil">> :> <<0, 1>> @@ <<"the">> :> <<0>>]
    @@ "de" :> [english |-> FALSE, years |-> FALSE, commaToSpace |-> TRUE, oh |-> << >>,
             suffixes |-> << >>, numbers |-> FALSE, conjunction |-> << >>, onsets |-> FALSE,
             pron |-> <<"nevil">> :> Ipa(<<V(1)>>) @@ <<"lock">> :> Text(<<"box", " ", "the">>),
             compounds |-> Empty, stress |-> Empty]

MCInPieces == {<<"lock", "box">>}

\* Words that are matched, in threes, and everything else in twos.
Words == {<<"the">>, <<"window">>, <<"lock", "box">>, <<"pop", "corn">>, <<"nevil">>, <<"(">>}
Others == {<<"nevil", ",">>, <<"window", ",">>, <<"1", "9", "0", "8">>, <<"June">>, <<"6">>, <<"6", ":", "0", "3">>,
           <<"1", ",", "2", "0", "0">>, <<"5", "%">>, <<"AM">>, <<"box", "s">>, <<"lock", "-", "box">>}
MCInputTexts ==
    UNION {[1 .. n -> Words] : n \in 1 .. 3} \cup [1 .. 2 -> Words \cup Others]
        \cup {<<<<"6">>, <<"colon">>, <<"0", "3">>>>}
==============================================================================
