---------------------------- MODULE MCSapiEngine ----------------------------
(***************************************************************************)
(* SapiEngine for TLC.  xx is a language without an eSpeak voice of its    *)
(* own; the voices differ in language and in profile.  The texts have a    *)
(* mark within a batch, at both ends of one, and before a spelled letter.  *)
(***************************************************************************)
EXTENDS SapiEngine

CONSTANTS xx, beth

MCTokens == {[lang |-> English, voice |-> beth], [lang |-> xx, voice |-> Builtin]}

MCTexts == {<<"text", "mark", "text", "mark">>, <<"mark", "spell", "other", "text">>}
=============================================================================
