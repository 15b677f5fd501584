----------------------------- MODULE MCMetaJson -----------------------------
(***************************************************************************)
(* An instance of MetaJson for TLC: lists of up to two of all texts of up  *)
(* to two characters that JSON treats alike or apart: what it escapes, the *)
(* first and the last control character, letters and digits of escapes, a  *)
(* comma and a character beyond ASCII.                                     *)
(***************************************************************************)
EXTENDS MetaJson

Lists(S, most) == UNION {[1..len -> S] : len \in 0..most}

AllTexts ==
    Lists({QUOTE, BACKSLASH, NEWLINE, TAB, RETURN, 0, 31, u, n, 48, COMMA, 128274}, 2)
AllKeywords == Lists(AllTexts, 1) \cup Lists({s \in AllTexts : Len(s) < 2}, 2)
AllExamples ==
    Lists(Lists({QUOTE, BACKSLASH, 31}, 1) \X Lists({QUOTE, BACKSLASH, NEWLINE}, 1), 2)
=============================================================================
