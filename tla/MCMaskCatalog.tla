---------------------------- MODULE MCMaskCatalog ----------------------------
(***************************************************************************)
(* An instance of MaskCatalog for TLC: the code's own alphabets and        *)
(* numbers, and what agents pass: an address whose local part is too short *)
(* for FF1, a number that is just long enough, and NULL.                   *)
(***************************************************************************)
EXTENDS MaskCatalog, SmallEngine

RealChar == Range(RealALNUM) \cup {"-", "@", ".", "*", "+"}

AgentTexts ==
    {Chars(string) : string \in {"+al@x.y", "123-456"}}
    \cup {NULL}

(* Keys are literals like any other.                                       *)
EmptyWord == Word("")
WordFf1(key, radix, nums, forward) == ToyFf1(Len(key.word), radix, nums, forward)
WordHmac(key, value) == ToyHmac(Len(key.word), value)
=============================================================================
