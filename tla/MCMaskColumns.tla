---------------------------- MODULE MCMaskColumns ----------------------------
(***************************************************************************)
(* Instances of MaskColumns for TLC.                                       *)
(***************************************************************************)
EXTENDS MaskColumns, SmallEngine, TLC

CONSTANTS t1, t2

Plain(words) == {[word |-> w, spelling |-> "plain"] : w \in words}

-----------------------------------------------------------------------------
(* One table and the small engine.                                         *)

SmallValues(chars, n) == UNION {[1..k -> chars] : k \in 0..n}

(* Every value of up to four of these characters, and cards written with   *)
(* a separator, each in a column of one cell.                              *)
EveryValue == SmallValues({"0", "1", "a", "@"}, 4)
SeparatedCards == {<<a, b, "-", c, d>> : a, b, c, d \in {"0", "1"}}
EveryColumn == {<<v>> : v \in EveryValue \cup SeparatedCards \cup {NULL}}

(* ssn runs the code of digits and is left to the larger instance.         *)
SmallFormats == Plain(FormatNames \ {"ssn"})
FpeCalls == {"mask_fpe", "mask_unfpe"}

-----------------------------------------------------------------------------
(* The code's own engine: its alphabets, 10^6, 16 and 4.                   *)

RealChar == Range(RealALNUM) \cup {"-", " ", "@", ".", "*", "+"}

(* A valid card, plain and with separators; one digit too few and too many *)
(* for a card; 5 and 6 digits, 3 and 4 letters around what FF1 accepts; an *)
(* SSN; addresses with a short local part, with two @ signs, with nothing  *)
(* after the @ and with nothing before it.                                 *)
RealValues == {Chars(string) : string \in
    {"4111111111111111", "4111-1111-1111-1111", "411111111111111",
     "12345", "123456", "Zz9", "aZ0b", "123-45-6789",
     "al@x.com", "alice+7@x.com", "user@home@x.com", "alice@", "@x.com"}}
RealColumns == {<<v>> : v \in RealValues}

(* Every format, some by an alias or in another spelling than documented.  *)
RealFormats == Plain({"card", "ssn", "email", "alphanumeric"}) \cup
    {[word |-> "pan", spelling |-> "PAN"], [word |-> "digits", spelling |-> " Digits "]}

-----------------------------------------------------------------------------
(* Two tables.                                                             *)

Exchange == Permutations(Tables)

(* Cards that differ in the check digit alone, or before it, a card with a *)
(* separator, an address, a local part that is a value of its own, a value *)
(* too short for FF1, and NULL.                                            *)
JoinColumns == {<<v>> : v \in
    {Chars(string) : string \in {"0110", "0111", "1100", "01-10", "0a1@a", "0a1", "1"}}
    \cup {NULL}}
JoinFormats == Plain({"card", "email"})

(* Pairs of values each mode but one tells apart, and values no longer     *)
(* than the hint.                                                          *)
RedactColumns ==
    {<<Chars(string)>> : string \in {"0a-1a", "1a-1a", "0a-1-", "aa@0a", "a0@0a"}}
    \cup {<<Chars("0"), NULL>>}
RedactNames == Plain(ModeNames)
RedactCalls == {"mask_redact", "mask_fpe", "mask_unfpe"}

(* A 16-digit number whose last digit is not its check digit.              *)
WrongCheckDigit == {<<Chars("4111111111111112")>>}
CardFormat == Plain({"card"})

=============================================================================
