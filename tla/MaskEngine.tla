----------------------------- MODULE MaskEngine -----------------------------
(***************************************************************************)
(* The masking engine (crates/mask-worker/src/mask.rs): format-preserving  *)
(* encryption, tokens and redaction as pure operators on values.           *)
(*                                                                         *)
(* A value is a sequence of characters, a key and a name are opaque.  The  *)
(* two primitives the engine calls and does not define, FF1 and HMAC, are  *)
(* constant operators.  The numbers the code fixes (the alphabets, 10^6,   *)
(* the 16 digits of a card, the 4 characters redaction keeps) are          *)
(* parameters, so that TLC can check both the code's own numbers and       *)
(* instances small enough to enumerate every value.                        *)
(***************************************************************************)
EXTENDS Integers, Sequences, FiniteSets, Outcomes

CONSTANTS
    Char,              \* the characters a value may hold
    DIGITS, ALNUM,     \* the alphabets: sequences of distinct characters
    Bytes(_),          \* the bytes a character takes in UTF-8
    At,                \* the character that ends the local part of an address
    Star,              \* the character redaction writes
    NULL,              \* the SQL NULL
    EmptyKey,          \* the empty key string
    MIN_DOMAIN,        \* FF1 refuses a domain radix^len below it
    PAN_LEN,           \* digits of a payment card number
    KEEP,              \* characters last4 and first4 keep
    Ff1(_, _, _, _),   \* FF1 of (key, radix, numerals, forward): `fpe` crate
    Hmac(_, _)         \* HMAC-SHA-256 of (key, value), as its 32 hex digits

Value == Seq(Char)

ASSUME NullAssumption == NULL \notin Value

Symbols(alphabet) == {alphabet[i] : i \in DOMAIN alphabet}

IsAlphabet(alphabet) ==
    /\ alphabet \in Seq(Symbols(alphabet))
    /\ Len(alphabet) > 1
    /\ \A i, j \in DOMAIN alphabet : alphabet[i] = alphabet[j] => i = j

(* The smallest n with radix^n >= MIN_DOMAIN.  The engine multiplies in    *)
(* u128 and saturates, so the power cannot wrap.                           *)
InDomain(radix, n) == radix^n >= MIN_DOMAIN

min_len_for_radix(radix) ==
    CHOOSE n \in 0..MIN_DOMAIN :
        InDomain(radix, n) /\ \A m \in 0..(n - 1) : ~InDomain(radix, m)

(* What the code fixes about the alphabets and the numbers.                *)
ASSUME AlphabetAssumption ==
    /\ IsAlphabet(DIGITS) /\ IsAlphabet(ALNUM)
    /\ Symbols(DIGITS) \subseteq Symbols(ALNUM)
    /\ Symbols(ALNUM) \cup {At, Star} \subseteq Char
    /\ {At, Star} \cap Symbols(ALNUM) = {}
    /\ At # Star

ASSUME BytesAssumption == \A c \in Char : Bytes(c) \in 1..4

ASSUME NumberAssumption ==
    /\ MIN_DOMAIN \in Nat \ {0} /\ PAN_LEN \in Nat \ {0} /\ KEEP \in Nat \ {0}
    /\ \A radix \in {Len(DIGITS), Len(ALNUM)} :
          /\ min_len_for_radix(radix) \in 0..MIN_DOMAIN
          /\ InDomain(radix, min_len_for_radix(radix))
    /\ min_len_for_radix(Len(DIGITS)) < PAN_LEN

-----------------------------------------------------------------------------
(* Result<_, MaskError>: its errors, and those of the Arrow layer.         *)

ErrorKinds == {"NotVarchar", "UnknownFormat", "UnknownMode", "EmptyKey", "Fpe"}

-----------------------------------------------------------------------------
(* FPE over an alphabet.                                                   *)

value_of(alphabet, c) == (CHOOSE i \in DOMAIN alphabet : alphabet[i] = c) - 1
symbol_of(alphabet, v) == alphabet[v + 1]

(* The positions whose character belongs to the alphabet; the others are   *)
(* structural.  The k-th of them, left to right, is slot k.                *)
Positions(value, alphabet) ==
    {i \in DOMAIN value : value[i] \in Symbols(alphabet)}
Slot(P, i) == Cardinality({j \in P : j <= i})
AtSlot(P, s) == CHOOSE i \in P : Slot(P, i) = s

Numerals(value, alphabet) ==
    LET P == Positions(value, alphabet)
    IN  [s \in 1..Cardinality(P) |-> value_of(alphabet, value[AtSlot(P, s)])]

(* Mutated Splice: the structural characters are dropped.                  *)
SpliceCompact(value, alphabet, nums) ==
    [s \in 1..Cardinality(Positions(value, alphabet)) |-> symbol_of(alphabet, nums[s])]

(* value with the characters of its slots replaced by the numerals nums.   *)
Splice(value, alphabet, nums) ==
    LET P == Positions(value, alphabet)
    IN  [i \in DOMAIN value |-> IF i \in P
                                THEN symbol_of(alphabet, nums[Slot(P, i)])
                                ELSE value[i]]

(* FF1 refuses numerals whose domain is too small.  Some prefix being long *)
(* enough is the same as the whole being long enough, and keeps the powers *)
(* TLC computes small.                                                     *)
ff1_apply(key, radix, nums, forward) ==
    IF \E n \in 0..Len(nums) : InDomain(radix, n)
    THEN Ok(Ff1(key, radix, nums, forward))
    ELSE Err("Fpe")

(* Mutated fpe_over_alphabet: the minimum of one alphabet serves for both. *)
FpeOneMinimum(key, value, alphabet, forward) ==
    LET nums == Numerals(value, alphabet)
        transformed == ff1_apply(key, Len(alphabet), nums, forward)
    IN  CASE Len(nums) < min_len_for_radix(Len(ALNUM)) -> Ok(value)
          [] OTHER -> IF IsOk(transformed)
                      THEN Ok(Splice(value, alphabet, transformed.val))
                      ELSE transformed

fpe_over_alphabet(key, value, alphabet, forward) ==
    LET nums == Numerals(value, alphabet)
        transformed == ff1_apply(key, Len(alphabet), nums, forward)
    IN  CASE Len(nums) < min_len_for_radix(Len(alphabet)) -> Ok(value)
          [] OTHER -> IF IsOk(transformed)
                      THEN Ok(Splice(value, alphabet, transformed.val))
                      ELSE transformed

-----------------------------------------------------------------------------
(* The card profile.                                                       *)

(* Mutated LuhnWeight: the rightmost digit of the payload is not doubled.  *)
LuhnWeightShifted(payload, i) ==
    LET d == payload[i]
        nine == Len(DIGITS) - 1
        doubled == IF 2 * d <= nine THEN 2 * d ELSE 2 * d - nine
    IN  IF (Len(payload) - i) % 2 = 0 THEN d ELSE doubled

(* What digit i of a payload adds to the Luhn sum: every second digit is   *)
(* doubled, starting from the rightmost, and a doubled digit that carries  *)
(* counts as the sum of its two digits.                                    *)
LuhnWeight(payload, i) ==
    LET d == payload[i]
        nine == Len(DIGITS) - 1
        doubled == IF 2 * d <= nine THEN 2 * d ELSE 2 * d - nine
    IN  IF (Len(payload) - i) % 2 = 1 THEN d ELSE doubled

(* The sum of the weights, counted in unary: a set TLAPS can bound.        *)
LuhnSum(payload) ==
    Cardinality({u \in (DOMAIN payload) \X (1..Len(DIGITS)) :
                    u[2] <= LuhnWeight(payload, u[1])})

(* Mutated luhn_check_digit: the sum itself, not what completes it.        *)
CheckDigitIsSum(payload) == LuhnSum(payload) % Len(DIGITS)

luhn_check_digit(payload) ==
    (Len(DIGITS) - (LuhnSum(payload) % Len(DIGITS))) % Len(DIGITS)

(* char_indices: the byte offset of a character; and the characters of the *)
(* slice value[..offset].                                                  *)
ByteOffset(value, i) ==
    Cardinality({b \in (1..(i - 1)) \X (1..4) : b[2] <= Bytes(value[b[1]])})
CharsBefore(value, offset) ==
    Cardinality({j \in DOMAIN value : ByteOffset(value, j) < offset})

(* Mutated CharIndex: the byte offset is taken for the character's index.  *)
OffsetAsIndex(value, offset) == offset + 1

CharIndex(value, offset) == CharsBefore(value, offset) + 1

(* The new digits at the character indices of their byte offsets: as pairs *)
(* of a slot and its index.                                                *)
SpliceBytes(value, nums) ==
    LET P == Positions(value, DIGITS)
        Indices == {<<s, CharIndex(value, ByteOffset(value, AtSlot(P, s)))>> :
                       s \in 1..Cardinality(P)}
    IN  [i \in DOMAIN value |->
            IF \E u \in Indices : u[2] = i
            THEN symbol_of(DIGITS, nums[(CHOOSE u \in Indices : u[2] = i)[1]])
            ELSE value[i]]

(* Mutated fpe_card: all digits are encrypted, then the last overwritten;  *)
(* the number is written without its separators.                           *)
CardEncryptsAll(key, value, forward) ==
    LET nums == Numerals(value, DIGITS)
        head == SubSeq(Ff1(key, Len(DIGITS), nums, forward), 1, PAN_LEN - 1)
    IN  IF Len(nums) # PAN_LEN THEN fpe_over_alphabet(key, value, DIGITS, forward)
        ELSE Ok(SpliceBytes(value, Append(head, luhn_check_digit(head))))

CardDropsSeparators(key, value, forward) ==
    LET nums == Numerals(value, DIGITS)
        head == Ff1(key, Len(DIGITS), SubSeq(nums, 1, PAN_LEN - 1), forward)
        digits == Append(head, luhn_check_digit(head))
    IN  IF Len(nums) # PAN_LEN THEN fpe_over_alphabet(key, value, DIGITS, forward)
        ELSE Ok([s \in 1..PAN_LEN |-> symbol_of(DIGITS, digits[s])])

(* The first PAN_LEN - 1 digits are encrypted, the last one is recomputed, *)
(* in both directions.                                                     *)
fpe_card(key, value, forward) ==
    LET nums == Numerals(value, DIGITS)
        head == SubSeq(nums, 1, PAN_LEN - 1)
        transformed == ff1_apply(key, Len(DIGITS), head, forward)
        NewDigits(t) == Append(t, luhn_check_digit(t))
    IN  CASE Len(nums) # PAN_LEN -> fpe_over_alphabet(key, value, DIGITS, forward)
          [] OTHER -> IF IsOk(transformed)
                      THEN Ok(SpliceBytes(value, NewDigits(transformed.val)))
                      ELSE transformed

-----------------------------------------------------------------------------
(* The email profile.                                                      *)

(* rsplit_once('@'): the position of the last @, or 0.                     *)
LastAt(value) ==
    IF At \notin Symbols(value) THEN 0
    ELSE CHOOSE i \in DOMAIN value :
            value[i] = At /\ \A j \in (i + 1)..Len(value) : value[j] # At

Local(value) == SubSeq(value, 1, LastAt(value) - 1)
(* Mutated AtDomain: the @ is not put back.                                *)
DomainAlone(value) == SubSeq(value, LastAt(value) + 1, Len(value))
AtDomain(value) == SubSeq(value, LastAt(value), Len(value))
HasDomain(value) == LastAt(value) \in 1..(Len(value) - 1)

(* Mutated fpe_email: the domain is encrypted as the local part is, which  *)
(* unmasking undoes.                                                       *)
EmailEncryptsDomain(key, value, forward) ==
    LET Enc(part) == fpe_over_alphabet(key, part, ALNUM, forward)
    IN  CASE ~HasDomain(value) -> Enc(value)
          [] OTHER -> Ok(Enc(Local(value)).val \o <<At>> \o Enc(DomainAlone(value)).val)

fpe_email(key, value, forward) ==
    LET enc_local == fpe_over_alphabet(key, Local(value), ALNUM, forward)
    IN  CASE ~HasDomain(value) -> fpe_over_alphabet(key, value, ALNUM, forward)
          [] OTHER -> IF IsOk(enc_local)
                      THEN Ok(enc_local.val \o AtDomain(value))
                      ELSE enc_local

-----------------------------------------------------------------------------
(* Profiles and modes.  A name is a word and a spelling (its case and the  *)
(* blanks around it); trim and to_ascii_lowercase leave the word.          *)

Formats == {"Digits", "Alnum", "Card", "Ssn", "Email"}
Modes == {"Last4", "First4", "Email", "All"}
FormatNames == {"digits", "alnum", "card", "ssn", "email"}
ModeNames == {"last4", "first4", "email", "all"}

Normalised(name) == name.word

FormatParse(name) ==
    LET word == Normalised(name)
    IN  CASE word \in {"digits", "digit"}       -> Ok("Digits")
          [] word \in {"alnum", "alphanumeric"} -> Ok("Alnum")
          [] word \in {"card", "pan", "ccn"}    -> Ok("Card")
          [] word = "ssn"                       -> Ok("Ssn")
          [] word \in {"email", "mail"}         -> Ok("Email")
          [] OTHER                              -> Err("UnknownFormat")

ModeParse(name) ==
    LET word == Normalised(name)
    IN  CASE word = "last4"            -> Ok("Last4")
          [] word = "first4"           -> Ok("First4")
          [] word = "email"            -> Ok("Email")
          [] word \in {"all", "full"}  -> Ok("All")
          [] OTHER                     -> Err("UnknownMode")

fpe_dispatch(value, format, key, forward) ==
    CASE format \in {"Digits", "Ssn"} -> fpe_over_alphabet(key, value, DIGITS, forward)
      [] format = "Alnum"             -> fpe_over_alphabet(key, value, ALNUM, forward)
      [] format = "Email"             -> fpe_email(key, value, forward)
      [] format = "Card"              -> fpe_card(key, value, forward)

(* fpe_encrypt and fpe_decrypt: the same guard, the two directions.        *)
fpe_crypt(value, format, key, forward) ==
    IF key = EmptyKey THEN Err("EmptyKey")
    ELSE fpe_dispatch(value, format, key, forward)

token(value, key) ==
    IF key = EmptyKey THEN Err("EmptyKey") ELSE Ok(Hmac(key, value))

-----------------------------------------------------------------------------
(* Redaction keeps the characters of some positions and stars the others.  *)

(* Mutated Kept: the email mode starts its hint one character early.       *)
KeptOneMore(value, mode) ==
    LET n == Len(value)
    IN  CASE mode = "All"    -> {}
          [] mode = "Last4"  -> (n - KEEP + 1)..n
          [] mode = "First4" -> 1..KEEP
          [] mode = "Email"  -> IF HasDomain(value) /\ LastAt(value) > 1
                                THEN {1} \cup ((LastAt(value) - 1)..n)
                                ELSE {}

Kept(value, mode) ==
    LET n == Len(value)
    IN  CASE mode = "All"    -> {}
          [] mode = "Last4"  -> (n - KEEP + 1)..n
          [] mode = "First4" -> 1..KEEP
          [] mode = "Email"  -> IF HasDomain(value) /\ LastAt(value) > 1
                                THEN {1} \cup (LastAt(value)..n)
                                ELSE {}

redact(value, mode) ==
    [i \in DOMAIN value |-> IF i \in Kept(value, mode) THEN value[i] ELSE Star]

=============================================================================
