------------------------------ MODULE MetaJson ------------------------------
(***************************************************************************)
(* The JSON documents published in catalog tags (meta.rs), and the reader  *)
(* of a client that takes one in, character by character.  A character is  *)
(* its code point.  The reader knows the lexical rules of JSON and no      *)
(* more: a raw control character ends it, and so does an escape that JSON  *)
(* does not have.                                                          *)
(***************************************************************************)
EXTENDS Integers, SequencesExt

CONSTANTS
    KeywordLists,  \* the lists of keywords that may be published
    ExampleLists   \* the lists of examples: pairs of a description and a
                   \* statement

LAST == 1114111   \* the last code point
CodePoint == 0..LAST

ASSUME ListsAssumption ==
    /\ KeywordLists \subseteq Seq(Seq(CodePoint))
    /\ ExampleLists \subseteq Seq(Seq(CodePoint) \X Seq(CodePoint))

TAB == 9
NEWLINE == 10
RETURN == 13
SPACE == 32
QUOTE == 34
COMMA == 44
COLON == 58
OPEN == 91
BACKSLASH == 92
CLOSE == 93
OPEN_OBJECT == 123
CLOSE_OBJECT == 125
n == 110
r == 114
t == 116
u == 117

-----------------------------------------------------------------------------
(* The writer.                                                             *)

(* The control characters without an escape of their own.                 *)
Control == (0..31) \ {NEWLINE, RETURN, TAB}

HexDigit(d) == IF d < 10 THEN 48 + d ELSE 87 + d

(* Mutated Escaped: the backslash is left as it is, control characters     *)
(* are, and their number is written without padding.                       *)
BackslashKept(c) ==
    CASE c = QUOTE     -> <<BACKSLASH, QUOTE>>
      [] c = NEWLINE   -> <<BACKSLASH, n>>
      [] c = RETURN    -> <<BACKSLASH, r>>
      [] c = TAB       -> <<BACKSLASH, t>>
      [] c \in Control -> <<BACKSLASH, u, 48, 48, HexDigit(c \div 16), HexDigit(c % 16)>>
      [] OTHER         -> <<c>>

ControlKept(c) ==
    CASE c = QUOTE     -> <<BACKSLASH, QUOTE>>
      [] c = BACKSLASH -> <<BACKSLASH, BACKSLASH>>
      [] OTHER         -> <<c>>

(* "\u{:04x}" of a number below 0x20 has two zeros and two more digits.    *)
Escaped(c) ==
    CASE c = QUOTE     -> <<BACKSLASH, QUOTE>>
      [] c = BACKSLASH -> <<BACKSLASH, BACKSLASH>>
      [] c = NEWLINE   -> <<BACKSLASH, n>>
      [] c = RETURN    -> <<BACKSLASH, r>>
      [] c = TAB       -> <<BACKSLASH, t>>
      [] c \in Control -> <<BACKSLASH, u, 48, 48, HexDigit(c \div 16), HexDigit(c % 16)>>
      [] OTHER         -> <<c>>

json_escape(s) == FlattenSeq([i \in DOMAIN s |-> Escaped(s[i])])

Quoted(s) == <<QUOTE>> \o json_escape(s) \o <<QUOTE>>

(* Mutated keywords_json: the first keyword has its comma too.             *)
CommaBeforeFirst(keywords) ==
    <<OPEN>> \o FlattenSeq([i \in DOMAIN keywords |->
                   <<COMMA, SPACE>> \o Quoted(keywords[i])])
             \o <<CLOSE>>

keywords_json(keywords) ==
    <<OPEN>> \o FlattenSeq([i \in DOMAIN keywords |->
                   (IF i > 1 THEN <<COMMA, SPACE>> ELSE <<>>) \o Quoted(keywords[i])])
             \o <<CLOSE>>

description == <<100, 101, 115, 99, 114, 105, 112, 116, 105, 111, 110>>
sql == <<115, 113, 108>>

(* Each example is a pair of a description and a statement.                *)
example_queries_json(examples) ==
    <<OPEN>> \o FlattenSeq([i \in DOMAIN examples |->
                   (IF i > 1 THEN <<COMMA>> ELSE <<>>)
                   \o <<NEWLINE, SPACE, SPACE, OPEN_OBJECT>>
                   \o Quoted(description) \o <<COLON, SPACE>> \o Quoted(examples[i][1])
                   \o <<COMMA, SPACE>>
                   \o Quoted(sql) \o <<COLON, SPACE>> \o Quoted(examples[i][2])
                   \o <<CLOSE_OBJECT>>])
             \o <<NEWLINE, CLOSE>>

-----------------------------------------------------------------------------
(* The reader.                                                             *)

VARIABLES
    document,   \* the published tag
    meant,      \* what was published: the tokens of the document
    at,         \* characters read
    mode,       \* "out" of a string, "in" one, in an "escape" or in "hex"
    hex,        \* the digits of a \u escape, as numbers
    text,       \* the string being read
    tokens      \* what has been read: punctuation and strings

vars == <<document, meant, at, mode, hex, text, tokens>>

Mark(c) == [mark |-> c]
String(s) == [string |-> s]

KeywordTokens(keywords) ==
    <<Mark(OPEN)>> \o FlattenSeq([i \in DOMAIN keywords |->
                         (IF i > 1 THEN <<Mark(COMMA)>> ELSE <<>>) \o <<String(keywords[i])>>])
                   \o <<Mark(CLOSE)>>

ExampleTokens(examples) ==
    <<Mark(OPEN)>> \o FlattenSeq([i \in DOMAIN examples |->
                         (IF i > 1 THEN <<Mark(COMMA)>> ELSE <<>>)
                         \o <<Mark(OPEN_OBJECT), String(description), Mark(COLON),
                              String(examples[i][1]), Mark(COMMA), String(sql), Mark(COLON),
                              String(examples[i][2]), Mark(CLOSE_OBJECT)>>])
                   \o <<Mark(CLOSE)>>

Init ==
    /\ \/ \E keywords \in KeywordLists :
             /\ document = keywords_json(keywords)
             /\ meant = KeywordTokens(keywords)
       \/ \E examples \in ExampleLists :
             /\ document = example_queries_json(examples)
             /\ meant = ExampleTokens(examples)
    /\ at = 0 /\ mode = "out"
    /\ hex = <<>> /\ text = <<>> /\ tokens = <<>>

Here == document[at + 1]

Read(m) ==
    /\ mode = m /\ at < Len(document)
    /\ at' = at + 1
    /\ UNCHANGED <<document, meant>>

Blank ==
    /\ Read("out") /\ Here \in {SPACE, TAB, NEWLINE, RETURN}
    /\ UNCHANGED <<mode, hex, text, tokens>>

Punctuation ==
    /\ Read("out")
    /\ Here \in {OPEN, CLOSE, OPEN_OBJECT, CLOSE_OBJECT, COMMA, COLON}
    /\ tokens' = Append(tokens, Mark(Here))
    /\ UNCHANGED <<mode, hex, text>>

OpenQuote ==
    /\ Read("out") /\ Here = QUOTE
    /\ mode' = "in" /\ text' = <<>>
    /\ UNCHANGED <<hex, tokens>>

CloseQuote ==
    /\ Read("in") /\ Here = QUOTE
    /\ mode' = "out" /\ tokens' = Append(tokens, String(text))
    /\ UNCHANGED <<hex, text>>

Plain ==
    /\ Read("in") /\ Here \notin {QUOTE, BACKSLASH} /\ Here >= SPACE
    /\ text' = Append(text, Here)
    /\ UNCHANGED <<mode, hex, tokens>>

OpenEscape ==
    /\ Read("in") /\ Here = BACKSLASH
    /\ mode' = "escape" /\ hex' = <<>>
    /\ UNCHANGED <<text, tokens>>

(* The escapes of one letter, and the character each stands for.           *)
Short ==
    [c \in {QUOTE, BACKSLASH, 47, 98, 102, n, r, t} |->
        CASE c = 98 -> 8 [] c = 102 -> 12
          [] c = n -> NEWLINE [] c = r -> RETURN [] c = t -> TAB
          [] OTHER -> c]

ShortEscape ==
    /\ Read("escape") /\ Here \in DOMAIN Short
    /\ mode' = "in" /\ text' = Append(text, Short[Here])
    /\ UNCHANGED <<hex, tokens>>

LongEscape ==
    /\ Read("escape") /\ Here = u
    /\ mode' = "hex"
    /\ UNCHANGED <<hex, text, tokens>>

DigitOf(c) == CHOOSE d \in 0..15 : c = HexDigit(d)

Number(digits) == 4096 * digits[1] + 256 * digits[2] + 16 * digits[3] + digits[4]

HexEscape ==
    /\ Read("hex") /\ \E d \in 0..15 : Here = HexDigit(d)
    /\ hex' = Append(hex, DigitOf(Here))
    /\ IF Len(hex') < 4 THEN UNCHANGED <<mode, text>>
       ELSE /\ mode' = "in"
            /\ text' = Append(text, Number(hex'))
    /\ UNCHANGED tokens

Next == \/ Blank \/ Punctuation \/ OpenQuote \/ CloseQuote \/ Plain
        \/ OpenEscape \/ ShortEscape \/ LongEscape \/ HexEscape

Spec == Init /\ [][Next]_vars
FairSpec == Spec /\ WF_vars(Next)

-----------------------------------------------------------------------------

TypeOK ==
    /\ document \in Seq(CodePoint) /\ at \in 0..Len(document)
    /\ mode \in {"out", "in", "escape", "hex"}
    /\ hex \in UNION {[1..d -> 0..15] : d \in 0..4}
    /\ text \in Seq(CodePoint)
    /\ Len(tokens) <= Len(meant)

(* At every character the reader has what was published so far, and of the *)
(* string it is in the beginning: no quote, backslash or control character *)
(* of a text ends the string early or becomes another.                     *)
ReadSoFar ==
    /\ IsPrefix(tokens, meant)
    /\ mode # "out" => /\ Len(tokens) < Len(meant)
                       /\ LET due == meant[Len(tokens) + 1]
                          IN  "string" \in DOMAIN due /\ IsPrefix(text, due.string)

(* The reader gets through every published document and ends up with all   *)
(* that was published (VGI138, VGI515: the tags are JSON).                 *)
PublishedIsRead == <>(at = Len(document) /\ mode = "out" /\ tokens = meant)
=============================================================================
