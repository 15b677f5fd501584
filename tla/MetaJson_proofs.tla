--------------------------- MODULE MetaJson_proofs ---------------------------
(***************************************************************************)
(* Proofs about the JSON documents of meta.rs, for every list of texts:    *)
(* the reader of a client has at every character what was published so     *)
(* far, and at the end of a document all of it.                            *)
(***************************************************************************)
EXTENDS MetaJson, SequenceTheorems, WellFoundedInduction, TLAPS

-----------------------------------------------------------------------------
(* Induction, and what FlattenSeq does at each element.                    *)

(* What holds of 0, and of each number if it holds of the one before, holds *)
(* up to the last, by the least number it would not hold of.               *)
LEMMA UpTo ==
    ASSUME NEW last \in Nat, NEW S, 0 \in S, \A i \in 1..last : i - 1 \in S => i \in S
    PROVE  \A i \in 0..last : i \in S
<1> SUFFICES ASSUME NEW k \in 0..last, k \notin S
             PROVE  FALSE
    OBVIOUS
<1> DEFINE R == (0..last) \ S
<1>1. R \in SUBSET Nat /\ R # {}
    OBVIOUS
<1>2. \E x \in R : \A y \in R : ~(<<y, x>> \in OpToRel(<, Nat))
    BY <1>1, NatLessThanWellFounded, WFMin
<1>3. \A x, y \in Nat : <<x, y>> \in OpToRel(<, Nat) <=> x < y
    BY DEF OpToRel
<1>4. PICK x \in R : \A y \in R : ~(y < x)
    BY <1>1, <1>2, <1>3
<1>5. x \in 1..last /\ x - 1 \notin R
    BY <1>4
<1>6. QED
    BY <1>4, <1>5

(* The function in FlattenSeq, up to an element.                           *)
Flattens(seqs, last, f) ==
    f = [i \in 1..last |-> IF i = 1 THEN seqs[i] ELSE f[i-1] \o seqs[i]]

LEMMA FlattenExists ==
    ASSUME NEW seqs, NEW last \in Nat
    PROVE  \E f : Flattens(seqs, last, f)
<1> DEFINE S == {j \in 0..last : \E f : Flattens(seqs, j, f)}
<1>1. 0 \in S
    <2>1. Flattens(seqs, 0, <<>>)
        BY DEF Flattens
    <2>2. QED BY <2>1
<1>2. ASSUME NEW j \in 1..last, j - 1 \in S
      PROVE  j \in S
    <2>1. PICK f : Flattens(seqs, j - 1, f)
        BY <1>2
    <2> DEFINE g == [i \in 1..j |-> IF i = 1 THEN seqs[i] ELSE f[i-1] \o seqs[i]]
    <2>2. DOMAIN f = 1..(j - 1)
        BY <2>1 DEF Flattens
    <2>3. \A i \in 1..(j - 1) : f[i] = g[i]
        <3>1. \A i \in 1..(j - 1) : f[i] = IF i = 1 THEN seqs[i] ELSE f[i-1] \o seqs[i]
            BY <2>1 DEF Flattens
        <3>2. QED BY <3>1
    <2>4. \A i \in 1..j : i # 1 => f[i-1] = g[i-1]
        <3> HIDE DEF g
        <3>1. QED BY <2>3
    <2>5. g = [i \in 1..j |-> IF i = 1 THEN seqs[i] ELSE g[i-1] \o seqs[i]]
        <3>1. \A i \in 1..j : g[i] = IF i = 1 THEN seqs[i] ELSE f[i-1] \o seqs[i]
            OBVIOUS
        <3>2. DOMAIN g = 1..j /\ g = [i \in 1..j |-> g[i]]
            OBVIOUS
        <3> HIDE DEF g
        <3>3. \A i \in 1..j : g[i] = IF i = 1 THEN seqs[i] ELSE g[i-1] \o seqs[i]
            BY <3>1, <2>4
        <3>4. QED BY <3>2, <3>3
    <2>6. Flattens(seqs, j, g)
        BY <2>5 DEF Flattens
    <2>7. QED BY <2>6
<1>3. last \in S
    <2> HIDE DEF S
    <2>1. QED BY <1>1, <1>2, UpTo
<1>4. QED
    BY <1>3

(* A flattened list begins empty and gets one element after the other.     *)
LEMMA FlattenSteps ==
    ASSUME NEW A, NEW seqs \in Seq(Seq(A))
    PROVE  \E F \in [0..Len(seqs) -> Seq(A)] :
              /\ F[0] = <<>> /\ F[Len(seqs)] = FlattenSeq(seqs)
              /\ \A i \in 1..Len(seqs) : F[i] = F[i-1] \o seqs[i]
<1> DEFINE last == Len(seqs)
<1>1. last \in Nat /\ \A i \in 1..last : seqs[i] \in Seq(A)
    BY ElementOfSeq
<1>2. PICK f : Flattens(seqs, last, f) /\ (last # 0 => f[last] = FlattenSeq(seqs))
    <2>1. \E f : f = [i \in 1..Len(seqs) |-> IF i = 1 THEN seqs[i] ELSE f[i-1] \o seqs[i]]
        BY <1>1, FlattenExists DEF Flattens
    <2>2. QED BY <2>1 DEF FlattenSeq, Flattens
<1> HIDE DEF last
<1>3. \A i \in 1..last : f[i] = IF i = 1 THEN seqs[i] ELSE f[i-1] \o seqs[i]
    BY <1>2 DEF Flattens
<1> DEFINE F == [i \in 0..last |-> IF i = 0 THEN <<>> ELSE f[i]]
           S == {i \in 0..last : F[i] \in Seq(A)}
<1>4. F[0] = <<>> /\ \A i \in 1..last : F[i] = f[i]
    BY <1>1
<1>5. \A i \in 1..last : F[i-1] = IF i = 1 THEN <<>> ELSE f[i-1]
    BY <1>1
<1>6. ASSUME NEW i \in 1..last
      PROVE  F[i] = F[i-1] \o seqs[i]
    <2> HIDE DEF F
    <2>1. CASE i = 1
        <3>1. <<>> \o seqs[i] = seqs[i]
            BY <1>1, ConcatEmptySeq
        <3>2. QED BY <1>3, <1>4, <1>5, <2>1, <3>1
    <2>2. CASE i # 1
        BY <1>3, <1>4, <1>5, <2>2
    <2>3. QED BY <2>1, <2>2
<1>7. 0 \in S
    BY <1>1, <1>4
<1>8. ASSUME NEW i \in 1..last, i - 1 \in S
      PROVE  i \in S
    <2>1. F[i-1] \in Seq(A) /\ seqs[i] \in Seq(A)
        BY <1>1, <1>8
    <2> HIDE DEF F
    <2>2. F[i] \in Seq(A)
        BY <1>6, <2>1, ConcatProperties
    <2>3. QED BY <2>2
<1>9. \A i \in 0..last : F[i] \in Seq(A)
    <2>1. \A i \in 0..last : i \in S
        <3> HIDE DEF S
        <3>1. QED BY <1>1, <1>7, <1>8, UpTo
    <2>2. QED BY <2>1
<1>10. F[last] = FlattenSeq(seqs)
    <2>1. CASE last = 0
        <3>1. seqs = <<>>
            BY <2>1, EmptySeq DEF last
        <3>2. FlattenSeq(seqs) = seqs
            BY <2>1 DEF FlattenSeq, last
        <3>3. QED BY <1>4, <2>1, <3>1, <3>2
    <2>2. CASE last # 0
        BY <1>1, <1>2, <1>4, <2>2
    <2>3. QED BY <2>1, <2>2
<1>11. F \in [0..last -> Seq(A)]
    BY <1>9
<1> HIDE DEF F
<1>12. QED
    BY <1>4, <1>6, <1>10, <1>11 DEF last

-----------------------------------------------------------------------------
(* The reader.                                                             *)

Blanks == {SPACE, TAB, NEWLINE, RETURN}
Marks == {OPEN, CLOSE, OPEN_OBJECT, CLOSE_OBJECT, COMMA, COLON}
Token == {Mark(c) : c \in Marks} \cup {String(s) : s \in Seq(CodePoint)}
Digits == UNION {[1..d -> 0..15] : d \in 0..4}

(* Where a reader is.                                                      *)
Reader(where, digits, part, had) ==
    [mode |-> where, hex |-> digits, text |-> part, tokens |-> had]
Now == Reader(mode, hex, text, tokens)

(* What it does with a character: an action, as a relation of states.      *)
Step(a, c, b) ==
    \/ a.mode = "out" /\ c \in Blanks /\ b = a
    \/ /\ a.mode = "out" /\ c \in Marks
       /\ b = Reader("out", a.hex, a.text, Append(a.tokens, Mark(c)))
    \/ /\ a.mode = "out" /\ c = QUOTE
       /\ b = Reader("in", a.hex, <<>>, a.tokens)
    \/ /\ a.mode = "in" /\ c = QUOTE
       /\ b = Reader("out", a.hex, a.text, Append(a.tokens, String(a.text)))
    \/ /\ a.mode = "in" /\ c \notin {QUOTE, BACKSLASH} /\ c >= SPACE
       /\ b = Reader("in", a.hex, Append(a.text, c), a.tokens)
    \/ /\ a.mode = "in" /\ c = BACKSLASH
       /\ b = Reader("escape", <<>>, a.text, a.tokens)
    \/ /\ a.mode = "escape" /\ c \in DOMAIN Short
       /\ b = Reader("in", a.hex, Append(a.text, Short[c]), a.tokens)
    \/ /\ a.mode = "escape" /\ c = u
       /\ b = Reader("hex", a.hex, a.text, a.tokens)
    \/ /\ a.mode = "hex" /\ \E d \in 0..15 : c = HexDigit(d)
       /\ LET h == Append(a.hex, DigitOf(c))
          IN  b = IF Len(h) < 4 THEN Reader("hex", h, a.text, a.tokens)
                  ELSE Reader("in", h, Append(a.text, Number(h)),
                              a.tokens)

(* Code points are numbers, the first of them among others.                *)
LEMMA CodePoints == CodePoint \subseteq Nat /\ 0..255 \subseteq CodePoint
<1>1. LAST \in Nat /\ LAST >= 255
    BY SMT DEF LAST
<1>2. QED
    BY <1>1 DEF CodePoint

(* The letters of the short escapes, and a digit and its character.        *)
LEMMA EscapeFacts ==
    /\ DOMAIN Short = {QUOTE, BACKSLASH, 47, 98, 102, n, r, t}
    /\ Short[QUOTE] = QUOTE /\ Short[BACKSLASH] = BACKSLASH
    /\ Short[n] = NEWLINE /\ Short[r] = RETURN /\ Short[t] = TAB
    /\ \A d \in 0..15 : HexDigit(d) \in CodePoint /\ DigitOf(HexDigit(d)) = d
<1>1. /\ DOMAIN Short = {QUOTE, BACKSLASH, 47, 98, 102, n, r, t}
      /\ Short[QUOTE] = QUOTE /\ Short[BACKSLASH] = BACKSLASH
      /\ Short[n] = NEWLINE /\ Short[r] = RETURN /\ Short[t] = TAB
    BY DEF Short, QUOTE, BACKSLASH, NEWLINE, RETURN, TAB, n, r, t
<1>2. ASSUME NEW d \in 0..15
      PROVE  HexDigit(d) \in CodePoint /\ DigitOf(HexDigit(d)) = d
    <2>1. \A e \in 0..15 : HexDigit(d) = HexDigit(e) => d = e
        BY DEF HexDigit
    <2>2. HexDigit(d) \in 0..255
        BY DEF HexDigit
    <2>3. QED BY <2>1, <2>2, CodePoints DEF DigitOf
<1>3. QED
    BY <1>1, <1>2

(* A reader knows what to do with a character.                             *)
LEMMA StepUnique ==
    ASSUME NEW a, NEW c, NEW b, Step(a, c, b), NEW d, Step(a, c, d)
    PROVE  b = d
<1> DEFINE h == Append(a.hex, DigitOf(c))
           x == IF Len(h) < 4 THEN Reader("hex", h, a.text, a.tokens)
                ELSE Reader("in", h, Append(a.text, Number(h)),
                            a.tokens)
<1>1. CASE a.mode = "out"
    BY <1>1 DEF Step, Blanks, Marks, SPACE, TAB, NEWLINE, RETURN, QUOTE, COMMA, COLON,
                OPEN, CLOSE, OPEN_OBJECT, CLOSE_OBJECT
<1>2. CASE a.mode = "in"
    BY <1>2 DEF Step, QUOTE, BACKSLASH
<1>3. CASE a.mode = "escape"
    BY <1>3, EscapeFacts DEF Step, QUOTE, BACKSLASH, n, r, t, u
<1>4. CASE a.mode = "hex"
    <2>1. \A y : Step(a, c, y) => y = x
        BY <1>4 DEF Step
    <2> HIDE DEF x
    <2>2. QED BY <2>1
<1>5. QED
    BY <1>1, <1>2, <1>3, <1>4 DEF Step

(* A step of the specification is that of the reader.                      *)
LEMMA NextIsStep ==
    ASSUME Next
    PROVE  /\ at < Len(document) /\ at' = at + 1
           /\ document' = document /\ meant' = meant
           /\ Step(Now, document[at + 1], Now')
<1>1. /\ Now.mode = mode /\ Now.hex = hex /\ Now.text = text /\ Now.tokens = tokens
      /\ Now = Reader(mode, hex, text, tokens)
      /\ Now' = Reader(mode', hex', text', tokens')
    BY DEF Now, Reader
<1> DEFINE Fine == /\ at < Len(document) /\ at' = at + 1
                   /\ document' = document /\ meant' = meant
                   /\ Step(Now, document[at + 1], Now')
<1> HIDE DEF Now
<1>2. CASE Blank
    BY <1>1, <1>2 DEF Blank, Read, Here, Step, Blanks
<1>3. CASE Punctuation
    BY <1>1, <1>3 DEF Punctuation, Read, Here, Step, Marks
<1>4. CASE OpenQuote
    BY <1>1, <1>4 DEF OpenQuote, Read, Here, Step
<1>5. CASE CloseQuote
    BY <1>1, <1>5 DEF CloseQuote, Read, Here, Step
<1>6. CASE Plain
    BY <1>1, <1>6 DEF Plain, Read, Here, Step
<1>7. CASE OpenEscape
    BY <1>1, <1>7 DEF OpenEscape, Read, Here, Step
<1>8. CASE ShortEscape
    BY <1>1, <1>8 DEF ShortEscape, Read, Here, Step
<1>9. CASE LongEscape
    BY <1>1, <1>9 DEF LongEscape, Read, Here, Step
<1>10. CASE HexEscape
    BY <1>1, <1>10 DEF HexEscape, Read, Here, Step
<1>11. QED
    BY <1>2, <1>3, <1>4, <1>5, <1>6, <1>7, <1>8, <1>9, <1>10 DEF Next

-----------------------------------------------------------------------------
(* Readings.                                                               *)

(* A reader that has what was published so far, as in ReadSoFar.           *)
Fits(m, a) ==
    /\ IsPrefix(a.tokens, m)
    /\ a.mode # "out" => /\ Len(a.tokens) < Len(m)
                         /\ LET due == m[Len(a.tokens) + 1]
                            IN  "string" \in DOMAIN due /\ IsPrefix(a.text, due.string)

Readers(m) ==
    {a \in [mode : {"out", "in", "escape", "hex"}, hex : Digits, text : Seq(CodePoint),
            tokens : Seq(Token)] : Fits(m, a)}

(* A reading of some characters: the readers on the way fit.               *)
Reading(m, d, run) ==
    /\ d \in Seq(CodePoint) /\ run \in [0..Len(d) -> Readers(m)]
    /\ \A i \in 1..Len(d) : Step(run[i-1], d[i], run[i])
Path(m, a, d, b) == \E run : Reading(m, d, run) /\ run[0] = a /\ run[Len(d)] = b

LEMMA PathOfNone ==
    ASSUME NEW m, NEW a \in Readers(m)
    PROVE  Path(m, a, <<>>, a)
<1> DEFINE run == [i \in 0..0 |-> a]
<1>1. <<>> \in Seq(CodePoint) /\ Len(<<>>) = 0
    OBVIOUS
<1>2. run \in [0..0 -> Readers(m)] /\ run[0] = a
    OBVIOUS
<1> HIDE DEF run
<1>3. Reading(m, <<>>, run)
    BY <1>1, <1>2 DEF Reading
<1>4. QED
    BY <1>1, <1>2, <1>3 DEF Path

LEMMA PathOfOne ==
    ASSUME NEW m, NEW a \in Readers(m), NEW b \in Readers(m), NEW c \in CodePoint, Step(a, c, b)
    PROVE  Path(m, a, <<c>>, b)
<1> DEFINE run == [i \in 0..1 |-> IF i = 0 THEN a ELSE b]
<1>1. <<c>> \in Seq(CodePoint) /\ Len(<<c>>) = 1 /\ <<c>>[1] = c
    OBVIOUS
<1>2. run \in [0..1 -> Readers(m)] /\ run[0] = a /\ run[1] = b
    OBVIOUS
<1> HIDE DEF run
<1>3. \A i \in 1..1 : i = 1 /\ i - 1 = 0
    OBVIOUS
<1>4. Reading(m, <<c>>, run)
    BY <1>1, <1>2, <1>3 DEF Reading
<1>5. QED
    BY <1>1, <1>2, <1>4 DEF Path

(* One reading goes on where another ends.                                 *)
LEMMA PathConcat ==
    ASSUME NEW m, NEW a, NEW b, NEW c, NEW d, NEW e, Path(m, a, d, b), Path(m, b, e, c)
    PROVE  Path(m, a, d \o e, c)
<1>1. PICK f : Reading(m, d, f) /\ f[0] = a /\ f[Len(d)] = b
    BY DEF Path
<1>2. PICK g : Reading(m, e, g) /\ g[0] = b /\ g[Len(e)] = c
    BY DEF Path
<1> DEFINE k == Len(d)
           l == Len(e)
           run == [i \in 0..(k + l) |-> IF i <= k THEN f[i] ELSE g[i - k]]
<1>3. d \in Seq(CodePoint) /\ e \in Seq(CodePoint) /\ k \in Nat /\ l \in Nat
    BY <1>1, <1>2 DEF Reading
<1>4. /\ d \o e \in Seq(CodePoint) /\ Len(d \o e) = k + l
      /\ \A i \in 1..(k + l) : (d \o e)[i] = IF i <= k THEN d[i] ELSE e[i - k]
    BY <1>3, ConcatProperties
<1>5. /\ f \in [0..k -> Readers(m)] /\ \A i \in 1..k : Step(f[i-1], d[i], f[i])
      /\ g \in [0..l -> Readers(m)] /\ \A i \in 1..l : Step(g[i-1], e[i], g[i])
    BY <1>1, <1>2 DEF Reading
<1> HIDE DEF k, l
<1>6. run \in [0..(k + l) -> Readers(m)]
    <2>1. ASSUME NEW i \in 0..(k + l)
          PROVE  (IF i <= k THEN f[i] ELSE g[i - k]) \in Readers(m)
        <3>1. CASE i <= k
            BY <1>5, <3>1
        <3>2. CASE ~(i <= k)
            <4>1. i - k \in 0..l
                BY <1>3, <3>2
            <4>2. QED BY <1>5, <3>2, <4>1
        <3>3. QED BY <3>1, <3>2
    <2>2. QED BY <2>1
<1>7. /\ \A i \in 0..k : run[i] = f[i]
      /\ \A i \in 0..l : run[i + k] = g[i]
    <2>1. f[k] = g[0]
        BY <1>1, <1>2 DEF k
    <2>2. ASSUME NEW i \in 0..k
          PROVE  run[i] = f[i]
        BY <1>3
    <2>3. ASSUME NEW i \in 0..l
          PROVE  run[i + k] = g[i]
        <3>1. i + k \in 0..(k + l) /\ (i + k) - k = i
            BY <1>3
        <3>2. CASE i = 0
            BY <1>3, <2>1, <2>2, <3>1, <3>2
        <3>3. CASE i # 0
            <4>1. ~(i + k <= k)
                BY <1>3, <3>3
            <4>2. QED BY <3>1, <4>1
        <3>4. QED BY <3>2, <3>3
    <2>4. QED BY <2>2, <2>3
<1> HIDE DEF run
<1>8. ASSUME NEW i \in 1..(k + l)
      PROVE  Step(run[i-1], (d \o e)[i], run[i])
    <2>1. CASE i <= k
        BY <1>3, <1>4, <1>5, <1>7, <2>1
    <2>2. CASE i > k
        <3>1. i - k \in 1..l /\ (i - k) - 1 \in 0..l /\ (i - k) + k = i /\ ((i - k) - 1) + k = i - 1
            BY <1>3, <2>2
        <3>2. run[i-1] = g[(i - k) - 1] /\ run[i] = g[i - k]
            BY <1>7, <3>1
        <3>3. (d \o e)[i] = e[i - k]
            BY <1>3, <1>4, <2>2
        <3>4. QED BY <1>5, <3>1, <3>2, <3>3
    <2>3. i <= k \/ i > k
        BY <1>3
    <2>4. QED BY <2>1, <2>2, <2>3
<1>9. run[0] = a /\ run[k + l] = c
    BY <1>1, <1>2, <1>3, <1>7 DEF k, l
<1>10. Reading(m, d \o e, run)
    BY <1>4, <1>6, <1>8 DEF Reading
<1>11. QED
    BY <1>4, <1>9, <1>10 DEF Path

LEMMA PathOfTwo ==
    ASSUME NEW m, NEW r0 \in Readers(m), NEW r1 \in Readers(m), NEW r2 \in Readers(m),
           NEW c1 \in CodePoint, NEW c2 \in CodePoint, Step(r0, c1, r1), Step(r1, c2, r2)
    PROVE  Path(m, r0, <<c1, c2>>, r2)
<1> DEFINE d == <<c1, c2>>
           run == [i \in 0..2 |-> IF i = 0 THEN r0 ELSE IF i = 1 THEN r1 ELSE r2]
<1>1. d \in Seq(CodePoint) /\ Len(d) = 2 /\ d[1] = c1 /\ d[2] = c2
    OBVIOUS
<1>2. run \in [0..2 -> Readers(m)] /\ run[0] = r0 /\ run[1] = r1 /\ run[2] = r2
    OBVIOUS
<1> HIDE DEF d, run
<1>3. ASSUME NEW i \in 1..2
      PROVE  Step(run[i-1], d[i], run[i])
    <2>1. CASE i = 1
        <3>1. i - 1 = 0
            BY <2>1
        <3>2. QED BY <1>1, <1>2, <2>1, <3>1
    <2>2. CASE i = 2
        <3>1. i - 1 = 1
            BY <2>2
        <3>2. QED BY <1>1, <1>2, <2>2, <3>1
    <2>3. QED BY <2>1, <2>2
<1>4. Reading(m, d, run)
    BY <1>1, <1>2, <1>3 DEF Reading
<1>5. QED
    BY <1>1, <1>2, <1>4 DEF Path, d

(* From any reader of a set to some reader of another.                     *)
Leads(m, A, d, B) == d \in Seq(CodePoint) /\ \A a \in A : \E b \in B : Path(m, a, d, b)

LEMMA LeadsConcat ==
    ASSUME NEW m, NEW A, NEW B, NEW C, NEW d, NEW e, Leads(m, A, d, B), Leads(m, B, e, C)
    PROVE  Leads(m, A, d \o e, C)
<1>1. d \o e \in Seq(CodePoint)
    BY ConcatProperties DEF Leads
<1>2. ASSUME NEW a \in A
      PROVE  \E c \in C : Path(m, a, d \o e, c)
    <2>1. PICK b \in B : Path(m, a, d, b)
        BY DEF Leads
    <2>2. PICK c \in C : Path(m, b, e, c)
        BY DEF Leads
    <2>3. QED BY <2>1, <2>2, PathConcat
<1>3. QED
    BY <1>1, <1>2 DEF Leads

-----------------------------------------------------------------------------
(* The readers on the way through what was published.                      *)

(* The beginnings of a sequence.                                           *)
Begin(s, k) == SubSeq(s, 1, k)

LEMMA Beginnings ==
    ASSUME NEW A, NEW s \in Seq(A), NEW k \in 0..Len(s)
    PROVE  /\ Begin(s, k) \in Seq(A) /\ Len(Begin(s, k)) = k /\ IsPrefix(Begin(s, k), s)
           /\ k < Len(s) => s[k+1] \in A /\ Append(Begin(s, k), s[k+1]) = Begin(s, k + 1)
           /\ Begin(s, 0) = <<>> /\ Begin(s, Len(s)) = s
<1>1. Len(s) \in Nat /\ \A i \in 1..Len(s) : s[i] \in A
    BY ElementOfSeq
<1>2. /\ Begin(s, k) \in Seq(A) /\ Len(Begin(s, k)) = k
      /\ \A i \in 1..k : Begin(s, k)[i] = s[i]
    BY <1>1 DEF Begin
<1>3. IsPrefix(Begin(s, k), s)
    <2>1. SubSeq(Begin(s, k), 1, k) = Begin(s, k)
        BY <1>1, <1>2 DEF Begin
    <2>2. QED BY <1>1, <1>2, <2>1 DEF IsPrefix, Begin
<1>4. ASSUME k < Len(s)
      PROVE  Append(Begin(s, k), s[k+1]) = Begin(s, k + 1)
    <2>1. /\ Begin(s, k + 1) \in Seq(A) /\ Len(Begin(s, k + 1)) = k + 1
          /\ \A i \in 1..(k + 1) : Begin(s, k + 1)[i] = s[i]
        BY <1>1, <1>4 DEF Begin
    <2>2. s[k+1] \in A
        BY <1>1, <1>4
    <2>3. /\ Append(Begin(s, k), s[k+1]) \in Seq(A) /\ Len(Append(Begin(s, k), s[k+1])) = k + 1
          /\ \A i \in 1..(k + 1) : Append(Begin(s, k), s[k+1])[i] = s[i]
        BY <1>2, <2>2, AppendProperties
    <2>4. QED BY <2>1, <2>3, SeqEqual
<1>5. Begin(s, 0) = <<>> /\ Begin(s, Len(s)) = s
    BY <1>1 DEF Begin
<1>6. QED
    BY <1>1, <1>2, <1>3, <1>4, <1>5

(* A string that is due after k tokens.                                    *)
Due(m, k, s) ==
    /\ m \in Seq(Token) /\ s \in Seq(CodePoint)
    /\ k \in Nat /\ k < Len(m) /\ m[k+1] = String(s)

At(where, digits, m, k, s, i) == Reader(where, digits, Begin(s, i), Begin(m, k))

Outside(m, k) ==
    {a \in Readers(m) : a.mode = "out" /\ a.tokens = Begin(m, k)}
Within(m, k, s, i) == {At("in", h, m, k, s, i) : h \in Digits}

LEMMA InsideFits ==
    ASSUME NEW m, NEW k, NEW s, Due(m, k, s), NEW i \in 0..Len(s), NEW h \in Digits,
           NEW w \in {"in", "escape", "hex"}
    PROVE  At(w, h, m, k, s, i) \in Readers(m)
<1> DEFINE a == At(w, h, m, k, s, i)
<1>1. a.mode = w /\ a.hex = h /\ a.text = Begin(s, i) /\ a.tokens = Begin(m, k)
    BY DEF At, Reader
<1>2. k \in 0..Len(m) /\ m \in Seq(Token) /\ s \in Seq(CodePoint) /\ k < Len(m)
    BY DEF Due
<1>3. /\ Begin(m, k) \in Seq(Token) /\ Len(Begin(m, k)) = k /\ IsPrefix(Begin(m, k), m)
      /\ Begin(s, i) \in Seq(CodePoint) /\ IsPrefix(Begin(s, i), s)
    BY <1>2, Beginnings
<1>4. "string" \in DOMAIN String(s) /\ String(s).string = s
    BY DEF String
<1>5. Fits(m, a)
    <2>1. m[Len(a.tokens) + 1] = String(s)
        BY <1>1, <1>3 DEF Due
    <2> HIDE DEF a
    <2>2. QED BY <1>1, <1>2, <1>3, <1>4, <2>1 DEF Fits
<1>6. a \in [mode : {"out", "in", "escape", "hex"}, hex : Digits, text : Seq(CodePoint),
             tokens : Seq(Token)]
    BY <1>3 DEF At, Reader
<1>7. QED
    BY <1>5, <1>6 DEF Readers

LEMMA OutsideFits ==
    ASSUME NEW m \in Seq(Token), NEW k \in 0..Len(m), NEW h \in Digits,
           NEW x \in Seq(CodePoint)
    PROVE  Reader("out", h, x, Begin(m, k)) \in Outside(m, k)
<1> DEFINE a == Reader("out", h, x, Begin(m, k))
<1>1. a.mode = "out" /\ a.tokens = Begin(m, k)
    BY DEF Reader
<1>2. Begin(m, k) \in Seq(Token) /\ IsPrefix(Begin(m, k), m)
    BY Beginnings
<1>3. Fits(m, a)
    BY <1>1, <1>2 DEF Fits
<1>4. a \in [mode : {"out", "in", "escape", "hex"}, hex : Digits, text : Seq(CodePoint),
             tokens : Seq(Token)]
    BY <1>2 DEF Reader
<1>5. QED
    BY <1>1, <1>3, <1>4 DEF Readers, Outside

LEMMA OutsideAre ==
    ASSUME NEW m, NEW k, NEW a \in Outside(m, k)
    PROVE  /\ a.hex \in Digits /\ a.text \in Seq(CodePoint)
           /\ a = Reader("out", a.hex, a.text, Begin(m, k))
    BY DEF Outside, Readers, Reader

(* A blank changes nothing, and a mark that is due is read.                *)
LEMMA BlankRead ==
    ASSUME NEW m, NEW k, NEW c \in Blanks
    PROVE  Leads(m, Outside(m, k), <<c>>, Outside(m, k))
<1>1. c \in CodePoint
    BY CodePoints DEF Blanks, SPACE, TAB, NEWLINE, RETURN
<1>2. ASSUME NEW a \in Outside(m, k)
      PROVE  Path(m, a, <<c>>, a)
    <2>1. a \in Readers(m) /\ Step(a, c, a)
        BY DEF Outside, Step
    <2>2. QED BY <1>1, <2>1, PathOfOne
<1>3. QED
    BY <1>1, <1>2 DEF Leads

LEMMA MarkRead ==
    ASSUME NEW m \in Seq(Token), NEW k \in Nat, k < Len(m), NEW c \in Marks, m[k+1] = Mark(c)
    PROVE  Leads(m, Outside(m, k), <<c>>, Outside(m, k + 1))
<1>1. c \in CodePoint
    <2>1. c \in 0..255
        BY DEF Marks, OPEN, CLOSE, OPEN_OBJECT, CLOSE_OBJECT, COMMA, COLON
    <2>2. QED BY <2>1, CodePoints
<1>2. k \in 0..Len(m) /\ k + 1 \in 0..Len(m) /\ Append(Begin(m, k), Mark(c)) = Begin(m, k + 1)
    BY Beginnings
<1>3. ASSUME NEW a \in Outside(m, k)
      PROVE  \E b \in Outside(m, k + 1) : Path(m, a, <<c>>, b)
    <2> DEFINE b == Reader("out", a.hex, a.text, Begin(m, k + 1))
    <2>1. b \in Outside(m, k + 1)
        BY <1>2, OutsideAre, OutsideFits
    <2>2. a \in Readers(m) /\ b \in Readers(m) /\ a.mode = "out" /\ a.tokens = Begin(m, k)
        BY <2>1 DEF Outside
    <2>3. Step(a, c, b)
        BY <1>2, <2>2 DEF Step
    <2>4. QED BY <1>1, <2>1, <2>2, <2>3, PathOfOne
<1>4. QED
    BY <1>1, <1>3 DEF Leads

-----------------------------------------------------------------------------
(* What the writer writes is read as what was meant.                       *)

(* The elements of two sequences in one.                                   *)
LEMMA ConcatElements ==
    ASSUME NEW A, NEW x \in Seq(A), NEW y \in Seq(A)
    PROVE  /\ Len(x \o y) = Len(x) + Len(y)
           /\ \A i \in 1..Len(x) : (x \o y)[i] = x[i]
           /\ \A i \in 1..Len(y) : (x \o y)[Len(x) + i] = y[i]
<1>1. Len(x) \in Nat /\ Len(y) \in Nat
    OBVIOUS
<1>2. ASSUME NEW i \in 1..Len(y)
      PROVE  (x \o y)[Len(x) + i] = y[i]
    <2>1. /\ Len(x) + i \in 1..(Len(x) + Len(y)) /\ ~(Len(x) + i <= Len(x))
          /\ (Len(x) + i) - Len(x) = i
        BY <1>1
    <2>2. QED BY <2>1, ConcatProperties
<1>3. QED
    BY <1>1, <1>2, ConcatProperties

(* The four digits of a control character are its number.                  *)
LEMMA NumberOfControl ==
    ASSUME NEW c \in 0..31
    PROVE  /\ c \div 16 \in 0..15 /\ c % 16 \in 0..15
           /\ 16 * (c \div 16) + (c % 16) = c
<1>1. \E q \in 0..1, d \in 0..15 : c = 16 * q + d /\ c \div 16 = q /\ c % 16 = d
    <2>1. CASE c < 16
        <3>1. c = 16 * 0 + c /\ c \div 16 = 0 /\ c % 16 = c /\ c \in 0..15
            BY <2>1
        <3>2. QED BY <3>1
    <2>2. CASE c >= 16
        <3>1. c = 16 * 1 + (c - 16) /\ c \div 16 = 1 /\ c % 16 = c - 16 /\ c - 16 \in 0..15
            BY <2>2
        <3>2. QED BY <3>1
    <2>3. QED BY <2>1, <2>2
<1>2. 16 * (c \div 16) + (c % 16) = c
    BY <1>1
<1>3. c \div 16 \in 0..15 /\ c % 16 \in 0..15
    BY <1>1
<1>4. QED
    BY <1>2, <1>3

Digit == 0..15

(* A reader takes in a digit of an escape; the last makes a character.     *)
LEMMA DigitRead ==
    ASSUME NEW a, a.mode = "hex", NEW d \in Digit, NEW digits, Append(a.hex, d) = digits
    PROVE  /\ Len(digits) < 4 =>
                  Step(a, HexDigit(d), Reader("hex", digits, a.text, a.tokens))
           /\ ~(Len(digits) < 4) =>
                  Step(a, HexDigit(d),
                       Reader("in", digits, Append(a.text, Number(digits)), a.tokens))
<1>1. DigitOf(HexDigit(d)) = d
    BY EscapeFacts DEF Digit
<1>2. \E e \in 0..15 : HexDigit(d) = HexDigit(e)
    BY DEF Digit
<1>3. QED
    BY <1>1, <1>2 DEF Step

LEMMA ControlRead ==
    ASSUME NEW m, NEW k, NEW s, Due(m, k, s), NEW i \in 0..Len(s), i < Len(s),
           s[i+1] \in 0..31, NEW h \in Digits
    PROVE  \E b \in Within(m, k, s, i + 1) :
              Path(m, At("in", h, m, k, s, i),
                   <<BACKSLASH, u, 48, 48, HexDigit(s[i+1] \div 16), HexDigit(s[i+1] % 16)>>, b)
<1> DEFINE c == s[i+1]
           p == c \div 16
           q == c % 16
           h0 == <<>>
           h1 == Append(h0, 0)
           h2 == Append(h1, 0)
           h3 == Append(h2, p)
           h4 == Append(h3, q)
           r0 == At("in", h, m, k, s, i)
           r1 == At("escape", h0, m, k, s, i)
           r2 == At("hex", h0, m, k, s, i)
           r3 == At("hex", h1, m, k, s, i)
           r4 == At("hex", h2, m, k, s, i)
           r5 == At("hex", h3, m, k, s, i)
           r6 == At("in", h4, m, k, s, i + 1)
<1>1. p \in 0..15 /\ q \in 0..15 /\ 16 * p + q = c
    BY NumberOfControl
<1>2. s \in Seq(CodePoint) /\ i + 1 \in 0..Len(s) /\ Append(Begin(s, i), c) = Begin(s, i + 1)
    BY Beginnings DEF Due
<1> HIDE DEF c, p, q
<1>3. 0 \in Digit /\ p \in Digit /\ q \in Digit
    BY <1>1 DEF Digit
<1>4. h1 \in Seq(Digit) /\ Len(h1) = 1 /\ h1[1] = 0
    BY <1>3, AppendProperties
<1>5. h2 \in Seq(Digit) /\ Len(h2) = 2 /\ h2[1] = 0 /\ h2[2] = 0
    <2>1. h1 \in Seq(Digit)
        BY <1>4
    <2>2. /\ h2 \in Seq(Digit) /\ Len(h2) = Len(h1) + 1 /\ h2[Len(h1) + 1] = 0
          /\ \A j \in 1..Len(h1) : h2[j] = h1[j]
        <3> HIDE DEF h1
        <3>1. QED BY <1>3, <2>1, AppendProperties
    <2> HIDE DEF h2, h1
    <2>3. QED BY <1>4, <2>2
<1>6. h3 \in Seq(Digit) /\ Len(h3) = 3 /\ h3[1] = 0 /\ h3[2] = 0 /\ h3[3] = p
    <2>1. h2 \in Seq(Digit)
        BY <1>5
    <2>2. /\ h3 \in Seq(Digit) /\ Len(h3) = Len(h2) + 1 /\ h3[Len(h2) + 1] = p
          /\ \A j \in 1..Len(h2) : h3[j] = h2[j]
        <3> HIDE DEF h2
        <3>1. QED BY <1>3, <2>1, AppendProperties
    <2> HIDE DEF h3, h2
    <2>3. QED BY <1>5, <2>2
<1>7. h4 \in Seq(Digit) /\ Len(h4) = 4 /\ h4[1] = 0 /\ h4[2] = 0 /\ h4[3] = p /\ h4[4] = q
    <2>1. h3 \in Seq(Digit)
        BY <1>6
    <2>2. /\ h4 \in Seq(Digit) /\ Len(h4) = Len(h3) + 1 /\ h4[Len(h3) + 1] = q
          /\ \A j \in 1..Len(h3) : h4[j] = h3[j]
        <3> HIDE DEF h3
        <3>1. QED BY <1>3, <2>1, AppendProperties
    <2> HIDE DEF h4, h3
    <2>3. QED BY <1>6, <2>2
<1> HIDE DEF h0, h1, h2, h3, h4
<1>8. h0 \in Digits /\ h1 \in Digits /\ h2 \in Digits /\ h3 \in Digits /\ h4 \in Digits
    <2>1. \A d \in 0..4 : [1..d -> 0..15] \subseteq Digits
        BY DEF Digits
    <2>2. \A x \in Seq(Digit) : Len(x) \in 0..4 => x \in [1..Len(x) -> Digit]
        OBVIOUS
    <2>3. \A x \in Seq(Digit) : Len(x) \in 0..4 => x \in Digits
        BY <2>1, <2>2 DEF Digit
    <2>4. h0 \in Seq(Digit) /\ Len(h0) \in 0..4
        BY DEF h0
    <2>5. /\ h1 \in Seq(Digit) /\ Len(h1) \in 0..4 /\ h2 \in Seq(Digit) /\ Len(h2) \in 0..4
          /\ h3 \in Seq(Digit) /\ Len(h3) \in 0..4 /\ h4 \in Seq(Digit) /\ Len(h4) \in 0..4
        BY <1>4, <1>5, <1>6, <1>7
    <2> HIDE DEF h0
    <2>6. QED BY <2>3, <2>4, <2>5
<1>9. Number(h4) = c
    BY <1>1, <1>7 DEF Number
<1>10. r0 \in Readers(m) /\ r1 \in Readers(m) /\ r2 \in Readers(m)
    BY <1>8, InsideFits
<1>11. r3 \in Readers(m) /\ r4 \in Readers(m) /\ r5 \in Readers(m)
    BY <1>8, InsideFits
<1>12. r6 \in Readers(m) /\ r6 \in Within(m, k, s, i + 1)
    BY <1>2, <1>8, InsideFits DEF Within
<1>13. /\ HexDigit(0) = 48 /\ HexDigit(p) \in CodePoint /\ HexDigit(q) \in CodePoint
       /\ 48 \in CodePoint /\ BACKSLASH \in CodePoint /\ u \in CodePoint
    <2>1. HexDigit(0) = 48 /\ BACKSLASH \in 0..255 /\ u \in 0..255 /\ 48 \in 0..255
        BY DEF HexDigit, BACKSLASH, u
    <2>2. BACKSLASH \in CodePoint /\ u \in CodePoint /\ 48 \in CodePoint
        BY <2>1, CodePoints
    <2>3. QED BY <1>1, <2>1, <2>2, EscapeFacts
<1>16. Step(r0, BACKSLASH, r1)
    BY DEF Step, At, Reader, h0
<1>17. Step(r1, u, r2)
    BY DEF Step, At, Reader
<1>18. Step(r2, 48, r3)
    <2>1. Append(r2.hex, 0) = h1 /\ r2.mode = "hex" /\ r3 = Reader("hex", h1, r2.text, r2.tokens)
        BY DEF At, Reader, h1
    <2> HIDE DEF r2, r3
    <2>2. Len(h1) < 4
        BY <1>4
    <2>3. Step(r2, HexDigit(0), r3)
        BY <1>3, <2>1, <2>2, DigitRead
    <2>4. QED BY <1>13, <2>3
<1>19. Step(r3, 48, r4)
    <2>1. Append(r3.hex, 0) = h2 /\ r3.mode = "hex" /\ r4 = Reader("hex", h2, r3.text, r3.tokens)
        BY DEF At, Reader, h2
    <2> HIDE DEF r3, r4
    <2>2. Len(h2) < 4
        BY <1>5
    <2>3. Step(r3, HexDigit(0), r4)
        BY <1>3, <2>1, <2>2, DigitRead
    <2>4. QED BY <1>13, <2>3
<1>20. Step(r4, HexDigit(p), r5)
    <2>1. Append(r4.hex, p) = h3 /\ r4.mode = "hex" /\ r5 = Reader("hex", h3, r4.text, r4.tokens)
        BY DEF At, Reader, h3
    <2> HIDE DEF r4, r5
    <2>2. Len(h3) < 4
        BY <1>6
    <2>3. QED BY <1>3, <2>1, <2>2, DigitRead
<1>21. Step(r5, HexDigit(q), r6)
    <2>1. /\ Append(r5.hex, q) = h4 /\ r5.mode = "hex" /\ Append(r5.text, c) = Begin(s, i + 1)
          /\ r6 = Reader("in", h4, Begin(s, i + 1), r5.tokens)
        BY <1>2 DEF At, Reader, h4
    <2> HIDE DEF r5, r6
    <2>2. ~(Len(h4) < 4)
        BY <1>7
    <2>3. QED BY <1>3, <1>9, <2>1, <2>2, DigitRead
<1> HIDE DEF r0, r1, r2, r3, r4, r5, r6
<1> DEFINE x == <<BACKSLASH, u>>
           y == <<48, 48>>
           z == <<HexDigit(p), HexDigit(q)>>
<1>22. Path(m, r0, x, r2)
    BY <1>10, <1>13, <1>16, <1>17, PathOfTwo
<1>23. Path(m, r2, y, r4)
    BY <1>10, <1>11, <1>13, <1>18, <1>19, PathOfTwo
<1>24. Path(m, r4, z, r6)
    BY <1>11, <1>12, <1>13, <1>20, <1>21, PathOfTwo
<1>25. Path(m, r0, x \o y \o z, r6)
    <2> HIDE DEF x, y, z
    <2>1. Path(m, r0, x \o y, r4)
        BY <1>22, <1>23, PathConcat
    <2>2. QED BY <1>24, <2>1, PathConcat
<1>26. x \o y \o z = <<BACKSLASH, u, 48, 48, HexDigit(p), HexDigit(q)>>
    <2> DEFINE v == <<BACKSLASH, u, 48, 48, HexDigit(p), HexDigit(q)>>
    <2>0. x \in Seq(CodePoint) /\ y \in Seq(CodePoint) /\ z \in Seq(CodePoint)
        BY <1>13
    <2>1. /\ x \in Seq(CodePoint) /\ Len(x) = 2 /\ x[1] = BACKSLASH /\ x[2] = u
          /\ y \in Seq(CodePoint) /\ Len(y) = 2 /\ y[1] = 48 /\ y[2] = 48
          /\ z \in Seq(CodePoint) /\ Len(z) = 2 /\ z[1] = HexDigit(p) /\ z[2] = HexDigit(q)
        BY <1>13
    <2>2. /\ v \in Seq(CodePoint) /\ Len(v) = 6 /\ v[1] = BACKSLASH /\ v[2] = u
          /\ v[3] = 48 /\ v[4] = 48 /\ v[5] = HexDigit(p) /\ v[6] = HexDigit(q)
        BY <1>13
    <2> DEFINE w == x \o y
    <2> HIDE DEF x, y, z, v
    <2>3. w \in Seq(CodePoint)
        BY <2>1, ConcatProperties
    <2>4. /\ Len(w) = 4 /\ w[1] = x[1] /\ w[2] = x[2]
          /\ w[3] = y[1] /\ w[4] = y[2]
        <3>1. /\ Len(w) = Len(x) + Len(y) /\ \A j \in 1..Len(x) : w[j] = x[j]
              /\ \A j \in 1..Len(y) : w[Len(x) + j] = y[j]
            BY <2>0, ConcatElements
        <3> HIDE DEF w
        <3>2. w[Len(x) + 1] = y[1] /\ w[Len(x) + 2] = y[2]
            BY <2>1, <3>1
        <3>3. QED BY <2>1, <3>1, <3>2
    <2> DEFINE o == w \o z
    <2> HIDE DEF w
    <2>5. o \in Seq(CodePoint)
        BY <2>1, <2>3, ConcatProperties
    <2>6. /\ Len(o) = 6 /\ o[1] = w[1] /\ o[2] = w[2] /\ o[3] = w[3] /\ o[4] = w[4]
          /\ o[5] = z[1] /\ o[6] = z[2]
        <3>1. /\ Len(o) = Len(w) + Len(z) /\ \A j \in 1..Len(w) : o[j] = w[j]
              /\ \A j \in 1..Len(z) : o[Len(w) + j] = z[j]
            BY <2>0, <2>3, ConcatElements
        <3> HIDE DEF o
        <3>2. o[Len(w) + 1] = z[1] /\ o[Len(w) + 2] = z[2]
            BY <2>1, <2>4, <3>1
        <3>3. QED BY <2>1, <2>4, <3>1, <3>2
    <2> HIDE DEF o
    <2>7. \A j \in 1..6 : o[j] = v[j]
        <3>1. \A j \in 1..6 : j = 1 \/ j = 2 \/ j = 3 \/ j = 4 \/ j = 5 \/ j = 6
            OBVIOUS
        <3>2. QED BY <2>1, <2>2, <2>4, <2>6, <3>1
    <2>8. o = v
        <3>1. Len(o) = 6 /\ Len(v) = 6 /\ v \in Seq(CodePoint)
            BY <2>2, <2>6
        <3>2. Len(o) = Len(v) /\ \A j \in 1..Len(o) : o[j] = v[j]
            BY <2>7, <3>1
        <3>3. QED BY <2>5, <3>1, <3>2, SeqEqual
    <2>9. QED BY <2>8 DEF v, w, o
<1>27. QED
    BY <1>12, <1>25, <1>26 DEF c, p, q, r0

LEMMA EscapedIsText ==
    ASSUME NEW c \in CodePoint
    PROVE  Escaped(c) \in Seq(CodePoint)
<1>1. /\ QUOTE \in CodePoint /\ BACKSLASH \in CodePoint /\ n \in CodePoint /\ r \in CodePoint
      /\ t \in CodePoint /\ u \in CodePoint /\ 48 \in CodePoint
    <2>1. /\ QUOTE \in 0..255 /\ BACKSLASH \in 0..255 /\ n \in 0..255 /\ r \in 0..255
          /\ t \in 0..255 /\ u \in 0..255 /\ 48 \in 0..255
        BY DEF QUOTE, BACKSLASH, n, r, t, u
    <2>2. QED BY <2>1, CodePoints
<1>2. CASE c \in Control
    <2>1. c \in 0..31
        BY <1>2 DEF Control
    <2>2. HexDigit(c \div 16) \in CodePoint /\ HexDigit(c % 16) \in CodePoint
        BY <2>1, NumberOfControl, EscapeFacts
    <2> DEFINE p == HexDigit(c \div 16)
               q == HexDigit(c % 16)
    <2> HIDE DEF p, q
    <2>3. <<BACKSLASH, u, 48, 48, p, q>> \in Seq(CodePoint)
        BY <1>1, <2>2 DEF p, q
    <2>4. QED BY <1>1, <2>3 DEF Escaped, p, q
<1>3. CASE c \notin Control
    BY <1>1, <1>3 DEF Escaped
<1>4. QED
    BY <1>2, <1>3

(* A character is read as itself, whether it is escaped or not.            *)
LEMMA EscapedRead ==
    ASSUME NEW m, NEW k, NEW s, Due(m, k, s), NEW i \in 0..Len(s), i < Len(s)
    PROVE  Leads(m, Within(m, k, s, i), Escaped(s[i+1]), Within(m, k, s, i + 1))
<1> DEFINE c == s[i+1]
<1>1. /\ s \in Seq(CodePoint) /\ i + 1 \in 0..Len(s) /\ c \in CodePoint
      /\ Append(Begin(s, i), c) = Begin(s, i + 1)
    BY Beginnings DEF Due
<1> HIDE DEF c
<1>2. Escaped(c) \in Seq(CodePoint)
    BY <1>1, EscapedIsText
<1>3. ASSUME NEW h \in Digits
      PROVE  \E b \in Within(m, k, s, i + 1) : Path(m, At("in", h, m, k, s, i), Escaped(c), b)
    <2> DEFINE a == At("in", h, m, k, s, i)
    <2>1. a \in Readers(m)
        BY InsideFits
    <2>2. ASSUME NEW letter \in DOMAIN Short, letter \in CodePoint, Short[letter] = c
          PROVE  \E b \in Within(m, k, s, i + 1) : Path(m, a, <<BACKSLASH, letter>>, b)
        <3> DEFINE e == At("escape", <<>>, m, k, s, i)
                   b == At("in", <<>>, m, k, s, i + 1)
        <3>1. <<>> \in Digits
            <4>1. <<>> \in [1..0 -> 0..15] /\ 0 \in 0..4
                OBVIOUS
            <4>2. QED BY <4>1 DEF Digits
        <3>2. e \in Readers(m) /\ b \in Readers(m) /\ b \in Within(m, k, s, i + 1)
            BY <1>1, <3>1, InsideFits DEF Within
        <3>3. BACKSLASH \in CodePoint
            <4>1. BACKSLASH \in 0..255
                BY DEF BACKSLASH
            <4>2. QED BY <4>1, CodePoints
        <3>4. Step(a, BACKSLASH, e)
            BY DEF Step, At, Reader
        <3>5. Step(e, letter, b)
            BY <1>1, <2>2 DEF Step, At, Reader
        <3> HIDE DEF a, b, e
        <3>6. Path(m, a, <<BACKSLASH, letter>>, b)
            BY <2>1, <2>2, <3>2, <3>3, <3>4, <3>5, PathOfTwo
        <3>7. QED BY <3>2, <3>6
    <2>3. ASSUME NEW letter \in {QUOTE, BACKSLASH, n, r, t}
          PROVE  letter \in DOMAIN Short /\ letter \in CodePoint
        <3>1. letter \in 0..255
            BY DEF QUOTE, BACKSLASH, n, r, t
        <3>2. QED BY <3>1, EscapeFacts, CodePoints
    <2> HIDE DEF a
    <2>4. CASE c = QUOTE
        <3>1. Escaped(c) = <<BACKSLASH, QUOTE>>
            BY <2>4 DEF Escaped, Control, QUOTE, BACKSLASH, NEWLINE, RETURN, TAB
        <3>2. QED BY <2>2, <2>3, <2>4, <3>1, EscapeFacts DEF a
    <2>5. CASE c = BACKSLASH
        <3>1. Escaped(c) = <<BACKSLASH, BACKSLASH>>
            BY <2>5 DEF Escaped, Control, QUOTE, BACKSLASH, NEWLINE, RETURN, TAB
        <3>2. QED BY <2>2, <2>3, <2>5, <3>1, EscapeFacts DEF a
    <2>6. CASE c = NEWLINE
        <3>1. Escaped(c) = <<BACKSLASH, n>>
            BY <2>6 DEF Escaped, Control, QUOTE, BACKSLASH, NEWLINE, RETURN, TAB
        <3>2. QED BY <2>2, <2>3, <2>6, <3>1, EscapeFacts DEF a
    <2>7. CASE c = RETURN
        <3>1. Escaped(c) = <<BACKSLASH, r>>
            BY <2>7 DEF Escaped, Control, QUOTE, BACKSLASH, NEWLINE, RETURN, TAB
        <3>2. QED BY <2>2, <2>3, <2>7, <3>1, EscapeFacts DEF a
    <2>8. CASE c = TAB
        <3>1. Escaped(c) = <<BACKSLASH, t>>
            BY <2>8 DEF Escaped, Control, QUOTE, BACKSLASH, NEWLINE, RETURN, TAB
        <3>2. QED BY <2>2, <2>3, <2>8, <3>1, EscapeFacts DEF a
    <2>9. CASE c \notin {QUOTE, BACKSLASH, NEWLINE, RETURN, TAB} /\ c \in Control
        <3>1. Escaped(c) = <<BACKSLASH, u, 48, 48, HexDigit(c \div 16), HexDigit(c % 16)>>
            BY <2>9 DEF Escaped
        <3>2. c \in 0..31
            BY <2>9 DEF Control
        <3>3. QED BY <3>1, <3>2, ControlRead DEF a, c
    <2>10. CASE c \notin {QUOTE, BACKSLASH, NEWLINE, RETURN, TAB} /\ c \notin Control
        <3> DEFINE b == At("in", h, m, k, s, i + 1)
        <3>1. Escaped(c) = <<c>>
            BY <2>10 DEF Escaped
        <3>2. b \in Readers(m) /\ b \in Within(m, k, s, i + 1)
            BY <1>1, InsideFits DEF Within
        <3>3. c >= SPACE
            <4>1. c \notin 0..31
                BY <2>10 DEF Control
            <4>2. c \in Nat
                BY <1>1, CodePoints
            <4>3. QED BY <4>1, <4>2 DEF SPACE
        <3>4. Step(a, c, b)
            BY <1>1, <2>10, <3>3 DEF Step, At, Reader, a
        <3>5. Path(m, a, <<c>>, b)
            BY <1>1, <2>1, <3>2, <3>4, PathOfOne DEF a
        <3>6. QED BY <3>1, <3>2, <3>5 DEF a
    <2>11. QED BY <2>4, <2>5, <2>6, <2>7, <2>8, <2>9, <2>10
<1>4. QED
    BY <1>2, <1>3 DEF Leads, Within, c

LEMMA TextIsText ==
    ASSUME NEW s \in Seq(CodePoint)
    PROVE  [i \in DOMAIN s |-> Escaped(s[i])] \in Seq(Seq(CodePoint))
<1>1. Len(s) \in Nat /\ DOMAIN s = 1..Len(s)
    OBVIOUS
<1>2. \A i \in 1..Len(s) : Escaped(s[i]) \in Seq(CodePoint)
    BY EscapedIsText, ElementOfSeq
<1>3. QED
    BY <1>1, <1>2, IsASeq

(* A text is read as itself.                                               *)
LEMMA TextRead ==
    ASSUME NEW m, NEW k, NEW s, Due(m, k, s)
    PROVE  Leads(m, Within(m, k, s, 0), json_escape(s), Within(m, k, s, Len(s)))
<1> DEFINE seqs == [i \in DOMAIN s |-> Escaped(s[i])]
           last == Len(s)
<1>1. s \in Seq(CodePoint) /\ seqs \in Seq(Seq(CodePoint))
    BY TextIsText DEF Due
<1>2. last \in Nat /\ Len(seqs) = last /\ \A i \in 1..last : seqs[i] = Escaped(s[i])
    BY <1>1
<1> HIDE DEF seqs
<1>3. PICK F \in [0..last -> Seq(CodePoint)] :
          /\ F[0] = <<>> /\ F[last] = FlattenSeq(seqs)
          /\ \A i \in 1..last : F[i] = F[i-1] \o seqs[i]
    <2>1. \E F \in [0..Len(seqs) -> Seq(CodePoint)] :
              /\ F[0] = <<>> /\ F[Len(seqs)] = FlattenSeq(seqs)
              /\ \A i \in 1..Len(seqs) : F[i] = F[i-1] \o seqs[i]
        BY <1>1, FlattenSteps
    <2>2. Len(seqs) = last
        BY <1>2
    <2> HIDE DEF last
    <2>3. QED BY <2>1, <2>2
<1> DEFINE S == {i \in 0..last : Leads(m, Within(m, k, s, 0), F[i], Within(m, k, s, i))}
<1>4. 0 \in S
    <2>1. \A a \in Within(m, k, s, 0) : a \in Readers(m)
        BY <1>2, InsideFits DEF Within
    <2>2. \A a \in Within(m, k, s, 0) : Path(m, a, <<>>, a)
        BY <2>1, PathOfNone
    <2>3. <<>> \in Seq(CodePoint)
        OBVIOUS
    <2>4. Leads(m, Within(m, k, s, 0), <<>>, Within(m, k, s, 0))
        BY <2>2, <2>3 DEF Leads
    <2>5. QED BY <1>2, <1>3, <2>4
<1>5. ASSUME NEW i \in 1..last, i - 1 \in S
      PROVE  i \in S
    <2>1. i - 1 \in 0..last /\ i - 1 < last /\ (i - 1) + 1 = i /\ i \in 0..last
        BY <1>2
    <2>2. Leads(m, Within(m, k, s, 0), F[i-1], Within(m, k, s, i - 1))
        BY <1>5
    <2>3. Leads(m, Within(m, k, s, i - 1), Escaped(s[i]), Within(m, k, s, i))
        <3>1. Leads(m, Within(m, k, s, i - 1), Escaped(s[(i-1)+1]), Within(m, k, s, (i - 1) + 1))
            BY <2>1, EscapedRead
        <3>2. QED BY <2>1, <3>1
    <2>4. F[i] = F[i-1] \o Escaped(s[i])
        BY <1>2, <1>3
    <2>5. Leads(m, Within(m, k, s, 0), F[i], Within(m, k, s, i))
        BY <2>2, <2>3, <2>4, LeadsConcat
    <2>6. QED BY <2>1, <2>5
<1>6. last \in S
    <2>1. last \in Nat
        BY <1>2
    <2> HIDE DEF S, last
    <2>2. \A i \in 0..last : i \in S
        BY <1>4, <1>5, <2>1, UpTo
    <2>3. QED BY <2>1, <2>2
<1>7. QED
    BY <1>3, <1>6 DEF json_escape, seqs

(* A string in its quotes is read when it is due.                          *)
LEMMA StringRead ==
    ASSUME NEW m, NEW k, NEW s, Due(m, k, s)
    PROVE  Leads(m, Outside(m, k), Quoted(s), Outside(m, k + 1))
<1>1. QUOTE \in CodePoint
    <2>1. QUOTE \in 0..255
        BY DEF QUOTE
    <2>2. QED BY <2>1, CodePoints
<1>2. /\ m \in Seq(Token) /\ s \in Seq(CodePoint) /\ k \in 0..Len(m) /\ k + 1 \in 0..Len(m)
      /\ 0 \in 0..Len(s) /\ Len(s) \in 0..Len(s)
    BY DEF Due
<1>3. /\ Begin(s, 0) = <<>> /\ Begin(s, Len(s)) = s
      /\ Append(Begin(m, k), String(s)) = Begin(m, k + 1)
    BY <1>2, Beginnings DEF Due
<1>4. Leads(m, Outside(m, k), <<QUOTE>>, Within(m, k, s, 0))
    <2>1. ASSUME NEW a \in Outside(m, k)
          PROVE  \E b \in Within(m, k, s, 0) : Path(m, a, <<QUOTE>>, b)
        <3> DEFINE b == At("in", a.hex, m, k, s, 0)
        <3>1. a \in Readers(m) /\ a.hex \in Digits /\ a.mode = "out" /\ a.tokens = Begin(m, k)
            BY OutsideAre DEF Outside
        <3>2. b \in Readers(m) /\ b \in Within(m, k, s, 0)
            BY <1>2, <3>1, InsideFits DEF Within
        <3>3. Step(a, QUOTE, b)
            BY <1>3, <3>1 DEF Step, At
        <3> HIDE DEF b
        <3>4. QED BY <1>1, <3>1, <3>2, <3>3, PathOfOne
    <2>2. QED BY <1>1, <2>1 DEF Leads
<1>5. Leads(m, Within(m, k, s, Len(s)), <<QUOTE>>, Outside(m, k + 1))
    <2>1. ASSUME NEW h \in Digits
          PROVE  \E b \in Outside(m, k + 1) : Path(m, At("in", h, m, k, s, Len(s)), <<QUOTE>>, b)
        <3> DEFINE a == At("in", h, m, k, s, Len(s))
                   b == Reader("out", h, s, Begin(m, k + 1))
        <3>1. a \in Readers(m)
            BY <1>2, InsideFits
        <3>2. b \in Outside(m, k + 1)
            BY <1>2, OutsideFits
        <3>3. b \in Readers(m)
            BY <3>2 DEF Outside
        <3>4. Step(a, QUOTE, b)
            BY <1>3 DEF Step, At, Reader
        <3> HIDE DEF a, b
        <3>5. Path(m, a, <<QUOTE>>, b)
            BY <1>1, <3>1, <3>3, <3>4, PathOfOne
        <3>6. QED BY <3>2, <3>5 DEF a
    <2>2. QED BY <1>1, <2>1 DEF Leads, Within
<1>6. QED
    BY <1>4, <1>5, TextRead, LeadsConcat DEF Quoted

-----------------------------------------------------------------------------
(* The documents.                                                          *)

(* Characters that say some tokens, wherever those are due.                *)
Encodes(d, said) ==
    /\ d \in Seq(CodePoint) /\ said \in Seq(Token)
    /\ \A m \in Seq(Token), k \in Nat :
          (/\ k + Len(said) <= Len(m)
           /\ \A i \in 1..Len(said) : m[k+i] = said[i])
          => Leads(m, Outside(m, k), d, Outside(m, k + Len(said)))

LEMMA NothingEncodes == Encodes(<<>>, <<>>)
<1>1. <<>> \in Seq(CodePoint) /\ <<>> \in Seq(Token) /\ Len(<<>>) = 0
    OBVIOUS
<1>2. ASSUME NEW m \in Seq(Token), NEW k \in Nat
      PROVE  Leads(m, Outside(m, k), <<>>, Outside(m, k + 0))
    <2>1. \A a \in Outside(m, k) : Path(m, a, <<>>, a)
        BY PathOfNone DEF Outside
    <2>2. k + 0 = k
        OBVIOUS
    <2>3. QED BY <1>1, <2>1, <2>2 DEF Leads
<1>3. QED
    BY <1>1, <1>2 DEF Encodes

LEMMA BlankEncodes ==
    ASSUME NEW c \in Blanks
    PROVE  Encodes(<<c>>, <<>>)
<1>1. <<>> \in Seq(Token) /\ Len(<<>>) = 0
    OBVIOUS
<1>2. <<c>> \in Seq(CodePoint)
    <2>1. c \in 0..255
        BY DEF Blanks, SPACE, TAB, NEWLINE, RETURN
    <2>2. QED BY <2>1, CodePoints
<1>3. ASSUME NEW m \in Seq(Token), NEW k \in Nat
      PROVE  Leads(m, Outside(m, k), <<c>>, Outside(m, k + 0))
    <2>1. k + 0 = k
        OBVIOUS
    <2>2. QED BY <2>1, BlankRead
<1>4. QED
    BY <1>1, <1>2, <1>3 DEF Encodes

LEMMA MarkEncodes ==
    ASSUME NEW c \in Marks
    PROVE  Encodes(<<c>>, <<Mark(c)>>)
<1>1. <<Mark(c)>> \in Seq(Token) /\ Len(<<Mark(c)>>) = 1 /\ <<Mark(c)>>[1] = Mark(c)
    BY DEF Token
<1>2. <<c>> \in Seq(CodePoint)
    <2>1. c \in 0..255
        BY DEF Marks, OPEN, CLOSE, OPEN_OBJECT, CLOSE_OBJECT, COMMA, COLON
    <2>2. QED BY <2>1, CodePoints
<1>3. ASSUME NEW m \in Seq(Token), NEW k \in Nat, k + 1 <= Len(m), m[k+1] = Mark(c)
      PROVE  Leads(m, Outside(m, k), <<c>>, Outside(m, k + 1))
    BY <1>3, MarkRead
<1>4. QED
    BY <1>1, <1>2, <1>3 DEF Encodes

LEMMA StringEncodes ==
    ASSUME NEW s \in Seq(CodePoint)
    PROVE  Encodes(Quoted(s), <<String(s)>>)
<1>1. <<String(s)>> \in Seq(Token) /\ Len(<<String(s)>>) = 1 /\ <<String(s)>>[1] = String(s)
    BY DEF Token
<1>2. ASSUME NEW m \in Seq(Token), NEW k \in Nat, k + 1 <= Len(m), m[k+1] = String(s)
      PROVE  Leads(m, Outside(m, k), Quoted(s), Outside(m, k + 1))
    <2>1. Due(m, k, s)
        BY <1>2 DEF Due
    <2>2. QED BY <2>1, StringRead
<1>3. Quoted(s) \in Seq(CodePoint)
    <2>1. Len(<<String(s)>>) <= Len(<<String(s)>>) /\ Due(<<String(s)>>, 0, s)
        BY <1>1 DEF Due
    <2>2. QED BY <2>1, StringRead DEF Leads
<1>4. QED
    BY <1>1, <1>2, <1>3 DEF Encodes

LEMMA EncodesConcat ==
    ASSUME NEW d, NEW e, NEW x, NEW y, Encodes(d, x), Encodes(e, y)
    PROVE  Encodes(d \o e, x \o y)
<1>1. /\ d \in Seq(CodePoint) /\ e \in Seq(CodePoint)
      /\ x \in Seq(Token) /\ y \in Seq(Token)
    BY DEF Encodes
<1>2. d \o e \in Seq(CodePoint) /\ x \o y \in Seq(Token)
    BY <1>1, ConcatProperties
<1> DEFINE p == Len(x)
           q == Len(y)
           z == x \o y
<1>3. p \in Nat /\ q \in Nat
    BY <1>1
<1>4. /\ Len(z) = p + q
      /\ \A i \in 1..p : z[i] = x[i]
      /\ \A j \in 1..q : z[p + j] = y[j]
    BY <1>1, ConcatElements
<1> HIDE DEF p, q, z
<1>5. ASSUME NEW m \in Seq(Token), NEW k \in Nat, k + Len(z) <= Len(m),
             \A i \in 1..Len(z) : m[k+i] = z[i]
      PROVE  Leads(m, Outside(m, k), d \o e, Outside(m, k + Len(z)))
    <2>1. Len(m) \in Nat
        OBVIOUS
    <2>2. /\ k + p <= Len(m) /\ (k + p) + q <= Len(m) /\ k + p \in Nat
          /\ (k + p) + q = k + Len(z)
        BY <1>3, <1>4, <1>5, <2>1
    <2>3. \A i \in 1..p : m[k+i] = x[i]
        <3>1. \A i \in 1..p : i \in 1..Len(z)
            BY <1>3, <1>4
        <3>2. QED BY <1>4, <1>5, <3>1
    <2>4. \A j \in 1..q : m[(k+p)+j] = y[j]
        <3> SUFFICES ASSUME NEW j \in 1..q
                     PROVE  m[(k+p)+j] = y[j]
            OBVIOUS
        <3>1. p + j \in 1..Len(z) /\ (k + p) + j = k + (p + j)
            BY <1>3, <1>4
        <3>2. m[k + (p + j)] = z[p + j]
            BY <1>5, <3>1
        <3>3. z[p + j] = y[j]
            BY <1>4
        <3>4. QED BY <3>1, <3>2, <3>3
    <2>5. Leads(m, Outside(m, k), d, Outside(m, k + p))
        BY <2>2, <2>3 DEF Encodes, p
    <2>6. Leads(m, Outside(m, k + p), e, Outside(m, (k + p) + q))
        BY <2>2, <2>4 DEF Encodes, q
    <2>7. QED BY <2>2, <2>5, <2>6, LeadsConcat
<1>6. QED
    BY <1>2, <1>5 DEF Encodes, z

(* One more character of a document, and one more token of what it says.   *)
LEMMA EncodesMore ==
    ASSUME NEW d \in Seq(CodePoint), NEW i \in 0..Len(d), i < Len(d), NEW x, NEW y,
           Encodes(Begin(d, i), x), Encodes(<<d[i+1]>>, y)
    PROVE  Encodes(Begin(d, i + 1), x \o y)
<1>1. /\ Begin(d, i) \in Seq(CodePoint) /\ d[i+1] \in CodePoint
      /\ Append(Begin(d, i), d[i+1]) = Begin(d, i + 1)
    BY Beginnings
<1>2. Begin(d, i) \o <<d[i+1]>> = Begin(d, i + 1)
    BY <1>1, AppendIsConcat
<1>3. QED
    BY <1>2, EncodesConcat

LEMMA SaysMore ==
    ASSUME NEW x \in Seq(Token), NEW y \in Seq(Token), NEW i \in 0..Len(y), i < Len(y),
           NEW d, NEW e, Encodes(d, x \o Begin(y, i)), Encodes(e, <<y[i+1]>>)
    PROVE  Encodes(d \o e, x \o Begin(y, i + 1))
<1>1. /\ Begin(y, i) \in Seq(Token) /\ y[i+1] \in Token
      /\ Append(Begin(y, i), y[i+1]) = Begin(y, i + 1)
    BY Beginnings
<1>2. Begin(y, i) \o <<y[i+1]>> = Begin(y, i + 1)
    BY <1>1, AppendIsConcat
<1>3. <<y[i+1]>> \in Seq(Token)
    BY <1>1
<1>4. (x \o Begin(y, i)) \o <<y[i+1]>> = x \o Begin(y, i + 1)
    <2> DEFINE v == <<y[i+1]>>
               w == Begin(y, i)
    <2>1. v \in Seq(Token) /\ w \in Seq(Token) /\ x \in Seq(Token)
        BY <1>1, <1>3
    <2> HIDE DEF v, w
    <2>2. (x \o w) \o v = x \o (w \o v)
        BY <2>1, ConcatAssociative, SMTT(30)
    <2>3. QED BY <1>2, <2>2 DEF v, w
<1>5. QED
    BY <1>4, EncodesConcat

(* A mark may have a blank after it.                                       *)
LEMMA SpacedMarkEncodes ==
    ASSUME NEW c \in Marks
    PROVE  Encodes(<<c, SPACE>>, <<Mark(c)>>)
<1> DEFINE d == <<c, SPACE>>
<1>1. SPACE \in Blanks
    BY DEF Blanks
<1>2. c \in CodePoint /\ SPACE \in CodePoint
    <2>1. c \in 0..255 /\ SPACE \in 0..255
        BY DEF Marks, OPEN, CLOSE, OPEN_OBJECT, CLOSE_OBJECT, COMMA, COLON, SPACE
    <2>2. QED BY <2>1, CodePoints
<1>3. d \in Seq(CodePoint) /\ Len(d) = 2 /\ d[1] = c /\ d[2] = SPACE
    BY <1>2
<1> HIDE DEF d
<1>4. d \in Seq(CodePoint) /\ 0 \in 0..Len(d) /\ 0 < Len(d) /\ 1 \in 0..Len(d) /\ 1 < Len(d)
    BY <1>3
<1>5. Begin(d, 0) = <<>> /\ Begin(d, 2) = d
    <2>1. Begin(d, 0) = <<>> /\ Begin(d, Len(d)) = d
        BY <1>4, Beginnings
    <2>2. QED BY <1>3, <2>1
<1>6. Encodes(Begin(d, 1), <<>> \o <<Mark(c)>>)
    <2>1. Encodes(Begin(d, 0), <<>>) /\ Encodes(<<d[0 + 1]>>, <<Mark(c)>>)
        BY <1>3, <1>5, NothingEncodes, MarkEncodes
    <2>2. Encodes(Begin(d, 0 + 1), <<>> \o <<Mark(c)>>)
        BY <1>4, <2>1, EncodesMore
    <2>3. QED BY <2>2
<1>7. Encodes(Begin(d, 2), (<<>> \o <<Mark(c)>>) \o <<>>)
    <2>1. Encodes(<<d[1 + 1]>>, <<>>)
        BY <1>1, <1>3, BlankEncodes
    <2>2. Encodes(Begin(d, 1 + 1), (<<>> \o <<Mark(c)>>) \o <<>>)
        BY <1>4, <1>6, <2>1, EncodesMore
    <2>3. QED BY <2>2
<1>8. (<<>> \o <<Mark(c)>>) \o <<>> = <<Mark(c)>>
    OBVIOUS
<1>9. QED
    BY <1>5, <1>7, <1>8 DEF d

LEMMA EncodesFlatten ==
    ASSUME NEW ds \in Seq(Seq(CodePoint)), NEW ts \in Seq(Seq(Token)), Len(ds) = Len(ts),
           \A i \in 1..Len(ds) : Encodes(ds[i], ts[i])
    PROVE  Encodes(FlattenSeq(ds), FlattenSeq(ts))
<1>1. PICK F \in [0..Len(ds) -> Seq(CodePoint)] :
          /\ F[0] = <<>> /\ F[Len(ds)] = FlattenSeq(ds)
          /\ \A i \in 1..Len(ds) : F[i] = F[i-1] \o ds[i]
    BY FlattenSteps
<1>2. PICK G \in [0..Len(ts) -> Seq(Token)] :
          /\ G[0] = <<>> /\ G[Len(ts)] = FlattenSeq(ts)
          /\ \A i \in 1..Len(ts) : G[i] = G[i-1] \o ts[i]
    BY FlattenSteps
<1> DEFINE last == Len(ds)
           S == {i \in 0..last : Encodes(F[i], G[i])}
<1>3. last \in Nat
    OBVIOUS
<1>4. 0 \in S
    BY <1>1, <1>2, <1>3, NothingEncodes
<1>5. ASSUME NEW i \in 1..last, i - 1 \in S
      PROVE  i \in S
    <2>1. F[i] = F[i-1] \o ds[i] /\ G[i] = G[i-1] \o ts[i]
        BY <1>1, <1>2
    <2>2. Encodes(F[i-1], G[i-1]) /\ Encodes(ds[i], ts[i])
        BY <1>5
    <2>3. Encodes(F[i], G[i])
        BY <2>1, <2>2, EncodesConcat
    <2>4. QED BY <1>3, <2>3
<1>6. last \in S
    <2> HIDE DEF S, last
    <2>1. \A i \in 0..last : i \in S
        BY <1>3, <1>4, <1>5, UpTo
    <2>2. QED BY <1>3, <2>1
<1>7. QED
    BY <1>1, <1>2, <1>6

LEMMA KeywordsEncode ==
    ASSUME NEW keywords \in Seq(Seq(CodePoint))
    PROVE  Encodes(keywords_json(keywords), KeywordTokens(keywords))
<1> DEFINE D(i) == (IF i > 1 THEN <<COMMA, SPACE>> ELSE <<>>) \o Quoted(keywords[i])
           T(i) == (IF i > 1 THEN <<Mark(COMMA)>> ELSE <<>>) \o <<String(keywords[i])>>
           last == Len(keywords)
           ds == [i \in 1..last |-> D(i)]
           ts == [i \in 1..last |-> T(i)]
<1>1. last \in Nat /\ DOMAIN keywords = 1..last /\ \A i \in 1..last : keywords[i] \in Seq(CodePoint)
    BY ElementOfSeq
<1>2. Encodes(<<COMMA, SPACE>>, <<Mark(COMMA)>>)
    <2>1. COMMA \in Marks
        BY DEF Marks
    <2>2. QED BY <2>1, SpacedMarkEncodes
<1>3. ASSUME NEW i \in 1..last
      PROVE  Encodes(D(i), T(i))
    <2>1. Encodes(Quoted(keywords[i]), <<String(keywords[i])>>)
        BY <1>1, StringEncodes
    <2>2. Encodes(IF i > 1 THEN <<COMMA, SPACE>> ELSE <<>>, IF i > 1 THEN <<Mark(COMMA)>> ELSE <<>>)
        BY <1>2, NothingEncodes
    <2>3. QED BY <2>1, <2>2, EncodesConcat
<1> HIDE DEF D, T
<1>4. \A i \in 1..last : D(i) \in Seq(CodePoint) /\ T(i) \in Seq(Token)
    BY <1>3 DEF Encodes
<1>5. ds \in Seq(Seq(CodePoint)) /\ ts \in Seq(Seq(Token))
    BY <1>1, <1>4
<1>6. Len(ds) = last /\ Len(ts) = last /\ \A i \in 1..last : Encodes(ds[i], ts[i])
    BY <1>1, <1>3
<1>7. Encodes(FlattenSeq(ds), FlattenSeq(ts))
    <2> HIDE DEF ds, ts, last
    <2>1. QED BY <1>5, <1>6, EncodesFlatten
<1>8. OPEN \in Marks /\ CLOSE \in Marks
    BY DEF Marks
<1>9. Encodes(<<OPEN>> \o FlattenSeq(ds) \o <<CLOSE>>,
              <<Mark(OPEN)>> \o FlattenSeq(ts) \o <<Mark(CLOSE)>>)
    <2>1. Encodes(<<OPEN>> \o FlattenSeq(ds), <<Mark(OPEN)>> \o FlattenSeq(ts))
        BY <1>7, <1>8, MarkEncodes, EncodesConcat
    <2>2. QED BY <1>8, <2>1, MarkEncodes, EncodesConcat
<1>10. /\ ds = [i \in DOMAIN keywords |->
                   (IF i > 1 THEN <<COMMA, SPACE>> ELSE <<>>) \o Quoted(keywords[i])]
       /\ ts = [i \in DOMAIN keywords |->
                   (IF i > 1 THEN <<Mark(COMMA)>> ELSE <<>>) \o <<String(keywords[i])>>]
    BY <1>1 DEF D, T
<1>11. QED
    BY <1>9, <1>10 DEF keywords_json, KeywordTokens

LEMMA KeysAreTexts == description \in Seq(CodePoint) /\ sql \in Seq(CodePoint)
<1>1. \A c \in 0..255 : c \in CodePoint
    BY CodePoints
<1>2. /\ 97 \in CodePoint /\ 98 \in CodePoint /\ 99 \in CodePoint /\ 100 \in CodePoint
      /\ 101 \in CodePoint /\ 105 \in CodePoint /\ 108 \in CodePoint /\ 110 \in CodePoint
      /\ 111 \in CodePoint /\ 112 \in CodePoint /\ 113 \in CodePoint /\ 114 \in CodePoint
      /\ 115 \in CodePoint /\ 116 \in CodePoint
    BY <1>1
<1>3. description \in Seq(CodePoint)
    BY <1>2 DEF description
<1>4. sql \in Seq(CodePoint)
    BY <1>2 DEF sql
<1>5. QED
    BY <1>3, <1>4

(* What stands before an example's first key.                              *)
LEMMA IndentEncodes == Encodes(<<NEWLINE, SPACE, SPACE, OPEN_OBJECT>>, <<Mark(OPEN_OBJECT)>>)
<1> DEFINE d == <<NEWLINE, SPACE, SPACE, OPEN_OBJECT>>
<1>1. NEWLINE \in Blanks /\ SPACE \in Blanks /\ OPEN_OBJECT \in Marks
    BY DEF Blanks, Marks
<1>2. NEWLINE \in CodePoint /\ SPACE \in CodePoint /\ OPEN_OBJECT \in CodePoint
    <2>1. NEWLINE \in 0..255 /\ SPACE \in 0..255 /\ OPEN_OBJECT \in 0..255
        BY DEF NEWLINE, SPACE, OPEN_OBJECT
    <2>2. QED BY <2>1, CodePoints
<1>3. /\ d \in Seq(CodePoint) /\ Len(d) = 4
      /\ d[1] = NEWLINE /\ d[2] = SPACE /\ d[3] = SPACE /\ d[4] = OPEN_OBJECT
    BY <1>2
<1> HIDE DEF d
<1>4. /\ d \in Seq(CodePoint) /\ 0 \in 0..Len(d) /\ 0 < Len(d) /\ 1 \in 0..Len(d) /\ 1 < Len(d)
      /\ 2 \in 0..Len(d) /\ 2 < Len(d) /\ 3 \in 0..Len(d) /\ 3 < Len(d)
    BY <1>3
<1>5. Begin(d, 0) = <<>> /\ Begin(d, 4) = d
    <2>1. Begin(d, 0) = <<>> /\ Begin(d, Len(d)) = d
        BY <1>4, Beginnings
    <2>2. QED BY <1>3, <2>1
<1>6. Encodes(Begin(d, 1), <<>> \o <<>>)
    <2>1. Encodes(Begin(d, 0), <<>>) /\ Encodes(<<d[0 + 1]>>, <<>>)
        BY <1>1, <1>3, <1>5, NothingEncodes, BlankEncodes
    <2>2. Encodes(Begin(d, 0 + 1), <<>> \o <<>>)
        BY <1>4, <2>1, EncodesMore
    <2>3. QED BY <2>2
<1>7. Encodes(Begin(d, 2), (<<>> \o <<>>) \o <<>>)
    <2>1. Encodes(<<d[1 + 1]>>, <<>>)
        BY <1>1, <1>3, BlankEncodes
    <2>2. Encodes(Begin(d, 1 + 1), (<<>> \o <<>>) \o <<>>)
        BY <1>4, <1>6, <2>1, EncodesMore
    <2>3. QED BY <2>2
<1>8. Encodes(Begin(d, 3), ((<<>> \o <<>>) \o <<>>) \o <<>>)
    <2>1. Encodes(<<d[2 + 1]>>, <<>>)
        BY <1>1, <1>3, BlankEncodes
    <2>2. Encodes(Begin(d, 2 + 1), ((<<>> \o <<>>) \o <<>>) \o <<>>)
        BY <1>4, <1>7, <2>1, EncodesMore
    <2>3. QED BY <2>2
<1>9. Encodes(Begin(d, 4), (((<<>> \o <<>>) \o <<>>) \o <<>>) \o <<Mark(OPEN_OBJECT)>>)
    <2>1. Encodes(<<d[3 + 1]>>, <<Mark(OPEN_OBJECT)>>)
        BY <1>1, <1>3, MarkEncodes
    <2>2. Encodes(Begin(d, 3 + 1), (((<<>> \o <<>>) \o <<>>) \o <<>>) \o <<Mark(OPEN_OBJECT)>>)
        BY <1>4, <1>8, <2>1, EncodesMore
    <2>3. QED BY <2>2
<1>10. (((<<>> \o <<>>) \o <<>>) \o <<>>) \o <<Mark(OPEN_OBJECT)>> = <<Mark(OPEN_OBJECT)>>
    OBVIOUS
<1>11. QED
    BY <1>5, <1>9, <1>10 DEF d

(* An example, after what is before it.                                    *)
LEMMA ExampleEncodes ==
    ASSUME NEW a \in Seq(CodePoint), NEW b \in Seq(CodePoint), NEW d, NEW x, Encodes(d, x)
    PROVE  Encodes(d \o <<NEWLINE, SPACE, SPACE, OPEN_OBJECT>>
                     \o Quoted(description) \o <<COLON, SPACE>> \o Quoted(a)
                     \o <<COMMA, SPACE>>
                     \o Quoted(sql) \o <<COLON, SPACE>> \o Quoted(b)
                     \o <<CLOSE_OBJECT>>,
                   x \o <<Mark(OPEN_OBJECT), String(description), Mark(COLON),
                          String(a), Mark(COMMA), String(sql), Mark(COLON),
                          String(b), Mark(CLOSE_OBJECT)>>)
<1> DEFINE y == <<Mark(OPEN_OBJECT), String(description), Mark(COLON),
                  String(a), Mark(COMMA), String(sql), Mark(COLON),
                  String(b), Mark(CLOSE_OBJECT)>>
           d1 == d \o <<NEWLINE, SPACE, SPACE, OPEN_OBJECT>>
           d2 == d1 \o Quoted(description)
           d3 == d2 \o <<COLON, SPACE>>
           d4 == d3 \o Quoted(a)
           d5 == d4 \o <<COMMA, SPACE>>
           d6 == d5 \o Quoted(sql)
           d7 == d6 \o <<COLON, SPACE>>
           d8 == d7 \o Quoted(b)
           d9 == d8 \o <<CLOSE_OBJECT>>
<1>1. OPEN_OBJECT \in Marks /\ COLON \in Marks /\ COMMA \in Marks /\ CLOSE_OBJECT \in Marks
    BY DEF Marks
<1>2. /\ Mark(OPEN_OBJECT) \in Token /\ Mark(COLON) \in Token /\ Mark(COMMA) \in Token
      /\ Mark(CLOSE_OBJECT) \in Token /\ String(description) \in Token /\ String(sql) \in Token
      /\ String(a) \in Token /\ String(b) \in Token
    BY <1>1, KeysAreTexts DEF Token
<1>3. /\ y \in Seq(Token) /\ Len(y) = 9
      /\ y[1] = Mark(OPEN_OBJECT) /\ y[2] = String(description) /\ y[3] = Mark(COLON)
      /\ y[4] = String(a) /\ y[5] = Mark(COMMA) /\ y[6] = String(sql) /\ y[7] = Mark(COLON)
      /\ y[8] = String(b) /\ y[9] = Mark(CLOSE_OBJECT)
    BY <1>2
<1> HIDE DEF y
<1>4. /\ y \in Seq(Token) /\ x \in Seq(Token)
      /\ \A i \in 0..8 : i \in 0..Len(y) /\ i < Len(y)
    BY <1>3 DEF Encodes
<1>5. \A i \in 0..8 : \A e, f :
          Encodes(e, x \o Begin(y, i)) /\ Encodes(f, <<y[i+1]>>)
          => Encodes(e \o f, x \o Begin(y, i + 1))
    BY <1>4, SaysMore
<1>6. Begin(y, 0) = <<>> /\ Begin(y, 9) = y
    <2>1. Begin(y, 0) = <<>> /\ Begin(y, Len(y)) = y
        BY <1>4, Beginnings
    <2>2. QED BY <1>3, <2>1
<1>7. /\ Encodes(<<NEWLINE, SPACE, SPACE, OPEN_OBJECT>>, <<y[1]>>)
      /\ Encodes(Quoted(description), <<y[2]>>) /\ Encodes(<<COLON, SPACE>>, <<y[3]>>)
      /\ Encodes(Quoted(a), <<y[4]>>) /\ Encodes(<<COMMA, SPACE>>, <<y[5]>>)
      /\ Encodes(Quoted(sql), <<y[6]>>) /\ Encodes(<<COLON, SPACE>>, <<y[7]>>)
      /\ Encodes(Quoted(b), <<y[8]>>) /\ Encodes(<<CLOSE_OBJECT>>, <<y[9]>>)
    <2>1. /\ Encodes(<<COLON, SPACE>>, <<Mark(COLON)>>)
          /\ Encodes(<<COMMA, SPACE>>, <<Mark(COMMA)>>)
          /\ Encodes(<<CLOSE_OBJECT>>, <<Mark(CLOSE_OBJECT)>>)
        BY <1>1, SpacedMarkEncodes, MarkEncodes
    <2>2. /\ Encodes(Quoted(description), <<String(description)>>)
          /\ Encodes(Quoted(sql), <<String(sql)>>)
          /\ Encodes(Quoted(a), <<String(a)>>) /\ Encodes(Quoted(b), <<String(b)>>)
        BY KeysAreTexts, StringEncodes
    <2>3. QED BY <1>3, <2>1, <2>2, IndentEncodes
<1>8. Encodes(d, x \o Begin(y, 0))
    <2>1. x \o <<>> = x
        BY <1>4, ConcatEmptySeq
    <2>2. QED BY <1>6, <2>1
<1>9. Encodes(d1, x \o Begin(y, 1))
    <2>1. Encodes(d1, x \o Begin(y, 0 + 1))
        BY <1>5, <1>7, <1>8
    <2>2. QED BY <2>1
<1>10. Encodes(d2, x \o Begin(y, 2))
    <2> HIDE DEF d1
    <2>1. Encodes(d2, x \o Begin(y, 1 + 1))
        BY <1>5, <1>7, <1>9
    <2>2. QED BY <2>1
<1>11. Encodes(d3, x \o Begin(y, 3))
    <2> HIDE DEF d2
    <2>1. Encodes(d3, x \o Begin(y, 2 + 1))
        BY <1>5, <1>7, <1>10
    <2>2. QED BY <2>1
<1>12. Encodes(d4, x \o Begin(y, 4))
    <2> HIDE DEF d3
    <2>1. Encodes(d4, x \o Begin(y, 3 + 1))
        BY <1>5, <1>7, <1>11
    <2>2. QED BY <2>1
<1>13. Encodes(d5, x \o Begin(y, 5))
    <2> HIDE DEF d4
    <2>1. Encodes(d5, x \o Begin(y, 4 + 1))
        BY <1>5, <1>7, <1>12
    <2>2. QED BY <2>1
<1>14. Encodes(d6, x \o Begin(y, 6))
    <2> HIDE DEF d5
    <2>1. Encodes(d6, x \o Begin(y, 5 + 1))
        BY <1>5, <1>7, <1>13
    <2>2. QED BY <2>1
<1>15. Encodes(d7, x \o Begin(y, 7))
    <2> HIDE DEF d6
    <2>1. Encodes(d7, x \o Begin(y, 6 + 1))
        BY <1>5, <1>7, <1>14
    <2>2. QED BY <2>1
<1>16. Encodes(d8, x \o Begin(y, 8))
    <2> HIDE DEF d7
    <2>1. Encodes(d8, x \o Begin(y, 7 + 1))
        BY <1>5, <1>7, <1>15
    <2>2. QED BY <2>1
<1>17. Encodes(d9, x \o Begin(y, 9))
    <2> HIDE DEF d8
    <2>1. Encodes(d9, x \o Begin(y, 8 + 1))
        BY <1>5, <1>7, <1>16
    <2>2. QED BY <2>1
<1>18. QED
    BY <1>6, <1>17 DEF y

LEMMA ExamplesEncode ==
    ASSUME NEW examples \in Seq(Seq(CodePoint) \X Seq(CodePoint))
    PROVE  Encodes(example_queries_json(examples), ExampleTokens(examples))
<1> DEFINE D(i) == (IF i > 1 THEN <<COMMA>> ELSE <<>>)
                   \o <<NEWLINE, SPACE, SPACE, OPEN_OBJECT>>
                   \o Quoted(description) \o <<COLON, SPACE>> \o Quoted(examples[i][1])
                   \o <<COMMA, SPACE>>
                   \o Quoted(sql) \o <<COLON, SPACE>> \o Quoted(examples[i][2])
                   \o <<CLOSE_OBJECT>>
           T(i) == (IF i > 1 THEN <<Mark(COMMA)>> ELSE <<>>)
                   \o <<Mark(OPEN_OBJECT), String(description), Mark(COLON),
                        String(examples[i][1]), Mark(COMMA), String(sql), Mark(COLON),
                        String(examples[i][2]), Mark(CLOSE_OBJECT)>>
           last == Len(examples)
           ds == [i \in 1..last |-> D(i)]
           ts == [i \in 1..last |-> T(i)]
<1>1. /\ last \in Nat /\ DOMAIN examples = 1..last
      /\ \A i \in 1..last : examples[i] \in Seq(CodePoint) \X Seq(CodePoint)
    BY ElementOfSeq
<1>2. ASSUME NEW i \in 1..last
      PROVE  Encodes(D(i), T(i))
    <2>1. examples[i][1] \in Seq(CodePoint) /\ examples[i][2] \in Seq(CodePoint)
        BY <1>1
    <2>2. COMMA \in Marks
        BY DEF Marks
    <2>3. Encodes(IF i > 1 THEN <<COMMA>> ELSE <<>>, IF i > 1 THEN <<Mark(COMMA)>> ELSE <<>>)
        BY <2>2, MarkEncodes, NothingEncodes
    <2>4. QED BY <2>1, <2>3, ExampleEncodes
<1> HIDE DEF D, T
<1>3. \A i \in 1..last : D(i) \in Seq(CodePoint) /\ T(i) \in Seq(Token)
    BY <1>2 DEF Encodes
<1>4. ds \in Seq(Seq(CodePoint)) /\ ts \in Seq(Seq(Token))
    BY <1>1, <1>3
<1>5. Len(ds) = last /\ Len(ts) = last /\ \A i \in 1..last : Encodes(ds[i], ts[i])
    BY <1>1, <1>2
<1>6. Encodes(FlattenSeq(ds), FlattenSeq(ts))
    <2> HIDE DEF ds, ts, last
    <2>1. QED BY <1>4, <1>5, EncodesFlatten
<1>7. OPEN \in Marks /\ CLOSE \in Marks /\ NEWLINE \in Blanks
    BY DEF Marks, Blanks
<1> DEFINE f == FlattenSeq(ds)
           g == FlattenSeq(ts)
<1> HIDE DEF f, g
<1>8. Encodes(<<NEWLINE, CLOSE>>, <<Mark(CLOSE)>>)
    <2> DEFINE d == <<NEWLINE, CLOSE>>
    <2>1. NEWLINE \in CodePoint /\ CLOSE \in CodePoint
        <3>1. NEWLINE \in 0..255 /\ CLOSE \in 0..255
            BY DEF NEWLINE, CLOSE
        <3>2. QED BY <3>1, CodePoints
    <2>2. d \in Seq(CodePoint) /\ Len(d) = 2 /\ d[1] = NEWLINE /\ d[2] = CLOSE
        BY <2>1
    <2> HIDE DEF d
    <2>3. d \in Seq(CodePoint) /\ 0 \in 0..Len(d) /\ 0 < Len(d) /\ 1 \in 0..Len(d) /\ 1 < Len(d)
        BY <2>2
    <2>4. Begin(d, 0) = <<>> /\ Begin(d, 2) = d
        <3>1. Begin(d, 0) = <<>> /\ Begin(d, Len(d)) = d
            BY <2>3, Beginnings
        <3>2. QED BY <2>2, <3>1
    <2>5. Encodes(Begin(d, 1), <<>> \o <<>>)
        <3>1. Encodes(Begin(d, 0), <<>>) /\ Encodes(<<d[0 + 1]>>, <<>>)
            BY <1>7, <2>2, <2>4, NothingEncodes, BlankEncodes
        <3>2. Encodes(Begin(d, 0 + 1), <<>> \o <<>>)
            BY <2>3, <3>1, EncodesMore
        <3>3. QED BY <3>2
    <2>6. Encodes(Begin(d, 2), (<<>> \o <<>>) \o <<Mark(CLOSE)>>)
        <3>1. Encodes(<<d[1 + 1]>>, <<Mark(CLOSE)>>)
            BY <1>7, <2>2, MarkEncodes
        <3>2. Encodes(Begin(d, 1 + 1), (<<>> \o <<>>) \o <<Mark(CLOSE)>>)
            BY <2>3, <2>5, <3>1, EncodesMore
        <3>3. QED BY <3>2
    <2>7. (<<>> \o <<>>) \o <<Mark(CLOSE)>> = <<Mark(CLOSE)>>
        OBVIOUS
    <2>8. QED BY <2>4, <2>6, <2>7 DEF d
<1>9. Encodes(<<OPEN>> \o f \o <<NEWLINE, CLOSE>>, <<Mark(OPEN)>> \o g \o <<Mark(CLOSE)>>)
    <2>1. Encodes(<<OPEN>> \o f, <<Mark(OPEN)>> \o g)
        BY <1>6, <1>7, MarkEncodes, EncodesConcat DEF f, g
    <2>2. QED BY <1>8, <2>1, EncodesConcat
<1>10. /\ ds = [i \in DOMAIN examples |->
                   (IF i > 1 THEN <<COMMA>> ELSE <<>>)
                   \o <<NEWLINE, SPACE, SPACE, OPEN_OBJECT>>
                   \o Quoted(description) \o <<COLON, SPACE>> \o Quoted(examples[i][1])
                   \o <<COMMA, SPACE>>
                   \o Quoted(sql) \o <<COLON, SPACE>> \o Quoted(examples[i][2])
                   \o <<CLOSE_OBJECT>>]
       /\ ts = [i \in DOMAIN examples |->
                   (IF i > 1 THEN <<Mark(COMMA)>> ELSE <<>>)
                   \o <<Mark(OPEN_OBJECT), String(description), Mark(COLON),
                        String(examples[i][1]), Mark(COMMA), String(sql), Mark(COLON),
                        String(examples[i][2]), Mark(CLOSE_OBJECT)>>]
    BY <1>1 DEF D, T
<1>11. QED
    BY <1>9, <1>10 DEF f, g, example_queries_json, ExampleTokens

-----------------------------------------------------------------------------
(* The specification.                                                      *)

(* The reader is on a reading of the document that ends with all that was  *)
(* published.                                                              *)
ReadingInv ==
    /\ document \in Seq(CodePoint) /\ meant \in Seq(Token)
    /\ at \in 0..Len(document)
    /\ \E run : /\ Reading(meant, document, run)
                /\ run[at] = Now /\ run[Len(document)] \in Outside(meant, Len(meant))

LEMMA InitReads == Init => ReadingInv
<1> SUFFICES ASSUME Init
             PROVE  ReadingInv
    OBVIOUS
<1>1. Encodes(document, meant)
    <2>1. CASE \E keywords \in KeywordLists :
                  document = keywords_json(keywords) /\ meant = KeywordTokens(keywords)
        BY <2>1, ListsAssumption, KeywordsEncode
    <2>2. CASE \E examples \in ExampleLists :
                  document = example_queries_json(examples) /\ meant = ExampleTokens(examples)
        BY <2>2, ListsAssumption, ExamplesEncode
    <2>3. QED BY <2>1, <2>2 DEF Init
<1>2. document \in Seq(CodePoint) /\ meant \in Seq(Token) /\ at = 0
    BY <1>1 DEF Encodes, Init
<1>3. Len(document) \in Nat /\ Len(meant) \in Nat /\ 0 \in 0..Len(meant) /\ 0 \in 0..Len(document)
    BY <1>2
<1>4. Leads(meant, Outside(meant, 0), document, Outside(meant, Len(meant)))
    <2>1. /\ 0 + Len(meant) <= Len(meant) /\ 0 + Len(meant) = Len(meant)
          /\ \A i \in 1..Len(meant) : meant[0 + i] = meant[i]
        BY <1>3
    <2>2. Leads(meant, Outside(meant, 0), document, Outside(meant, 0 + Len(meant)))
        BY <1>1, <1>2, <2>1 DEF Encodes
    <2>3. QED BY <2>1, <2>2
<1>5. Now \in Outside(meant, 0)
    <2>1. <<>> \in Digits
        <3>1. <<>> \in [1..0 -> 0..15] /\ 0 \in 0..4
            OBVIOUS
        <3>2. QED BY <3>1 DEF Digits
    <2>2. Begin(meant, 0) = <<>> /\ <<>> \in Seq(CodePoint)
        BY <1>2, <1>3, Beginnings
    <2>3. Now = Reader("out", <<>>, <<>>, <<>>)
        BY DEF Now, Init
    <2>4. QED BY <1>2, <1>3, <2>1, <2>2, <2>3, OutsideFits
<1>6. PICK b \in Outside(meant, Len(meant)) : Path(meant, Now, document, b)
    BY <1>4, <1>5 DEF Leads
<1>7. PICK run : Reading(meant, document, run) /\ run[0] = Now /\ run[Len(document)] = b
    BY <1>6 DEF Path
<1>8. QED
    BY <1>2, <1>3, <1>6, <1>7 DEF ReadingInv

LEMMA NextReads == ReadingInv /\ [Next]_vars => ReadingInv'
<1> SUFFICES ASSUME ReadingInv, [Next]_vars
             PROVE  ReadingInv'
    OBVIOUS
<1>1. CASE Next
    <2>1. PICK run : /\ Reading(meant, document, run)
                     /\ run[at] = Now /\ run[Len(document)] \in Outside(meant, Len(meant))
        BY DEF ReadingInv
    <2>2. /\ at < Len(document) /\ at' = at + 1 /\ document' = document /\ meant' = meant
          /\ Step(Now, document[at + 1], Now')
        BY <1>1, NextIsStep
    <2>3. /\ at \in Nat /\ at + 1 \in 1..Len(document) /\ at + 1 \in 0..Len(document)
          /\ (at + 1) - 1 = at
        BY <2>2 DEF ReadingInv
    <2>4. Step(run[at], document[at + 1], run[at + 1])
        <3>1. Step(run[(at + 1) - 1], document[at + 1], run[at + 1])
            BY <2>1, <2>3 DEF Reading
        <3>2. QED BY <2>3, <3>1
    <2>5. run[at'] = Now'
        BY <2>1, <2>2, <2>4, StepUnique
    <2>6. /\ document' \in Seq(CodePoint) /\ meant' \in Seq(Token) /\ at' \in 0..Len(document')
          /\ Reading(meant', document', run)
          /\ run[Len(document')] \in Outside(meant', Len(meant'))
        BY <2>1, <2>2, <2>3 DEF ReadingInv
    <2>7. QED BY <2>5, <2>6 DEF ReadingInv
<1>2. CASE UNCHANGED vars
    BY <1>2 DEF vars, ReadingInv, Now
<1>3. QED
    BY <1>1, <1>2

LEMMA ReadingGoesOn == Spec => []ReadingInv
    BY InitReads, NextReads, PTL DEF Spec


-----------------------------------------------------------------------------
(* The theorems.                                                           *)

LEMMA NowFits == ReadingInv => Now \in Readers(meant)
    BY DEF ReadingInv, Reading

(* Types: the reader is somewhere in the document, has no more digits than *)
(* a \u escape has, and no more tokens than were published.                *)
THEOREM JsonTypes == Spec => []TypeOK
<1>1. ReadingInv => TypeOK
    <2> SUFFICES ASSUME ReadingInv
                 PROVE  TypeOK
        OBVIOUS
    <2>1. Now \in Readers(meant)
        BY NowFits
    <2>2. Now.mode = mode /\ Now.hex = hex /\ Now.text = text /\ Now.tokens = tokens
        BY DEF Now, Reader
    <2> HIDE DEF Now
    <2>3. /\ mode \in {"out", "in", "escape", "hex"} /\ hex \in Digits
          /\ text \in Seq(CodePoint) /\ IsPrefix(tokens, meant)
        BY <2>1, <2>2 DEF Readers, Fits
    <2>4. Len(tokens) <= Len(meant)
        BY <2>3 DEF IsPrefix
    <2>5. QED BY <2>3, <2>4 DEF ReadingInv, TypeOK, Digits
<1>2. QED
    BY <1>1, ReadingGoesOn, PTL

(* What json_escape, keywords_json and example_queries_json write means    *)
(* what it was made of, whatever the texts: at every character a reader    *)
(* has what was published so far, and of the string it is in the beginning. *)
THEOREM ReadIsPublished == Spec => []ReadSoFar
<1>1. ReadingInv => ReadSoFar
    <2> SUFFICES ASSUME ReadingInv
                 PROVE  ReadSoFar
        OBVIOUS
    <2>1. Now \in Readers(meant)
        BY NowFits
    <2>2. Now.mode = mode /\ Now.text = text /\ Now.tokens = tokens
        BY DEF Now, Reader
    <2> HIDE DEF Now
    <2>3. Fits(meant, Now)
        BY <2>1 DEF Readers
    <2>4. QED BY <2>2, <2>3 DEF Fits, ReadSoFar
<1>2. QED
    BY <1>1, ReadingGoesOn, PTL

(* At the end of a document all that was published has been read, and the  *)
(* last string is closed.                                                  *)
AllIsRead == at = Len(document) => mode = "out" /\ tokens = meant

THEOREM TheEndIsTheEnd == Spec => []AllIsRead
<1>1. ReadingInv => AllIsRead
    <2> SUFFICES ASSUME ReadingInv, at = Len(document)
                 PROVE  mode = "out" /\ tokens = meant
        BY DEF AllIsRead
    <2>1. Now \in Outside(meant, Len(meant))
        BY DEF ReadingInv
    <2>2. Now.mode = mode /\ Now.tokens = tokens
        BY DEF Now, Reader
    <2> HIDE DEF Now
    <2>3. Begin(meant, Len(meant)) = meant
        <3>1. meant \in Seq(Token) /\ Len(meant) \in 0..Len(meant)
            BY DEF ReadingInv
        <3>2. QED BY <3>1, Beginnings
    <2>4. QED BY <2>1, <2>2, <2>3 DEF Outside
<1>2. QED
    BY <1>1, ReadingGoesOn, PTL

(* No character of a document is one that a reader of JSON has no rule for *)
(* where it stands: a raw control character in a string, an escape that is *)
(* not one, a letter outside the strings.                                  *)
HasARule ==
    at < Len(document) =>
        \/ mode = "out" /\ Here \in Blanks \cup Marks \cup {QUOTE}
        \/ mode = "in" /\ (Here \in {QUOTE, BACKSLASH} \/ Here >= SPACE)
        \/ mode = "escape" /\ Here \in DOMAIN Short \cup {u}
        \/ mode = "hex" /\ \E d \in 0..15 : Here = HexDigit(d)

THEOREM EveryCharacterHasARule == Spec => []HasARule
<1>1. ReadingInv => HasARule
    <2> SUFFICES ASSUME ReadingInv, at < Len(document)
                 PROVE  HasARule
        BY DEF HasARule
    <2>1. PICK run : Reading(meant, document, run) /\ run[at] = Now
        BY DEF ReadingInv
    <2>2. at + 1 \in 1..Len(document) /\ (at + 1) - 1 = at
        BY DEF ReadingInv
    <2>3. Step(Now, document[at + 1], run[at + 1])
        <3>1. Step(run[(at + 1) - 1], document[at + 1], run[at + 1])
            BY <2>1, <2>2 DEF Reading
        <3>2. QED BY <2>1, <2>2, <3>1
    <2>4. Now.mode = mode
        BY DEF Now, Reader
    <2> HIDE DEF Now
    <2>5. QED BY <2>3, <2>4 DEF Step, HasARule, Here
<1>2. QED
    BY <1>1, ReadingGoesOn, PTL
=============================================================================
