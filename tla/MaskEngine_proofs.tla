-------------------------- MODULE MaskEngine_proofs --------------------------
(***************************************************************************)
(* Proofs about the engine, for every alphabet, key and value: what        *)
(* fpe_over_alphabet returns, that it is undone by the same call in the    *)
(* other direction, that it never meets the Fpe error, and that the check  *)
(* digits it makes are those the tests accept.                             *)
(***************************************************************************)
EXTENDS TestOracles, FiniteSetTheorems, SequenceTheorems, TLAPS

(* What the proofs take from FF1 (NIST SP 800-38G, the `fpe` crate): each  *)
(* direction maps numeral strings to numeral strings of the same length,   *)
(* and undoes the other.                                                   *)
Numeral(radix, n) == [1..n -> 0..(radix - 1)]
Ff1Contract ==
    \A key : \A radix \in Nat, n \in Nat : \A nums \in Numeral(radix, n) :
        \A forward \in BOOLEAN :
            /\ Ff1(key, radix, nums, forward) \in Numeral(radix, n)
            /\ Ff1(key, radix, Ff1(key, radix, nums, forward), ~forward) = nums

-----------------------------------------------------------------------------
(* Slots number the positions of a set from left to right.                 *)

(* A set of positions is finite.                                           *)
LEMMA FinitePositions ==
    ASSUME NEW n \in Nat, NEW P \in SUBSET (1..n)
    PROVE  IsFiniteSet(P) /\ Cardinality(P) \in Nat
<1>1. IsFiniteSet(1..n)
    <2>1. 1 \in Int /\ n \in Int
        OBVIOUS
    <2>2. QED BY <2>1, FS_Interval
<1>2. IsFiniteSet(P)
    BY <1>1, FS_Subset
<1>3. QED
    BY <1>2, FS_CardinalityType

(* The slots of a set of positions are 1, ..., its cardinality.            *)
LEMMA SlotType ==
    ASSUME NEW n \in Nat, NEW P \in SUBSET (1..n), NEW i \in P
    PROVE  Slot(P, i) \in 1..Cardinality(P)
<1> DEFINE Q == {j \in P : j <= i}
<1>1. IsFiniteSet(P)
    BY FinitePositions
<1>2. IsFiniteSet(Q) /\ Cardinality(Q) <= Cardinality(P)
    <2>1. Q \in SUBSET P
        OBVIOUS
    <2>2. QED BY <1>1, <2>1, FS_Subset
<1>3. Q # {}
    BY i <= i
<1>4. Cardinality(Q) \in Nat /\ Cardinality(Q) # 0
    BY <1>2, <1>3, FS_EmptySet, FS_CardinalityType
<1>5. Cardinality(P) \in Nat
    BY <1>1, FS_CardinalityType
<1>6. Slot(P, i) = Cardinality(Q)
    BY DEF Slot
<1>7. QED
    BY <1>2, <1>4, <1>5, <1>6

(* A position further right has a higher slot.                             *)
LEMMA SlotIncreases ==
    ASSUME NEW n \in Nat, NEW P \in SUBSET (1..n),
           NEW i \in P, NEW j \in P, i < j
    PROVE  Slot(P, i) < Slot(P, j)
<1> DEFINE Q(k) == {l \in P : l <= k}
<1>1. IsFiniteSet(P)
    BY FinitePositions
<1>2. Q(j) \in SUBSET P
    OBVIOUS
<1>3. IsFiniteSet(Q(j))
    BY <1>1, <1>2, FS_Subset
<1>4. Q(i) \in SUBSET Q(j) /\ Q(i) # Q(j)
    <2>1. j \in Q(j) /\ j \notin Q(i)
        OBVIOUS
    <2>2. ASSUME NEW l \in P, l <= i PROVE l <= j
        BY <2>2
    <2>3. QED BY <2>1, <2>2
<1>5. /\ IsFiniteSet(Q(i))
      /\ Cardinality(Q(i)) <= Cardinality(Q(j))
      /\ Cardinality(Q(j)) # Cardinality(Q(i))
    BY <1>3, <1>4, FS_Subset
<1>6. Cardinality(Q(i)) \in Nat /\ Cardinality(Q(j)) \in Nat
    BY <1>3, <1>5, FS_CardinalityType
<1>7. Slot(P, i) = Cardinality(Q(i)) /\ Slot(P, j) = Cardinality(Q(j))
    BY DEF Slot
<1>8. QED
    BY <1>5, <1>6, <1>7

(* Every slot is the slot of exactly one position, the one AtSlot returns. *)
LEMMA SlotOnto ==
    ASSUME NEW n \in Nat, NEW P \in SUBSET (1..n), NEW s \in 1..Cardinality(P)
    PROVE  AtSlot(P, s) \in P /\ Slot(P, AtSlot(P, s)) = s
<1> DEFINE f == [i \in P |-> Slot(P, i)]
           T == 1..Cardinality(P)
<1>1. IsFiniteSet(P) /\ Cardinality(P) \in Nat
    BY FinitePositions
<1>2. IsFiniteSet(T) /\ Cardinality(T) = Cardinality(P)
    <2>1. 1 \in Int /\ Cardinality(P) \in Int
        BY <1>1
    <2>2. IsFiniteSet(T) /\ Cardinality(T) = IF 1 > Cardinality(P) THEN 0
                                               ELSE Cardinality(P) - 1 + 1
        BY <2>1, FS_Interval
    <2>3. QED BY <1>1, <2>2
<1>3. f \in [P -> T]
    BY SlotType
<1>4. \A i, j \in P : f[i] = f[j] => i = j
    <2>1. SUFFICES ASSUME NEW i \in P, NEW j \in P, i < j PROVE f[i] # f[j]
        BY P \subseteq Int
    <2>2. Slot(P, i) < Slot(P, j)
        BY <2>1, SlotIncreases
    <2>3. Slot(P, i) \in 1..Cardinality(P) /\ Slot(P, j) \in 1..Cardinality(P)
        BY SlotType
    <2>4. QED BY <1>1, <2>2, <2>3
<1>5. f \in Injection(P, T)
    <2>1. f \in {M \in [P -> T] : \A i, j \in P : M[i] = M[j] => i = j}
        BY <1>3, <1>4
    <2>2. QED BY <2>1, Zenon DEF Injection, IsInjective
<1>6. f \in Surjection(P, T)
    BY <1>2, <1>5, FS_Injection
<1>7. \E i \in P : Slot(P, i) = s
    BY <1>6 DEF Surjection
<1>8. QED
    BY <1>7 DEF AtSlot

(* AtSlot and Slot are inverse to each other.                              *)
LEMMA AtSlotOfSlot ==
    ASSUME NEW n \in Nat, NEW P \in SUBSET (1..n), NEW i \in P
    PROVE  AtSlot(P, Slot(P, i)) = i
<1> DEFINE k == AtSlot(P, Slot(P, i))
<1>1. k \in P /\ Slot(P, k) = Slot(P, i)
    BY SlotType, SlotOnto
<1>2. Slot(P, i) \in Int
    <2>1. Slot(P, i) \in 1..Cardinality(P)
        BY SlotType
    <2>2. QED BY <2>1, FinitePositions
<1>3. ~(Slot(P, k) < Slot(P, i)) /\ ~(Slot(P, i) < Slot(P, k))
    BY <1>1, <1>2
<1>4. ~(k < i) /\ ~(i < k)
    BY <1>1, <1>3, SlotIncreases
<1>5. k \in Int /\ i \in Int
    <2>1. \A x \in P : x \in Int
        OBVIOUS
    <2>2. QED BY <1>1, <2>1, Zenon
<1>6. k = i
    BY <1>4, <1>5
<1>7. QED
    BY <1>6

-----------------------------------------------------------------------------
(* Numerals and characters of an alphabet correspond one to one.           *)

(* value_of gives each character of an alphabet a numeral, and symbol_of   *)
(* gives the character back.                                               *)
LEMMA SymbolOfValue ==
    ASSUME NEW alphabet, IsAlphabet(alphabet), NEW c \in Symbols(alphabet)
    PROVE  /\ value_of(alphabet, c) \in 0..(Len(alphabet) - 1)
           /\ symbol_of(alphabet, value_of(alphabet, c)) = c
<1> DEFINE i == CHOOSE i \in DOMAIN alphabet : alphabet[i] = c
<1>1. i \in DOMAIN alphabet /\ alphabet[i] = c
    BY DEF Symbols
<1>2. Len(alphabet) \in Nat /\ DOMAIN alphabet = 1..Len(alphabet)
    BY LenProperties DEF IsAlphabet
<1>3. i - 1 \in 0..(Len(alphabet) - 1) /\ (i - 1) + 1 = i
    BY <1>1, <1>2
<1>4. value_of(alphabet, c) = i - 1
    BY DEF value_of
<1>5. QED
    BY <1>1, <1>3, <1>4 DEF symbol_of

(* symbol_of gives each numeral a character, and value_of gives the        *)
(* numeral back.                                                           *)
LEMMA ValueOfSymbol ==
    ASSUME NEW alphabet, IsAlphabet(alphabet), NEW v \in 0..(Len(alphabet) - 1)
    PROVE  /\ symbol_of(alphabet, v) \in Symbols(alphabet)
           /\ value_of(alphabet, symbol_of(alphabet, v)) = v
<1>1. Len(alphabet) \in Nat /\ DOMAIN alphabet = 1..Len(alphabet)
    BY LenProperties DEF IsAlphabet
<1>2. v + 1 \in DOMAIN alphabet
    BY <1>1
<1>3. symbol_of(alphabet, v) \in Symbols(alphabet)
    BY <1>2 DEF symbol_of, Symbols
<1> DEFINE i == CHOOSE i \in DOMAIN alphabet : alphabet[i] = alphabet[v + 1]
<1>4. i \in DOMAIN alphabet /\ alphabet[i] = alphabet[v + 1]
    BY <1>2
<1>5. i = v + 1
    BY <1>2, <1>4 DEF IsAlphabet
<1>6. value_of(alphabet, symbol_of(alphabet, v)) = i - 1
    BY DEF value_of, symbol_of
<1>7. (v + 1) - 1 = v
    BY <1>1
<1>8. QED
    BY <1>3, <1>5, <1>6, <1>7

-----------------------------------------------------------------------------
(* Reading numerals out of a value and splicing them back in.              *)

(* The positions of a value are positions of a sequence, so the lemmas on  *)
(* slots apply to them.                                                    *)
LEMMA PositionsType ==
    ASSUME NEW alphabet, NEW value \in Value
    PROVE  /\ Len(value) \in Nat /\ DOMAIN value = 1..Len(value)
           /\ Positions(value, alphabet) \in SUBSET (1..Len(value))
           /\ Cardinality(Positions(value, alphabet)) \in Nat
<1>1. Len(value) \in Nat /\ DOMAIN value = 1..Len(value)
    BY LenProperties DEF Value
<1>2. Positions(value, alphabet) \in SUBSET (1..Len(value))
    BY <1>1 DEF Positions
<1>3. QED
    BY <1>1, <1>2, FinitePositions

(* The numerals of a value: one for each of its positions, below the       *)
(* radix.                                                                  *)
LEMMA NumeralsType ==
    ASSUME NEW alphabet, IsAlphabet(alphabet), NEW value \in Value
    PROVE  /\ Numerals(value, alphabet)
                \in Numeral(Len(alphabet), Cardinality(Positions(value, alphabet)))
           /\ Len(Numerals(value, alphabet)) = Cardinality(Positions(value, alphabet))
<1> DEFINE P == Positions(value, alphabet)
           nums == Numerals(value, alphabet)
<1>1. nums = [s \in 1..Cardinality(P) |-> value_of(alphabet, value[AtSlot(P, s)])]
    BY DEF Numerals
<1>2. ASSUME NEW s \in 1..Cardinality(P)
      PROVE  value_of(alphabet, value[AtSlot(P, s)]) \in 0..(Len(alphabet) - 1)
    <2>1. AtSlot(P, s) \in P
        BY PositionsType, SlotOnto
    <2>2. value[AtSlot(P, s)] \in Symbols(alphabet)
        BY <2>1 DEF Positions
    <2>3. QED BY <2>2, SymbolOfValue
<1> HIDE DEF P, nums
<1>3. nums \in [1..Cardinality(P) -> 0..(Len(alphabet) - 1)]
    BY <1>1, <1>2
<1>4. Cardinality(P) \in Nat
    BY PositionsType DEF P
<1>5. Len(nums) = Cardinality(P)
    BY <1>3, <1>4
<1>6. QED
    BY <1>3, <1>5 DEF Numeral, P, nums

(* Splicing numerals in moves no position into or out of the alphabet and  *)
(* touches no other position.                                              *)
LEMMA SpliceType ==
    ASSUME NEW alphabet, IsAlphabet(alphabet), Symbols(alphabet) \subseteq Char,
           NEW value \in Value,
           NEW nums \in Numeral(Len(alphabet), Cardinality(Positions(value, alphabet)))
    PROVE  /\ Splice(value, alphabet, nums) \in Value
           /\ Len(Splice(value, alphabet, nums)) = Len(value)
           /\ Positions(Splice(value, alphabet, nums), alphabet) = Positions(value, alphabet)
           /\ \A i \in Positions(value, alphabet) :
                 Splice(value, alphabet, nums)[i]
                 = symbol_of(alphabet, nums[Slot(Positions(value, alphabet), i)])
           /\ \A i \in DOMAIN value \ Positions(value, alphabet) :
                 Splice(value, alphabet, nums)[i] = value[i]
<1> DEFINE P == Positions(value, alphabet)
           w == Splice(value, alphabet, nums)
<1>1. /\ Len(value) \in Nat /\ DOMAIN value = 1..Len(value)
      /\ P \in SUBSET (1..Len(value)) /\ Cardinality(P) \in Nat
    BY PositionsType
<1>2. \A i \in 1..Len(value) : value[i] \in Char
    BY ElementOfSeq DEF Value
<1>3. w = [i \in 1..Len(value) |-> IF i \in P THEN symbol_of(alphabet, nums[Slot(P, i)])
                                    ELSE value[i]]
    BY <1>1 DEF Splice
<1>4. \A i \in P : symbol_of(alphabet, nums[Slot(P, i)]) \in Symbols(alphabet)
    <2>1. TAKE i \in P
    <2>2. Slot(P, i) \in 1..Cardinality(P)
        BY <1>1, SlotType
    <2>3. nums[Slot(P, i)] \in 0..(Len(alphabet) - 1)
        BY <2>2 DEF Numeral
    <2>4. QED BY <2>3, ValueOfSymbol
<1>5. \A i \in 1..Len(value) \ P : value[i] \notin Symbols(alphabet)
    BY <1>1 DEF Positions
<1> HIDE DEF P, w
<1>6. w \in [1..Len(value) -> Char]
    BY <1>1, <1>2, <1>3, <1>4
<1>7. w \in Value /\ Len(w) = Len(value) /\ DOMAIN w = 1..Len(value)
    BY <1>1, <1>6, SeqDef DEF Value
<1>8. \A i \in P : w[i] = symbol_of(alphabet, nums[Slot(P, i)])
    BY <1>1, <1>3
<1>9. \A i \in 1..Len(value) \ P : w[i] = value[i]
    BY <1>3
<1>10. Positions(w, alphabet) = P
    BY <1>1, <1>4, <1>5, <1>7, <1>8, <1>9 DEF Positions
<1>11. QED
    BY <1>1, <1>7, <1>8, <1>9, <1>10 DEF P, w

(* What is spliced in is what is read out again.                           *)
LEMMA NumeralsOfSplice ==
    ASSUME NEW alphabet, IsAlphabet(alphabet), Symbols(alphabet) \subseteq Char,
           NEW value \in Value,
           NEW nums \in Numeral(Len(alphabet), Cardinality(Positions(value, alphabet)))
    PROVE  Numerals(Splice(value, alphabet, nums), alphabet) = nums
<1> DEFINE P == Positions(value, alphabet)
           w == Splice(value, alphabet, nums)
<1>1. /\ Positions(w, alphabet) = P
      /\ \A i \in P : w[i] = symbol_of(alphabet, nums[Slot(P, i)])
    BY SpliceType
<1>2. Numerals(w, alphabet)
      = [s \in 1..Cardinality(P) |-> value_of(alphabet, w[AtSlot(P, s)])]
    BY <1>1 DEF Numerals
<1>3. ASSUME NEW s \in 1..Cardinality(P)
      PROVE  value_of(alphabet, w[AtSlot(P, s)]) = nums[s]
    <2>1. AtSlot(P, s) \in P /\ Slot(P, AtSlot(P, s)) = s
        BY PositionsType, SlotOnto
    <2>2. w[AtSlot(P, s)] = symbol_of(alphabet, nums[s])
        BY <1>1, <2>1
    <2>3. nums[s] \in 0..(Len(alphabet) - 1)
        BY DEF Numeral
    <2>4. QED BY <2>2, <2>3, ValueOfSymbol
<1>4. nums = [s \in 1..Cardinality(P) |-> nums[s]]
    BY DEF Numeral
<1> HIDE DEF P, w
<1>5. Numerals(w, alphabet) = nums
    BY <1>2, <1>3, <1>4
<1>6. QED
    BY <1>5 DEF w

(* Splicing a value's own numerals into another splice of it restores it.  *)
LEMMA SpliceBack ==
    ASSUME NEW alphabet, IsAlphabet(alphabet), Symbols(alphabet) \subseteq Char,
           NEW value \in Value,
           NEW nums \in Numeral(Len(alphabet), Cardinality(Positions(value, alphabet)))
    PROVE  Splice(Splice(value, alphabet, nums), alphabet, Numerals(value, alphabet)) = value
<1> DEFINE P == Positions(value, alphabet)
           own == Numerals(value, alphabet)
           w == Splice(value, alphabet, nums)
           x == Splice(w, alphabet, own)
<1>1. own \in Numeral(Len(alphabet), Cardinality(P))
    BY NumeralsType
<1>2. /\ w \in Value /\ Len(w) = Len(value) /\ Positions(w, alphabet) = P
      /\ \A i \in DOMAIN value \ P : w[i] = value[i]
    BY SpliceType
<1>3. own \in Numeral(Len(alphabet), Cardinality(Positions(w, alphabet)))
    BY <1>1, <1>2
<1> HIDE DEF w
<1>4. /\ x \in Value /\ Len(x) = Len(w)
      /\ \A i \in Positions(w, alphabet) :
            x[i] = symbol_of(alphabet, own[Slot(Positions(w, alphabet), i)])
      /\ \A i \in DOMAIN w \ Positions(w, alphabet) : x[i] = w[i]
    BY <1>2, <1>3, SpliceType
<1>5. DOMAIN w = 1..Len(value) /\ DOMAIN value = 1..Len(value)
    BY <1>2, PositionsType
<1>6. ASSUME NEW i \in P
      PROVE  x[i] = value[i]
    <2>1. Slot(P, i) \in 1..Cardinality(P) /\ AtSlot(P, Slot(P, i)) = i
        BY PositionsType, SlotType, AtSlotOfSlot
    <2>2. own[Slot(P, i)] = value_of(alphabet, value[i])
        BY <2>1 DEF Numerals
    <2>3. value[i] \in Symbols(alphabet)
        BY DEF Positions
    <2>4. x[i] = symbol_of(alphabet, own[Slot(P, i)])
        BY <1>2, <1>4
    <2>5. QED BY <2>2, <2>3, <2>4, SymbolOfValue
<1>7. ASSUME NEW i \in 1..Len(value), i \notin P
      PROVE  x[i] = value[i]
    BY <1>2, <1>4, <1>5, <1>7
<1> HIDE DEF x, P
<1>8. \A i \in 1..Len(value) : x[i] = value[i]
    BY <1>6, <1>7
<1>9. x = value
    BY <1>2, <1>4, <1>8, SeqEqual DEF Value
<1>10. QED
    BY <1>9 DEF x, w

-----------------------------------------------------------------------------
(* fpe_over_alphabet.                                                      *)

(* A numeral string as long as min_len_for_radix asks for is one FF1       *)
(* accepts: the length check and FF1's own agree.                          *)
LEMMA LongEnough ==
    ASSUME NEW alphabet \in {DIGITS, ALNUM}, NEW key, NEW forward, NEW nums,
           Len(nums) \in Nat, ~(Len(nums) < min_len_for_radix(Len(alphabet)))
    PROVE  ff1_apply(key, Len(alphabet), nums, forward)
           = Ok(Ff1(key, Len(alphabet), nums, forward))
<1> DEFINE m == min_len_for_radix(Len(alphabet))
<1>1. m \in 0..MIN_DOMAIN /\ InDomain(Len(alphabet), m)
    BY NumberAssumption
<1>2. MIN_DOMAIN \in Nat
    BY NumberAssumption
<1> HIDE DEF m
<1>3. m \in 0..Len(nums)
    BY <1>1, <1>2 DEF m
<1>4. QED
    BY <1>1, <1>3 DEF ff1_apply

(* The two alphabets the engine uses: what fpe_over_alphabet asks of its   *)
(* argument.                                                               *)
LEMMA AlphabetFacts ==
    ASSUME NEW alphabet \in {DIGITS, ALNUM}
    PROVE  /\ IsAlphabet(alphabet) /\ Symbols(alphabet) \subseteq Char
           /\ Symbols(alphabet) \subseteq Symbols(ALNUM)
           /\ At \notin Symbols(alphabet)
           /\ Len(alphabet) \in Nat
<1>1. IsAlphabet(alphabet)
    BY AlphabetAssumption
<1>2. QED
    BY <1>1, AlphabetAssumption, LenProperties DEF IsAlphabet

(* Two values of the same length that agree outside an alphabet and use it *)
(* at the same positions: what fpe_over_alphabet preserves.                *)
SameShape(v, w, alphabet) ==
    /\ w \in Value /\ Len(w) = Len(v)
    /\ Positions(w, alphabet) = Positions(v, alphabet)
    /\ \A i \in DOMAIN v \ Positions(v, alphabet) : w[i] = v[i]

(* The two ways fpe_over_alphabet goes: pass the value through, or splice  *)
(* in what FF1 makes of its numerals.  It never fails.                     *)
LEMMA FpeCases ==
    ASSUME Ff1Contract, NEW alphabet \in {DIGITS, ALNUM}, NEW value \in Value, NEW key,
           NEW forward \in BOOLEAN
    PROVE  LET nums == Numerals(value, alphabet)
               P == Positions(value, alphabet)
               short == Cardinality(P) < min_len_for_radix(Len(alphabet))
               new == Ff1(key, Len(alphabet), nums, forward)
           IN  /\ short => fpe_over_alphabet(key, value, alphabet, forward) = Ok(value)
               /\ ~short => fpe_over_alphabet(key, value, alphabet, forward)
                             = Ok(Splice(value, alphabet, new))
               /\ new \in Numeral(Len(alphabet), Cardinality(P))
               /\ Ff1(key, Len(alphabet), new, ~forward) = nums
<1> DEFINE nums == Numerals(value, alphabet)
           P == Positions(value, alphabet)
           new == Ff1(key, Len(alphabet), nums, forward)
<1>1. IsAlphabet(alphabet) /\ Len(alphabet) \in Nat
    BY AlphabetFacts
<1>2. nums \in Numeral(Len(alphabet), Cardinality(P)) /\ Len(nums) = Cardinality(P)
    BY <1>1, NumeralsType
<1>3. Cardinality(P) \in Nat
    BY PositionsType
<1>4. /\ new \in Numeral(Len(alphabet), Cardinality(P))
      /\ Ff1(key, Len(alphabet), new, ~forward) = nums
    BY <1>1, <1>2, <1>3 DEF Ff1Contract
<1>5. ASSUME Cardinality(P) < min_len_for_radix(Len(alphabet))
      PROVE  fpe_over_alphabet(key, value, alphabet, forward) = Ok(value)
    BY <1>2, <1>5 DEF fpe_over_alphabet
<1>6. ASSUME ~(Cardinality(P) < min_len_for_radix(Len(alphabet)))
      PROVE  fpe_over_alphabet(key, value, alphabet, forward) = Ok(Splice(value, alphabet, new))
    <2>1. ff1_apply(key, Len(alphabet), nums, forward) = Ok(new)
        BY <1>2, <1>3, <1>6, LongEnough
    <2>2. fpe_over_alphabet(key, value, alphabet, forward)
          = IF IsOk(ff1_apply(key, Len(alphabet), nums, forward))
            THEN Ok(Splice(value, alphabet, ff1_apply(key, Len(alphabet), nums, forward).val))
            ELSE ff1_apply(key, Len(alphabet), nums, forward)
        BY <1>2, <1>6 DEF fpe_over_alphabet
    <2>3. IsOk(Ok(new)) /\ Ok(new).val = new
        BY DEF IsOk, Ok
    <2> HIDE DEF nums, new
    <2>4. QED BY <2>1, <2>2, <2>3 DEF nums, new
<1>7. QED
    BY <1>4, <1>5, <1>6

(* fpe_over_alphabet always answers a value, of the shape of its input.    *)
THEOREM FpeKeepsShape ==
    ASSUME Ff1Contract, NEW alphabet \in {DIGITS, ALNUM}, NEW value \in Value, NEW key,
           NEW forward \in BOOLEAN
    PROVE  \E w \in Value : /\ fpe_over_alphabet(key, value, alphabet, forward) = Ok(w)
                            /\ SameShape(value, w, alphabet)
<1> DEFINE new == Ff1(key, Len(alphabet), Numerals(value, alphabet), forward)
           P == Positions(value, alphabet)
           short == Cardinality(P) < min_len_for_radix(Len(alphabet))
<1>1. /\ short => fpe_over_alphabet(key, value, alphabet, forward) = Ok(value)
      /\ ~short => fpe_over_alphabet(key, value, alphabet, forward)
                    = Ok(Splice(value, alphabet, new))
      /\ new \in Numeral(Len(alphabet), Cardinality(P))
    BY FpeCases
<1>2. CASE short
    BY <1>1, <1>2 DEF SameShape
<1>3. CASE ~short
    <2>1. IsAlphabet(alphabet) /\ Symbols(alphabet) \subseteq Char
        BY AlphabetFacts
    <2> HIDE DEF new
    <2>2. SameShape(value, Splice(value, alphabet, new), alphabet)
        BY <1>1, <2>1, SpliceType DEF SameShape
    <2>3. QED BY <1>1, <1>3, <2>2 DEF SameShape
<1>4. QED
    BY <1>2, <1>3

(* "The same key round-trips": decrypting what was encrypted, or           *)
(* encrypting what was decrypted, restores every value, those passed       *)
(* through because they are too short included.                            *)
THEOREM FpeRoundTrip ==
    ASSUME Ff1Contract, NEW alphabet \in {DIGITS, ALNUM}, NEW value \in Value, NEW key,
           NEW forward \in BOOLEAN
    PROVE  fpe_over_alphabet(key, fpe_over_alphabet(key, value, alphabet, forward).val,
                             alphabet, ~forward) = Ok(value)
<1> DEFINE nums == Numerals(value, alphabet)
           new == Ff1(key, Len(alphabet), nums, forward)
           P == Positions(value, alphabet)
           short == Cardinality(P) < min_len_for_radix(Len(alphabet))
           w == Splice(value, alphabet, new)
           back == ~forward
<1> back \in BOOLEAN
    OBVIOUS
<1>1. /\ short => fpe_over_alphabet(key, value, alphabet, forward) = Ok(value)
      /\ ~short => fpe_over_alphabet(key, value, alphabet, forward) = Ok(w)
      /\ new \in Numeral(Len(alphabet), Cardinality(P))
      /\ Ff1(key, Len(alphabet), new, back) = nums
    BY FpeCases
<1> HIDE DEF back
<1>1a. short => fpe_over_alphabet(key, value, alphabet, back) = Ok(value)
    BY FpeCases
<1>2. IsAlphabet(alphabet) /\ Symbols(alphabet) \subseteq Char
    BY AlphabetFacts
<1>3. \A v : Ok(v).val = v
    BY DEF Ok
<1>4. CASE short
    BY <1>1a, <1>1, <1>3, <1>4, Zenon DEF back
<1>5. CASE ~short
    <2> HIDE DEF new
    <2>1. w \in Value /\ Positions(w, alphabet) = P
        BY <1>1, <1>2, SpliceType
    <2>2. Numerals(w, alphabet) = new
        BY <1>1, <1>2, NumeralsOfSplice
    <2>3. fpe_over_alphabet(key, w, alphabet, back)
          = Ok(Splice(w, alphabet, Ff1(key, Len(alphabet), Numerals(w, alphabet), back)))
        <3> HIDE DEF w
        <3>1. QED BY <1>5, <2>1, FpeCases
    <2>4. Ff1(key, Len(alphabet), Numerals(w, alphabet), back) = nums
        BY <1>1, <2>2
    <2>5. Splice(w, alphabet, nums) = value
        BY <1>1, <1>2, SpliceBack
    <2> HIDE DEF w, nums
    <2>6. fpe_over_alphabet(key, w, alphabet, back) = Ok(value)
        BY <2>3, <2>4, <2>5
    <2>7. fpe_over_alphabet(key, value, alphabet, forward).val = w
        BY <1>1, <1>3, <1>5
    <2>8. QED BY <2>6, <2>7 DEF back
<1>6. QED
    BY <1>4, <1>5

-----------------------------------------------------------------------------
(* fpe_email.                                                              *)

(* rsplit_once finds the last @ if there is one.                           *)
LEMMA LastAtType ==
    ASSUME NEW value \in Value
    PROVE  /\ LastAt(value) \in 0..Len(value)
           /\ LastAt(value) # 0 =>
                 /\ value[LastAt(value)] = At
                 /\ \A j \in (LastAt(value) + 1)..Len(value) : value[j] # At
           /\ LastAt(value) = 0 => \A j \in 1..Len(value) : value[j] # At
<1> DEFINE P == {i \in 1..Len(value) : value[i] = At}
           last == AtSlot(P, Cardinality(P))
<1>1. Len(value) \in Nat /\ DOMAIN value = 1..Len(value)
    BY LenProperties DEF Value
<1>2. CASE At \notin Symbols(value)
    BY <1>1, <1>2 DEF LastAt, Symbols
<1>3. CASE At \in Symbols(value)
    <2>1. P \in SUBSET (1..Len(value)) /\ P # {}
        BY <1>1, <1>3 DEF Symbols
    <2> HIDE DEF P
    <2>2. Cardinality(P) \in Nat /\ Cardinality(P) # 0
        BY <1>1, <2>1, FinitePositions, FS_EmptySet
    <2>3. last \in P /\ Slot(P, last) = Cardinality(P)
        <3>1. Cardinality(P) \in 1..Cardinality(P)
            BY <2>2
        <3>2. QED BY <1>1, <2>1, <3>1, SlotOnto
    <2> HIDE DEF last
    <2>4. \A j \in P : ~(last < j)
        <3>1. SUFFICES ASSUME NEW j \in P, last < j PROVE FALSE
            OBVIOUS
        <3>2. Slot(P, last) < Slot(P, j)
            BY <1>1, <2>1, <2>3, <3>1, SlotIncreases
        <3>3. Slot(P, j) \in 1..Cardinality(P)
            BY <1>1, <2>1, SlotType
        <3>4. QED BY <2>2, <2>3, <3>2, <3>3
    <2>5. /\ last \in 1..Len(value) /\ value[last] = At
          /\ \A j \in (last + 1)..Len(value) : value[j] # At
        BY <1>1, <2>3, <2>4 DEF P
    <2>6. /\ LastAt(value) \in DOMAIN value /\ value[LastAt(value)] = At
          /\ \A j \in (LastAt(value) + 1)..Len(value) : value[j] # At
        <3> DEFINE IsLast(i) ==
                value[i] = At /\ \A j \in (i + 1)..Len(value) : value[j] # At
        <3>1. LastAt(value) = CHOOSE i \in DOMAIN value : IsLast(i)
            BY <1>3 DEF LastAt
        <3>2. \E i \in DOMAIN value : IsLast(i)
            BY <1>1, <2>5
        <3> HIDE DEF IsLast
        <3>3. LastAt(value) \in DOMAIN value /\ IsLast(LastAt(value))
            BY <3>1, <3>2
        <3>4. QED BY <3>3 DEF IsLast
    <2>7. QED BY <1>1, <2>6
<1>4. QED
    BY <1>2, <1>3

(* ... and there is only one last @.                                       *)
LEMMA LastAtUnique ==
    ASSUME NEW value \in Value, NEW i \in 1..Len(value), value[i] = At,
           \A j \in (i + 1)..Len(value) : value[j] # At
    PROVE  LastAt(value) = i
<1>1. Len(value) \in Nat
    BY LenProperties DEF Value
<1>2. /\ LastAt(value) \in 0..Len(value)
      /\ LastAt(value) # 0 =>
            /\ value[LastAt(value)] = At
            /\ \A j \in (LastAt(value) + 1)..Len(value) : value[j] # At
      /\ LastAt(value) = 0 => \A j \in 1..Len(value) : value[j] # At
    BY LastAtType
<1>3. LastAt(value) # 0
    BY <1>2
<1>4. ~(LastAt(value) < i) /\ ~(i < LastAt(value))
    BY <1>1, <1>2, <1>3
<1>5. QED
    BY <1>1, <1>2, <1>4

(* Encrypting a value whole leaves its @ signs where they are, so a value  *)
(* without a domain does not get one.                                      *)
LEMMA SameShapeLastAt ==
    ASSUME NEW v \in Value, NEW w, SameShape(v, w, ALNUM)
    PROVE  LastAt(w) = LastAt(v) /\ (HasDomain(w) <=> HasDomain(v))
<1>1. /\ w \in Value /\ Len(w) = Len(v)
      /\ Len(v) \in Nat /\ DOMAIN v = 1..Len(v) /\ DOMAIN w = 1..Len(v)
    <2>1. w \in Value /\ Len(w) = Len(v)
        BY DEF SameShape
    <2>2. QED BY <2>1, PositionsType
<1>2. At \notin Symbols(ALNUM)
    BY AlphabetAssumption
<1>3. \A i \in 1..Len(v) : v[i] = At <=> w[i] = At
    BY <1>1, <1>2 DEF SameShape, Positions
<1>4. LastAt(w) = LastAt(v)
    <2>1. CASE LastAt(v) = 0
        <3>1. \A j \in 1..Len(w) : w[j] # At
            BY <1>1, <1>3, <2>1, LastAtType
        <3>2. At \notin Symbols(w)
            BY <1>1, <3>1 DEF Symbols
        <3>3. QED BY <2>1, <3>2 DEF LastAt
    <2>2. CASE LastAt(v) # 0
        <3>1. /\ LastAt(v) \in 1..Len(v) /\ v[LastAt(v)] = At
              /\ \A j \in (LastAt(v) + 1)..Len(v) : v[j] # At
            BY <1>1, <2>2, LastAtType
        <3>2. /\ LastAt(v) \in 1..Len(w) /\ w[LastAt(v)] = At
              /\ \A j \in (LastAt(v) + 1)..Len(w) : w[j] # At
            BY <1>1, <1>3, <3>1
        <3>3. QED BY <1>1, <3>2, LastAtUnique
    <2>3. QED BY <2>1, <2>2
<1>5. QED
    BY <1>1, <1>4 DEF HasDomain

(* An address splits into its local part and the rest, and putting another *)
(* local part of the same length in front of the rest splits there again.  *)
LEMMA AddressSplits ==
    ASSUME NEW value \in Value, HasDomain(value),
           NEW local \in Value, Len(local) = LastAt(value) - 1
    PROVE  LET address == local \o AtDomain(value)
           IN  /\ address \in Value /\ Len(address) = Len(value)
               /\ LastAt(address) = LastAt(value) /\ HasDomain(address)
               /\ Local(address) = local
               /\ AtDomain(address) = AtDomain(value)
               /\ \A i \in LastAt(value)..Len(value) : address[i] = value[i]
<1> DEFINE a == LastAt(value)
           n == Len(value)
           rest == AtDomain(value)
           address == local \o rest
<1>1. n \in Nat /\ DOMAIN value = 1..n /\ \A i \in 1..n : value[i] \in Char
    BY PositionsType, ElementOfSeq DEF Value
<1>2. /\ a \in 1..(n - 1) /\ value[a] = At
      /\ \A j \in (a + 1)..n : value[j] # At
    BY <1>1, LastAtType DEF HasDomain
<1> HIDE DEF a, n
<1>3. rest = SubSeq(value, a, n)
    BY DEF AtDomain, a, n
<1>4. /\ rest \in Seq(Char) /\ Len(rest) = n - a + 1
      /\ \A i \in 1..(n - a + 1) : rest[i] = value[a + i - 1]
    BY <1>1, <1>2, <1>3, SubSeqProperties
<1> HIDE DEF rest
<1>5. local \in Seq(Char) /\ Len(local) = a - 1
    BY DEF Value, a
<1>6. /\ address \in Seq(Char) /\ Len(address) = Len(local) + Len(rest)
      /\ \A i \in 1..(Len(local) + Len(rest)) :
            address[i] = IF i <= Len(local) THEN local[i] ELSE rest[i - Len(local)]
    BY <1>4, <1>5, ConcatProperties
<1> HIDE DEF address
<1>7. Len(address) = n /\ address \in Value
    BY <1>1, <1>2, <1>4, <1>5, <1>6 DEF Value
<1>8. \A i \in 1..(a - 1) : address[i] = local[i]
    BY <1>1, <1>2, <1>4, <1>5, <1>6
<1>9. \A i \in a..n : address[i] = value[i]
    <2>1. TAKE i \in a..n
    <2>2. i \in 1..(Len(local) + Len(rest)) /\ ~(i <= Len(local))
        BY <1>1, <1>2, <1>4, <1>5
    <2>3. i - Len(local) \in 1..(n - a + 1) /\ a + (i - Len(local)) - 1 = i
        BY <1>1, <1>2, <1>5
    <2>4. QED BY <1>4, <1>6, <2>2, <2>3
<1>10. LastAt(address) = a
    <2>1. /\ a \in 1..Len(address) /\ address[a] = At
          /\ \A j \in (a + 1)..Len(address) : address[j] # At
        BY <1>1, <1>2, <1>7, <1>9
    <2>2. QED BY <1>7, <2>1, LastAtUnique
<1>11. HasDomain(address)
    BY <1>2, <1>7, <1>10 DEF HasDomain
<1>12. Local(address) = local
    <2>1. Local(address) = SubSeq(address, 1, a - 1)
        BY <1>10 DEF Local
    <2>2. \A i \in 1..(a - 1) : address[i] \in Char
        BY <1>5, <1>8, ElementOfSeq
    <2>3. /\ Local(address) \in Seq(Char) /\ Len(Local(address)) = a - 1
          /\ \A i \in 1..(a - 1) : Local(address)[i] = address[i]
        BY <1>1, <1>2, <2>1, <2>2, SubSeqProperties
    <2>4. QED BY <1>5, <1>8, <2>3, SeqEqual
<1>13. AtDomain(address) = rest
    <2>1. AtDomain(address) = SubSeq(address, a, n)
        BY <1>7, <1>10 DEF AtDomain
    <2>2. \A i \in a..n : address[i] \in Char
        BY <1>1, <1>2, <1>9
    <2>3. /\ AtDomain(address) \in Seq(Char) /\ Len(AtDomain(address)) = n - a + 1
          /\ \A i \in 1..(n - a + 1) : AtDomain(address)[i] = address[a + i - 1]
        BY <1>1, <1>2, <2>1, <2>2, SubSeqProperties
    <2>4. \A i \in 1..(n - a + 1) : AtDomain(address)[i] = rest[i]
        <3>1. TAKE i \in 1..(n - a + 1)
        <3>2. a + i - 1 \in a..n
            BY <1>1, <1>2
        <3>3. QED BY <1>4, <1>9, <2>3, <3>2
    <2>5. QED BY <1>4, <2>3, <2>4, SeqEqual
<1>14. QED
    BY <1>7, <1>9, <1>10, <1>11, <1>12, <1>13 DEF address, rest, a, n

(* An address is its local part and, from the last @ on, its domain.       *)
LEMMA LocalType ==
    ASSUME NEW value \in Value, HasDomain(value)
    PROVE  /\ Local(value) \in Value /\ Len(Local(value)) = LastAt(value) - 1
           /\ Local(value) \o AtDomain(value) = value
<1> DEFINE a == LastAt(value)
           n == Len(value)
<1>1. n \in Nat /\ \A i \in 1..n : value[i] \in Char
    BY PositionsType, ElementOfSeq DEF Value
<1>2. a \in 1..(n - 1)
    BY <1>1 DEF HasDomain
<1> HIDE DEF a, n
<1>3. Local(value) = SubSeq(value, 1, a - 1) /\ AtDomain(value) = SubSeq(value, a, n)
    BY DEF Local, AtDomain, a, n
<1>4. /\ SubSeq(value, 1, a - 1) \in Seq(Char)
      /\ Len(SubSeq(value, 1, a - 1)) = a - 1
    <2>1. \A i \in 1..(a - 1) : value[i] \in Char
        BY <1>1, <1>2
    <2>2. QED BY <1>1, <1>2, <2>1, SubSeqProperties
<1>5. SubSeq(value, 1, a - 1) \o SubSeq(value, (a - 1) + 1, n) = SubSeq(value, 1, n)
    <2>1. value \in Seq(Char) /\ Len(value) = n
        BY DEF Value, n
    <2>2. 1 \in 1..(Len(value) + 1) /\ a - 1 \in (1 - 1)..Len(value)
          /\ n \in (a - 1)..Len(value)
        BY <1>1, <1>2, <2>1
    <2>3. QED BY <2>1, <2>2, ConcatAdjacentSubSeq
<1>6. SubSeq(value, 1, n) = value /\ (a - 1) + 1 = a
    BY <1>2, SubSeqFull DEF Value, n
<1>7. QED
    BY <1>3, <1>4, <1>5, <1>6 DEF a, Value

(* fpe_email on an address: the local part encrypted, the rest as it was.  *)
LEMMA EmailOfAddress ==
    ASSUME NEW key, NEW value \in Value, HasDomain(value), NEW forward \in BOOLEAN,
           NEW enc, fpe_over_alphabet(key, Local(value), ALNUM, forward) = Ok(enc)
    PROVE  fpe_email(key, value, forward) = Ok(enc \o AtDomain(value))
<1>1. fpe_email(key, value, forward)
      = IF IsOk(fpe_over_alphabet(key, Local(value), ALNUM, forward))
        THEN Ok(fpe_over_alphabet(key, Local(value), ALNUM, forward).val \o AtDomain(value))
        ELSE fpe_over_alphabet(key, Local(value), ALNUM, forward)
    BY DEF fpe_email
<1>2. IsOk(Ok(enc)) /\ Ok(enc).val = enc
    BY DEF IsOk, Ok
<1>3. QED
    BY <1>1, <1>2

(* An address keeps its domain, and any value its length and its last @.   *)
THEOREM EmailKeepsDomain ==
    ASSUME Ff1Contract, NEW key, NEW value \in Value, NEW forward \in BOOLEAN
    PROVE  \E w \in Value :
              /\ fpe_email(key, value, forward) = Ok(w)
              /\ Len(w) = Len(value) /\ LastAt(w) = LastAt(value)
              /\ HasDomain(w) <=> HasDomain(value)
              /\ HasDomain(value) => AtDomain(w) = AtDomain(value)
<1>1. CASE ~HasDomain(value)
    <2>1. fpe_email(key, value, forward) = fpe_over_alphabet(key, value, ALNUM, forward)
        BY <1>1 DEF fpe_email
    <2>2. PICK w \in Value : /\ fpe_over_alphabet(key, value, ALNUM, forward) = Ok(w)
                             /\ SameShape(value, w, ALNUM)
        BY FpeKeepsShape
    <2>3. Len(w) = Len(value)
        BY <2>2 DEF SameShape
    <2>4. LastAt(w) = LastAt(value) /\ (HasDomain(w) <=> HasDomain(value))
        BY <2>2, SameShapeLastAt
    <2>5. QED BY <1>1, <2>1, <2>2, <2>3, <2>4
<1>2. CASE HasDomain(value)
    <2>1. Local(value) \in Value /\ Len(Local(value)) = LastAt(value) - 1
        BY <1>2, LocalType
    <2>2. PICK enc \in Value :
              /\ fpe_over_alphabet(key, Local(value), ALNUM, forward) = Ok(enc)
              /\ SameShape(Local(value), enc, ALNUM)
        BY <2>1, FpeKeepsShape
    <2>3. Len(enc) = LastAt(value) - 1
        BY <2>1, <2>2 DEF SameShape
    <2>4. fpe_email(key, value, forward) = Ok(enc \o AtDomain(value))
        BY <1>2, <2>2, EmailOfAddress
    <2>5. QED BY <1>2, <2>3, <2>4, AddressSplits
<1>3. QED
    BY <1>1, <1>2

(* The email profile round-trips, on every value: addresses, values with   *)
(* several @ signs, and values that are not addresses at all.              *)
THEOREM EmailRoundTrip ==
    ASSUME Ff1Contract, NEW key, NEW value \in Value, NEW forward \in BOOLEAN
    PROVE  fpe_email(key, fpe_email(key, value, forward).val, ~forward) = Ok(value)
<1> DEFINE back == ~forward
<1> back \in BOOLEAN
    OBVIOUS
<1>1. \A v : Ok(v).val = v
    BY DEF Ok
<1>2. CASE ~HasDomain(value)
    <2>1. PICK w \in Value : /\ fpe_over_alphabet(key, value, ALNUM, forward) = Ok(w)
                             /\ SameShape(value, w, ALNUM)
        BY FpeKeepsShape
    <2>2. fpe_over_alphabet(key, w, ALNUM, back) = Ok(value)
        <3>1. fpe_over_alphabet(key, value, ALNUM, forward).val = w
            BY <1>1, <2>1
        <3>2. QED BY <3>1, FpeRoundTrip
    <2>3. ~HasDomain(w)
        BY <1>2, <2>1, SameShapeLastAt
    <2>4. fpe_email(key, value, forward).val = w
        BY <1>1, <1>2, <2>1 DEF fpe_email
    <2> HIDE DEF back
    <2>5. fpe_email(key, w, back) = Ok(value)
        BY <2>2, <2>3 DEF fpe_email
    <2>6. QED BY <2>4, <2>5 DEF back
<1>3. CASE HasDomain(value)
    <2>1. /\ Local(value) \in Value /\ Len(Local(value)) = LastAt(value) - 1
          /\ Local(value) \o AtDomain(value) = value
        BY <1>3, LocalType
    <2>2. PICK enc \in Value :
              /\ fpe_over_alphabet(key, Local(value), ALNUM, forward) = Ok(enc)
              /\ SameShape(Local(value), enc, ALNUM)
        BY <2>1, FpeKeepsShape
    <2>3. fpe_over_alphabet(key, enc, ALNUM, back) = Ok(Local(value))
        <3>1. fpe_over_alphabet(key, Local(value), ALNUM, forward).val = enc
            BY <1>1, <2>2
        <3>2. QED BY <2>1, <3>1, FpeRoundTrip
    <2> DEFINE w == enc \o AtDomain(value)
    <2>4. Len(enc) = LastAt(value) - 1
        BY <2>1, <2>2 DEF SameShape
    <2>5. /\ w \in Value /\ HasDomain(w)
          /\ Local(w) = enc /\ AtDomain(w) = AtDomain(value)
        BY <1>3, <2>4, AddressSplits
    <2>6. fpe_email(key, value, forward).val = w
        <3>1. fpe_email(key, value, forward) = Ok(w)
            BY <1>3, <2>2, EmailOfAddress
        <3>2. QED BY <1>1, <3>1
    <2> HIDE DEF w, back
    <2>7. fpe_email(key, w, back) = Ok(Local(value) \o AtDomain(w))
        BY <2>3, <2>5, EmailOfAddress
    <2>8. QED BY <2>1, <2>5, <2>6, <2>7 DEF back
<1>4. QED
    BY <1>2, <1>3

-----------------------------------------------------------------------------
(* fpe_card.                                                               *)

(* luhn_check_digit answers a digit, whatever the payload.                 *)
LEMMA LuhnType ==
    ASSUME NEW n \in Nat, NEW payload \in Numeral(Len(DIGITS), n)
    PROVE  luhn_check_digit(payload) \in 0..(Len(DIGITS) - 1)
<1>1. Len(DIGITS) \in Nat /\ Len(DIGITS) > 1
    BY AlphabetFacts, AlphabetAssumption DEF IsAlphabet
<1>2. IsFiniteSet((DOMAIN payload) \X (1..Len(DIGITS)))
    <2>1. IsFiniteSet(1..n) /\ IsFiniteSet(1..Len(DIGITS))
        <3>1. \A m \in Nat : 1..m \in SUBSET (1..m)
            OBVIOUS
        <3>2. QED BY <1>1, <3>1, FinitePositions
    <2>2. DOMAIN payload = 1..n
        BY DEF Numeral
    <2>3. QED BY <2>1, <2>2, FS_Product
<1>3. LuhnSum(payload) \in Nat
    <2> DEFINE U == {u \in (DOMAIN payload) \X (1..Len(DIGITS)) :
                        u[2] <= LuhnWeight(payload, u[1])}
    <2>1. U \in SUBSET ((DOMAIN payload) \X (1..Len(DIGITS)))
        OBVIOUS
    <2> HIDE DEF U
    <2>2. IsFiniteSet(U)
        BY <1>2, <2>1, FS_Subset
    <2>3. Cardinality(U) \in Nat
        BY <2>2, FS_CardinalityType
    <2>4. QED BY <2>3 DEF LuhnSum, U
<1> DEFINE r == Len(DIGITS)
           x == r - (LuhnSum(payload) % r)
<1>4. \A m \in Int : m % r \in 0..(r - 1)
    BY <1>1
<1>5. x \in Int
    BY <1>1, <1>3, <1>4
<1> HIDE DEF x
<1>6. x % r \in 0..(r - 1)
    BY <1>4, <1>5
<1>7. QED
    BY <1>6 DEF x, luhn_check_digit

(* The digits of a number, those before the check digit, and the number    *)
(* that some leading digits make.                                          *)
IsPanValue(value) == Len(Numerals(value, DIGITS)) = PAN_LEN
HeadOf(nums) == SubSeq(nums, 1, PAN_LEN - 1)
Completed(head) == Append(head, luhn_check_digit(head))
HasCheckDigit(value) ==
    Completed(HeadOf(Numerals(value, DIGITS))) = Numerals(value, DIGITS)

(* fpe_card takes the digits before the last one and puts a check digit    *)
(* after them: the numerals before the check digit are the ones FF1        *)
(* answered.                                                               *)
LEMMA HeadAndCheckDigit ==
    ASSUME NEW nums \in Numeral(Len(DIGITS), PAN_LEN),
           NEW head \in Numeral(Len(DIGITS), PAN_LEN - 1)
    PROVE  /\ HeadOf(nums) \in Numeral(Len(DIGITS), PAN_LEN - 1)
           /\ Len(HeadOf(nums)) = PAN_LEN - 1
           /\ Completed(head) \in Numeral(Len(DIGITS), PAN_LEN)
           /\ HeadOf(Completed(head)) = head
<1> DEFINE D == 0..(Len(DIGITS) - 1)
           n == PAN_LEN - 1
<1>1. n \in Nat /\ PAN_LEN = n + 1
    BY NumberAssumption
<1> HIDE DEF n
<1>2. nums \in [1..(n + 1) -> D] /\ head \in [1..n -> D]
    BY <1>1 DEF Numeral, n
<1> HIDE DEF D
<1>3. HeadOf(nums) = SubSeq(nums, 1, n)
    BY DEF HeadOf, n
<1>4. HeadOf(nums) \in Seq(D) /\ Len(HeadOf(nums)) = n
    <2>1. \A i \in 1..n : nums[i] \in D
        BY <1>1, <1>2
    <2>2. QED BY <1>1, <1>3, <2>1, SubSeqProperties
<1>5. head \in Seq(D) /\ Len(head) = n
    BY <1>1, <1>2, SeqDef
<1>6. luhn_check_digit(head) \in D
    BY <1>1, <1>2, LuhnType DEF D, Numeral
<1> DEFINE c == Completed(head)
<1>7. /\ c \in Seq(D) /\ Len(c) = n + 1
      /\ \A i \in 1..n : c[i] = head[i]
    BY <1>5, <1>6, AppendProperties DEF Completed
<1> HIDE DEF c
<1>8. HeadOf(c) = head
    <2>1. HeadOf(c) = SubSeq(c, 1, n)
        BY DEF HeadOf, n
    <2>2. \A i \in 1..n : c[i] \in D
        BY <1>2, <1>7
    <2>3. /\ HeadOf(c) \in Seq(D) /\ Len(HeadOf(c)) = n
          /\ \A i \in 1..n : HeadOf(c)[i] = c[i]
        BY <1>1, <2>1, <2>2, SubSeqProperties
    <2>4. QED BY <1>5, <1>7, <2>3, SeqEqual
<1>9. HeadOf(nums) \in [1..n -> D] /\ c \in [1..(n + 1) -> D]
    BY <1>1, <1>4, <1>7, LenProperties
<1>10. QED
    BY <1>1, <1>4, <1>8, <1>9 DEF c, D, n, Numeral

(* A character further right has a higher byte offset, for no character    *)
(* takes no byte.                                                          *)
LEMMA OffsetsIncrease ==
    ASSUME NEW value \in Value, NEW i \in DOMAIN value, NEW j \in DOMAIN value, i < j
    PROVE  /\ ByteOffset(value, i) \in Nat /\ ByteOffset(value, j) \in Nat
           /\ ByteOffset(value, i) < ByteOffset(value, j)
<1> DEFINE n == Len(value)
           All == (1..n) \X (1..4)
           B(m) == {b \in (1..(m - 1)) \X (1..4) : b[2] <= Bytes(value[b[1]])}
<1>1. n \in Nat /\ i \in 1..n /\ j \in 1..n
    BY PositionsType
<1>2. \A m \in 1..n : value[m] \in Char /\ Bytes(value[m]) \in 1..4
    BY PositionsType, ElementOfSeq, BytesAssumption DEF Value
<1>3. IsFiniteSet(All)
    <2>1. 1 \in Int /\ 4 \in Int /\ n \in Int
        BY <1>1
    <2>2. IsFiniteSet(1..n) /\ IsFiniteSet(1..4)
        BY <2>1, FS_Interval
    <2>3. QED BY <2>2, FS_Product
<1>4. \A m \in 1..n : B(m) \in SUBSET All
    <2>1. \A m \in 1..n : 1..(m - 1) \subseteq 1..n
        BY <1>1
    <2>2. QED BY <2>1
<1>5. B(i) \in SUBSET B(j)
    <2>1. 1..(i - 1) \subseteq 1..(j - 1)
        BY <1>1
    <2>2. QED BY <2>1
<1>6. <<i, 1>> \in B(j) /\ <<i, 1>> \notin B(i)
    <2>1. i \in 1..(j - 1) /\ i \notin 1..(i - 1) /\ 1 <= Bytes(value[i])
        BY <1>1, <1>2
    <2>2. QED BY <2>1
<1> HIDE DEF B
<1>7. IsFiniteSet(B(j))
    BY <1>1, <1>3, <1>4, FS_Subset
<1>8. /\ IsFiniteSet(B(i))
      /\ Cardinality(B(i)) <= Cardinality(B(j))
      /\ Cardinality(B(j)) # Cardinality(B(i))
    <2>1. B(i) # B(j)
        BY <1>6
    <2>2. QED BY <1>5, <1>7, <2>1, FS_Subset
<1>9. Cardinality(B(i)) \in Nat /\ Cardinality(B(j)) \in Nat
    BY <1>7, <1>8, FS_CardinalityType
<1>10. ByteOffset(value, i) = Cardinality(B(i)) /\ ByteOffset(value, j) = Cardinality(B(j))
    BY DEF ByteOffset, B
<1>11. QED
    BY <1>8, <1>9, <1>10

(* Counting the characters before a byte offset undoes the offset.         *)
LEMMA IndexOfOffset ==
    ASSUME NEW value \in Value, NEW i \in DOMAIN value
    PROVE  CharIndex(value, ByteOffset(value, i)) = i
<1> DEFINE n == Len(value)
<1>1. n \in Nat /\ DOMAIN value = 1..n
    BY PositionsType
<1>2. ASSUME NEW j \in DOMAIN value
      PROVE  ByteOffset(value, j) < ByteOffset(value, i) <=> j < i
    <2>1. CASE j < i
        BY <2>1, OffsetsIncrease
    <2>2. CASE j = i
        <3>1. ByteOffset(value, i) = ByteOffset(value, j)
            BY <2>2
        <3>2. ByteOffset(value, i) \in Int
            <4>1. CASE n = 1
                <5>1. i = 1
                    BY <1>1, <4>1
                <5>2. {b \in (1..(i - 1)) \X (1..4) : b[2] <= Bytes(value[b[1]])} = {}
                    BY <5>1
                <5>3. QED BY <5>2, FS_EmptySet DEF ByteOffset
            <4>2. CASE n # 1
                <5>1. \E k \in DOMAIN value : k < i \/ i < k
                    <6>1. CASE i = 1
                        BY <1>1, <4>2, <6>1
                    <6>2. CASE i # 1
                        BY <1>1, <6>2
                    <6>3. QED BY <6>1, <6>2
                <5>2. QED BY <5>1, OffsetsIncrease
            <4>3. QED BY <4>1, <4>2
        <3>3. QED BY <1>1, <2>2, <3>1, <3>2
    <2>3. CASE i < j
        <3>1. /\ ByteOffset(value, i) \in Nat /\ ByteOffset(value, j) \in Nat
              /\ ByteOffset(value, i) < ByteOffset(value, j)
            BY <2>3, OffsetsIncrease
        <3>2. QED BY <1>1, <2>3, <3>1
    <2>4. QED BY <1>1, <2>1, <2>2, <2>3
<1>3. {j \in DOMAIN value : ByteOffset(value, j) < ByteOffset(value, i)} = 1..(i - 1)
    <2>1. {j \in DOMAIN value : ByteOffset(value, j) < ByteOffset(value, i)}
          = {j \in DOMAIN value : j < i}
        BY <1>2
    <2>2. {j \in DOMAIN value : j < i} = 1..(i - 1)
        BY <1>1
    <2>3. QED BY <2>1, <2>2
<1>4. Cardinality(1..(i - 1)) = i - 1
    <2>1. 1 \in Int /\ i - 1 \in Int /\ i \in Nat /\ i >= 1
        BY <1>1
    <2>2. Cardinality(1..(i - 1)) = IF 1 > i - 1 THEN 0 ELSE i - 1 - 1 + 1
        BY <2>1, FS_Interval
    <2>3. QED BY <2>1, <2>2
<1>5. CharsBefore(value, ByteOffset(value, i)) = i - 1
    BY <1>3, <1>4 DEF CharsBefore
<1>6. CharIndex(value, ByteOffset(value, i)) = (i - 1) + 1
    BY <1>5 DEF CharIndex
<1>7. QED
    BY <1>1, <1>6

(* fpe_card's splice, which goes by way of byte offsets, is the one of     *)
(* fpe_over_alphabet, whatever characters stand between the digits.        *)
THEOREM SpliceBytesIsSplice ==
    ASSUME NEW value \in Value, NEW nums
    PROVE  SpliceBytes(value, nums) = Splice(value, DIGITS, nums)
<1> DEFINE P == Positions(value, DIGITS)
           Indices == {<<s, CharIndex(value, ByteOffset(value, AtSlot(P, s)))>> :
                          s \in 1..Cardinality(P)}
           Found(i) == CHOOSE u \in Indices : u[2] = i
<1>1. P \in SUBSET (1..Len(value)) /\ Len(value) \in Nat /\ DOMAIN value = 1..Len(value)
    BY PositionsType
<1>2. \A s \in 1..Cardinality(P) : AtSlot(P, s) \in P /\ Slot(P, AtSlot(P, s)) = s
    BY <1>1, SlotOnto
<1>3. Indices = {<<s, AtSlot(P, s)>> : s \in 1..Cardinality(P)}
    <2>1. \A s \in 1..Cardinality(P) :
             CharIndex(value, ByteOffset(value, AtSlot(P, s))) = AtSlot(P, s)
        BY <1>1, <1>2, IndexOfOffset
    <2>2. QED BY <2>1
<1>4. \A i \in P : <<Slot(P, i), i>> \in Indices
    <2>1. \A i \in P : Slot(P, i) \in 1..Cardinality(P) /\ AtSlot(P, Slot(P, i)) = i
        BY <1>1, SlotType, AtSlotOfSlot
    <2> HIDE DEF P, Indices
    <2>2. QED BY <1>3, <2>1
<1>5. \A u \in Indices : u[2] \in P /\ u[1] = Slot(P, u[2])
    BY <1>2, <1>3
<1> HIDE DEF Indices, P
<1>6. \A i : (\E u \in Indices : u[2] = i) <=> i \in P
    BY <1>4, <1>5
<1>7. ASSUME NEW i \in P PROVE Found(i)[1] = Slot(P, i)
    <2>1. Found(i) \in Indices /\ Found(i)[2] = i
        BY <1>6
    <2>2. QED BY <1>5, <2>1
<1> HIDE DEF Found
<1>8. SpliceBytes(value, nums)
      = [i \in DOMAIN value |->
            IF \E u \in Indices : u[2] = i THEN symbol_of(DIGITS, nums[Found(i)[1]])
            ELSE value[i]]
    BY DEF SpliceBytes, Indices, P, Found
<1>9. Splice(value, DIGITS, nums)
      = [i \in DOMAIN value |-> IF i \in P THEN symbol_of(DIGITS, nums[Slot(P, i)])
                                ELSE value[i]]
    BY DEF Splice, P
<1>10. QED
    BY <1>6, <1>7, <1>8, <1>9

(* fpe_card on a number: FF1 on the leading digits, the check digit anew.  *)
LEMMA CardOfPan ==
    ASSUME Ff1Contract, NEW key, NEW value \in Value, IsPanValue(value),
           NEW forward \in BOOLEAN
    PROVE  LET head == HeadOf(Numerals(value, DIGITS))
               new == Ff1(key, Len(DIGITS), head, forward)
           IN  /\ Cardinality(Positions(value, DIGITS)) = PAN_LEN
               /\ head \in Numeral(Len(DIGITS), PAN_LEN - 1)
               /\ new \in Numeral(Len(DIGITS), PAN_LEN - 1)
               /\ Ff1(key, Len(DIGITS), new, ~forward) = head
               /\ fpe_card(key, value, forward) = Ok(Splice(value, DIGITS, Completed(new)))
<1> DEFINE nums == Numerals(value, DIGITS)
           head == HeadOf(nums)
           new == Ff1(key, Len(DIGITS), head, forward)
<1>1. IsAlphabet(DIGITS) /\ Len(DIGITS) \in Nat
    BY AlphabetFacts
<1>2. /\ Cardinality(Positions(value, DIGITS)) = PAN_LEN
      /\ nums \in Numeral(Len(DIGITS), PAN_LEN)
    BY <1>1, NumeralsType DEF IsPanValue
<1>3. PAN_LEN - 1 \in Nat
    BY NumberAssumption
<1>4. head \in Numeral(Len(DIGITS), PAN_LEN - 1) /\ Len(head) = PAN_LEN - 1
    <2> HIDE DEF nums
    <2>1. Numeral(Len(DIGITS), PAN_LEN - 1) # {}
        <3>1. 0 \in 0..(Len(DIGITS) - 1)
            BY <1>1 DEF IsAlphabet
        <3>2. [i \in 1..(PAN_LEN - 1) |-> 0] \in Numeral(Len(DIGITS), PAN_LEN - 1)
            BY <3>1 DEF Numeral
        <3>3. QED BY <3>2
    <2>2. QED BY <1>2, <2>1, HeadAndCheckDigit
<1>5. /\ new \in Numeral(Len(DIGITS), PAN_LEN - 1)
      /\ Ff1(key, Len(DIGITS), new, ~forward) = head
    BY <1>1, <1>3, <1>4 DEF Ff1Contract
<1>6. ff1_apply(key, Len(DIGITS), head, forward) = Ok(new)
    <2>1. ~(Len(head) < min_len_for_radix(Len(DIGITS)))
        BY <1>3, <1>4, NumberAssumption
    <2>2. QED BY <1>3, <1>4, <2>1, LongEnough
<1>7. fpe_card(key, value, forward)
      = IF IsOk(ff1_apply(key, Len(DIGITS), head, forward))
        THEN Ok(SpliceBytes(value,
                            Completed(ff1_apply(key, Len(DIGITS), head, forward).val)))
        ELSE ff1_apply(key, Len(DIGITS), head, forward)
    BY DEF fpe_card, IsPanValue, HeadOf, Completed
<1>8. IsOk(Ok(new)) /\ Ok(new).val = new
    BY DEF IsOk, Ok
<1>9. fpe_card(key, value, forward) = Ok(Splice(value, DIGITS, Completed(new)))
    <2>1. SpliceBytes(value, Completed(new)) = Splice(value, DIGITS, Completed(new))
        BY SpliceBytesIsSplice
    <2> HIDE DEF new, head
    <2>2. QED BY <1>6, <1>7, <1>8, <2>1
<1>10. QED
    BY <1>2, <1>4, <1>5, <1>9

(* fpe_card always answers a value, of the shape of its input; a number    *)
(* comes out with its check digit, whether or not it came in with it.      *)
THEOREM CardKeepsShape ==
    ASSUME Ff1Contract, NEW key, NEW value \in Value, NEW forward \in BOOLEAN
    PROVE  \E w \in Value :
              /\ fpe_card(key, value, forward) = Ok(w)
              /\ SameShape(value, w, DIGITS)
              /\ IsPanValue(value) => IsPanValue(w) /\ HasCheckDigit(w)
<1>1. CASE ~IsPanValue(value)
    <2>1. fpe_card(key, value, forward) = fpe_over_alphabet(key, value, DIGITS, forward)
        BY <1>1 DEF fpe_card, IsPanValue
    <2>2. QED BY <1>1, <2>1, FpeKeepsShape
<1>2. CASE IsPanValue(value)
    <2> DEFINE new == Ff1(key, Len(DIGITS), HeadOf(Numerals(value, DIGITS)), forward)
               w == Splice(value, DIGITS, Completed(new))
    <2>1. /\ Cardinality(Positions(value, DIGITS)) = PAN_LEN
          /\ new \in Numeral(Len(DIGITS), PAN_LEN - 1)
          /\ fpe_card(key, value, forward) = Ok(w)
        BY <1>2, CardOfPan
    <2>2. IsAlphabet(DIGITS) /\ Symbols(DIGITS) \subseteq Char
        BY AlphabetFacts
    <2>3. Numerals(value, DIGITS) \in Numeral(Len(DIGITS), PAN_LEN)
        BY <2>1, <2>2, NumeralsType
    <2> HIDE DEF new
    <2>4. Completed(new) \in Numeral(Len(DIGITS), PAN_LEN) /\ HeadOf(Completed(new)) = new
        BY <2>1, <2>3, HeadAndCheckDigit
    <2>5. SameShape(value, w, DIGITS)
        BY <2>1, <2>2, <2>4, SpliceType DEF SameShape
    <2>6. Numerals(w, DIGITS) = Completed(new)
        BY <2>1, <2>2, <2>4, NumeralsOfSplice
    <2> HIDE DEF w
    <2>7. w \in Value /\ Cardinality(Positions(w, DIGITS)) = PAN_LEN
        BY <2>1, <2>5 DEF SameShape
    <2>8. IsPanValue(w)
        BY <2>2, <2>7, NumeralsType DEF IsPanValue
    <2>9. HasCheckDigit(w)
        BY <2>4, <2>6 DEF HasCheckDigit
    <2>10. QED BY <2>1, <2>5, <2>7, <2>8, <2>9
<1>3. QED
    BY <1>1, <1>2

(* The card profile round-trips on every value but the numbers whose last  *)
(* digit is not their check digit.                                         *)
THEOREM CardRoundTrip ==
    ASSUME Ff1Contract, NEW key, NEW value \in Value, NEW forward \in BOOLEAN,
           IsPanValue(value) => HasCheckDigit(value)
    PROVE  fpe_card(key, fpe_card(key, value, forward).val, ~forward) = Ok(value)
<1> DEFINE back == ~forward
<1> back \in BOOLEAN
    OBVIOUS
<1>1. \A v : Ok(v).val = v
    BY DEF Ok
<1>2. IsAlphabet(DIGITS) /\ Symbols(DIGITS) \subseteq Char
    BY AlphabetFacts
<1>3. CASE ~IsPanValue(value)
    <2>1. fpe_card(key, value, forward) = fpe_over_alphabet(key, value, DIGITS, forward)
        BY <1>3 DEF fpe_card, IsPanValue
    <2>2. PICK w \in Value : /\ fpe_over_alphabet(key, value, DIGITS, forward) = Ok(w)
                             /\ SameShape(value, w, DIGITS)
        BY FpeKeepsShape
    <2>3. ~IsPanValue(w)
        BY <1>2, <1>3, <2>2, NumeralsType DEF IsPanValue, SameShape
    <2>4. fpe_over_alphabet(key, w, DIGITS, back) = Ok(value)
        <3>1. fpe_over_alphabet(key, value, DIGITS, forward).val = w
            BY <1>1, <2>2
        <3>2. QED BY <3>1, FpeRoundTrip
    <2> HIDE DEF back
    <2>5. fpe_card(key, w, back) = Ok(value)
        BY <2>3, <2>4 DEF fpe_card, IsPanValue
    <2>6. QED BY <1>1, <2>1, <2>2, <2>5 DEF back
<1>4. CASE IsPanValue(value)
    <2> DEFINE nums == Numerals(value, DIGITS)
               head == HeadOf(nums)
               new == Ff1(key, Len(DIGITS), head, forward)
               w == Splice(value, DIGITS, Completed(new))
    <2>1. /\ Cardinality(Positions(value, DIGITS)) = PAN_LEN
          /\ new \in Numeral(Len(DIGITS), PAN_LEN - 1)
          /\ Ff1(key, Len(DIGITS), new, back) = head
          /\ fpe_card(key, value, forward) = Ok(w)
        BY <1>4, CardOfPan
    <2>2. nums \in Numeral(Len(DIGITS), PAN_LEN)
        BY <1>2, <2>1, NumeralsType
    <2>3. Completed(head) = nums
        BY <1>4 DEF HasCheckDigit
    <2> HIDE DEF new, back, head
    <2>4. Completed(new) \in Numeral(Len(DIGITS), PAN_LEN) /\ HeadOf(Completed(new)) = new
        BY <2>1, <2>2, HeadAndCheckDigit
    <2>5. /\ w \in Value /\ Positions(w, DIGITS) = Positions(value, DIGITS)
          /\ Numerals(w, DIGITS) = Completed(new)
        BY <1>2, <2>1, <2>4, SpliceType, NumeralsOfSplice
    <2>6. Splice(w, DIGITS, nums) = value
        BY <1>2, <2>1, <2>4, SpliceBack
    <2> HIDE DEF w, nums
    <2>7. IsPanValue(w)
        BY <1>2, <2>1, <2>5, NumeralsType DEF IsPanValue
    <2>8. fpe_card(key, w, back)
          = Ok(Splice(w, DIGITS, Completed(Ff1(key, Len(DIGITS),
                                               HeadOf(Numerals(w, DIGITS)), back))))
        BY <2>5, <2>7, CardOfPan
    <2>9. fpe_card(key, w, back) = Ok(value)
        BY <2>1, <2>3, <2>4, <2>5, <2>6, <2>8
    <2>10. QED BY <1>1, <2>1, <2>9 DEF back
<1>5. QED
    BY <1>3, <1>4

-----------------------------------------------------------------------------
(* The profiles.                                                           *)

(* What keeps the shape of a value as far as digits go keeps it as far as  *)
(* letters and digits go.                                                  *)
LEMMA DigitsShape ==
    ASSUME NEW v \in Value, NEW w, SameShape(v, w, DIGITS)
    PROVE  SameShape(v, w, ALNUM)
<1>1. /\ w \in Value /\ Len(w) = Len(v)
      /\ Positions(w, DIGITS) = Positions(v, DIGITS)
      /\ \A i \in DOMAIN v \ Positions(v, DIGITS) : w[i] = v[i]
    BY DEF SameShape
<1>2. DOMAIN w = DOMAIN v
    BY <1>1, PositionsType
<1>3. Positions(v, DIGITS) \subseteq Positions(v, ALNUM)
    BY AlphabetAssumption DEF Positions
<1>4. Positions(w, ALNUM) = Positions(v, ALNUM)
    <2>1. \A i \in DOMAIN v : w[i] \in Symbols(ALNUM) <=> v[i] \in Symbols(ALNUM)
        BY <1>1, <1>2, AlphabetAssumption DEF Positions
    <2>2. QED BY <1>2, <2>1 DEF Positions
<1>5. QED
    BY <1>1, <1>3, <1>4 DEF SameShape

(* A local part of the same shape before the same domain.                  *)
LEMMA LocalShape ==
    ASSUME NEW value \in Value, HasDomain(value), NEW enc,
           SameShape(Local(value), enc, ALNUM)
    PROVE  LET w == enc \o AtDomain(value)
           IN  /\ SameShape(value, w, ALNUM)
               /\ \A i \in LastAt(value)..Len(value) : w[i] = value[i]
<1> DEFINE w == enc \o AtDomain(value)
           a == LastAt(value)
           n == Len(value)
<1>1. /\ Local(value) \in Value /\ Len(Local(value)) = a - 1
      /\ enc \in Value /\ Len(enc) = a - 1
    BY LocalType DEF SameShape
<1>2. /\ w \in Value /\ Len(w) = n /\ Local(w) = enc /\ LastAt(w) = a
      /\ \A i \in a..n : w[i] = value[i]
    BY <1>1, AddressSplits
<1>3. n \in Nat /\ a \in 1..(n - 1) /\ DOMAIN value = 1..n /\ DOMAIN w = 1..n
    BY <1>2, PositionsType DEF HasDomain
<1> HIDE DEF w
<1>4. \A i \in 1..(a - 1) : Local(value)[i] = value[i] /\ enc[i] = w[i]
    BY <1>2, <1>3 DEF Local
<1>5. DOMAIN Local(value) = 1..(a - 1) /\ DOMAIN enc = 1..(a - 1)
    BY <1>1, PositionsType
<1>6. \A i \in 1..(a - 1) :
          /\ w[i] \in Symbols(ALNUM) <=> value[i] \in Symbols(ALNUM)
          /\ value[i] \notin Symbols(ALNUM) => w[i] = value[i]
    BY <1>4, <1>5 DEF SameShape, Positions
<1>7. \A i \in 1..n : i \in 1..(a - 1) \/ i \in a..n
    BY <1>3
<1>8. Positions(w, ALNUM) = Positions(value, ALNUM)
    BY <1>2, <1>3, <1>6, <1>7 DEF Positions
<1>9. \A i \in DOMAIN value \ Positions(value, ALNUM) : w[i] = value[i]
    BY <1>2, <1>3, <1>6, <1>7 DEF Positions
<1>10. QED
    BY <1>2, <1>8, <1>9 DEF w, SameShape

(* fpe_encrypt and fpe_decrypt past their guard: every profile answers a   *)
(* value of the shape of its input.  The profiles of digits touch only     *)
(* digits, the email profile nothing from the last @ on, and the card      *)
(* profile gives a number its check digit.                                 *)
THEOREM ProfilesKeepShape ==
    ASSUME Ff1Contract, NEW format \in Formats, NEW key, NEW value \in Value,
           NEW forward \in BOOLEAN
    PROVE  \E w \in Value :
              /\ fpe_dispatch(value, format, key, forward) = Ok(w)
              /\ SameShape(value, w, ALNUM)
              /\ format \in {"Digits", "Ssn", "Card"} => SameShape(value, w, DIGITS)
              /\ format = "Email" /\ HasDomain(value) =>
                    \A i \in LastAt(value)..Len(value) : w[i] = value[i]
              /\ format = "Card" /\ IsPanValue(value) =>
                    IsPanValue(w) /\ HasCheckDigit(w)
<1>1. CASE format \in {"Digits", "Ssn"}
    <2>1. fpe_dispatch(value, format, key, forward)
          = fpe_over_alphabet(key, value, DIGITS, forward)
        BY <1>1 DEF fpe_dispatch
    <2>2. PICK w \in Value : /\ fpe_over_alphabet(key, value, DIGITS, forward) = Ok(w)
                             /\ SameShape(value, w, DIGITS)
        BY FpeKeepsShape
    <2>3. SameShape(value, w, ALNUM)
        BY <2>2, DigitsShape
    <2>4. QED BY <1>1, <2>1, <2>2, <2>3
<1>2. CASE format = "Alnum"
    <2>1. fpe_dispatch(value, format, key, forward)
          = fpe_over_alphabet(key, value, ALNUM, forward)
        BY <1>2 DEF fpe_dispatch
    <2>2. PICK w \in Value : /\ fpe_over_alphabet(key, value, ALNUM, forward) = Ok(w)
                             /\ SameShape(value, w, ALNUM)
        BY FpeKeepsShape
    <2>3. QED BY <1>2, <2>1, <2>2
<1>3. CASE format = "Card"
    <2>1. fpe_dispatch(value, format, key, forward) = fpe_card(key, value, forward)
        BY <1>3 DEF fpe_dispatch
    <2>2. PICK w \in Value : /\ fpe_card(key, value, forward) = Ok(w)
                             /\ SameShape(value, w, DIGITS)
                             /\ IsPanValue(value) => IsPanValue(w) /\ HasCheckDigit(w)
        BY CardKeepsShape
    <2>3. SameShape(value, w, ALNUM)
        BY <2>2, DigitsShape
    <2>4. QED BY <1>3, <2>1, <2>2, <2>3
<1>4. CASE format = "Email" /\ ~HasDomain(value)
    <2>1. fpe_dispatch(value, format, key, forward)
          = fpe_over_alphabet(key, value, ALNUM, forward)
        BY <1>4 DEF fpe_dispatch, fpe_email
    <2>2. PICK w \in Value : /\ fpe_over_alphabet(key, value, ALNUM, forward) = Ok(w)
                             /\ SameShape(value, w, ALNUM)
        BY FpeKeepsShape
    <2>3. QED BY <1>4, <2>1, <2>2
<1>5. CASE format = "Email" /\ HasDomain(value)
    <2>1. fpe_dispatch(value, format, key, forward) = fpe_email(key, value, forward)
        BY <1>5 DEF fpe_dispatch
    <2>2. Local(value) \in Value
        BY <1>5, LocalType
    <2>3. PICK enc \in Value :
              /\ fpe_over_alphabet(key, Local(value), ALNUM, forward) = Ok(enc)
              /\ SameShape(Local(value), enc, ALNUM)
        BY <2>2, FpeKeepsShape
    <2>4. fpe_email(key, value, forward) = Ok(enc \o AtDomain(value))
        BY <1>5, <2>3, EmailOfAddress
    <2>5. /\ SameShape(value, enc \o AtDomain(value), ALNUM)
          /\ \A i \in LastAt(value)..Len(value) : (enc \o AtDomain(value))[i] = value[i]
        BY <1>5, <2>3, LocalShape
    <2>6. enc \o AtDomain(value) \in Value
        BY <2>5 DEF SameShape
    <2>7. QED BY <1>5, <2>1, <2>4, <2>5, <2>6
<1>6. QED
    BY <1>1, <1>2, <1>3, <1>4, <1>5 DEF Formats

(* Every profile round-trips in both directions, on every value but the    *)
(* numbers the card profile gives another check digit.                     *)
THEOREM ProfilesRoundTrip ==
    ASSUME Ff1Contract, NEW format \in Formats, NEW key, NEW value \in Value,
           NEW forward \in BOOLEAN,
           format = "Card" /\ IsPanValue(value) => HasCheckDigit(value)
    PROVE  fpe_dispatch(fpe_dispatch(value, format, key, forward).val,
                        format, key, ~forward) = Ok(value)
<1>1. CASE format \in {"Digits", "Ssn"}
    <2>1. \A v, f : fpe_dispatch(v, format, key, f) = fpe_over_alphabet(key, v, DIGITS, f)
        BY <1>1 DEF fpe_dispatch
    <2>2. QED BY <2>1, FpeRoundTrip
<1>2. CASE format = "Alnum"
    <2>1. \A v, f : fpe_dispatch(v, format, key, f) = fpe_over_alphabet(key, v, ALNUM, f)
        BY <1>2 DEF fpe_dispatch
    <2>2. QED BY <2>1, FpeRoundTrip
<1>3. CASE format = "Email"
    <2>1. \A v, f : fpe_dispatch(v, format, key, f) = fpe_email(key, v, f)
        BY <1>3 DEF fpe_dispatch
    <2>2. QED BY <2>1, EmailRoundTrip
<1>4. CASE format = "Card"
    <2>1. \A v, f : fpe_dispatch(v, format, key, f) = fpe_card(key, v, f)
        BY <1>4 DEF fpe_dispatch
    <2>2. QED BY <1>4, <2>1, CardRoundTrip
<1>5. QED
    BY <1>1, <1>2, <1>3, <1>4 DEF Formats

-----------------------------------------------------------------------------
(* Redaction.                                                              *)

(* redact answers a value of the same length that has, at each place, the  *)
(* character that was there or a star.                                     *)
THEOREM RedactKeepsLength ==
    ASSUME NEW value \in Value, NEW mode
    PROVE  /\ redact(value, mode) \in Value
           /\ Len(redact(value, mode)) = Len(value)
           /\ \A i \in DOMAIN value : redact(value, mode)[i] \in {value[i], Star}
<1>1. Len(value) \in Nat /\ DOMAIN value = 1..Len(value)
    BY PositionsType
<1>2. \A i \in 1..Len(value) : value[i] \in Char
    BY ElementOfSeq DEF Value
<1>3. redact(value, mode) \in [1..Len(value) -> Char]
    BY <1>1, <1>2, AlphabetAssumption DEF redact
<1>4. redact(value, mode) \in Value
    BY <1>1, <1>3, SeqDef DEF Value
<1>5. DOMAIN redact(value, mode) = 1..Len(value)
    BY <1>3
<1>6. Len(redact(value, mode)) = Len(value)
    BY <1>1, <1>4, <1>5, PositionsType
<1>7. QED
    BY <1>4, <1>6 DEF redact

-----------------------------------------------------------------------------
(* The check digit the engine computes is the one the tests accept.        *)

(* Division with rest.                                                     *)
LEMMA Rest ==
    ASSUME NEW radix \in Nat \ {0}, NEW k \in Int, NEW m \in 0..(radix - 1)
    PROVE  (radix * k + m) % radix = m
OBVIOUS

(* Two ways to say that a digit makes a sum a multiple of the radix.       *)
LEMMA CompletesSum ==
    ASSUME NEW radix \in Nat \ {0}, NEW sum \in Nat, NEW x \in 0..(radix - 1)
    PROVE  (sum + x) % radix = 0 <=> x = (radix - (sum % radix)) % radix
<1> DEFINE q == sum % radix
           k == sum \div radix
<1>1. q \in 0..(radix - 1) /\ k \in Int /\ sum = radix * k + q
    OBVIOUS
<1> HIDE DEF q, k
<1>2. CASE q = 0
    <2>1. sum + x = radix * k + x /\ radix - q = radix * 1 + 0
        BY <1>1, <1>2
    <2>2. 0 \in 0..(radix - 1) /\ 1 \in Int
        OBVIOUS
    <2>3. (sum + x) % radix = x /\ (radix - q) % radix = 0
        BY <1>1, <2>1, <2>2, Rest
    <2>4. QED BY <2>3 DEF q
<1>3. CASE q # 0 /\ q + x < radix
    <2>1. sum + x = radix * k + (q + x) /\ radix - q = radix * 0 + (radix - q)
        BY <1>1
    <2>2. q + x \in 0..(radix - 1) /\ radix - q \in 0..(radix - 1) /\ 0 \in Int
        BY <1>1, <1>3
    <2>3. (sum + x) % radix = q + x
        BY <1>1, <2>1, <2>2, Rest
    <2>4. (radix - q) % radix = radix - q
        BY <2>1, <2>2, Rest
    <2>5. q + x # 0 /\ x # radix - q
        BY <1>1, <1>3
    <2>6. QED BY <2>3, <2>4, <2>5 DEF q
<1>4. CASE q # 0 /\ q + x >= radix
    <2>1. /\ sum + x = radix * (k + 1) + (q + x - radix)
          /\ radix - q = radix * 0 + (radix - q)
        BY <1>1
    <2>2. /\ q + x - radix \in 0..(radix - 1) /\ radix - q \in 0..(radix - 1)
          /\ 0 \in Int /\ k + 1 \in Int
        BY <1>1, <1>4
    <2>3. (sum + x) % radix = q + x - radix
        BY <2>1, <2>2, Rest
    <2>4. (radix - q) % radix = radix - q
        BY <2>1, <2>2, Rest
    <2>5. q + x - radix = 0 <=> x = radix - q
        BY <1>1
    <2>6. QED BY <2>3, <2>4, <2>5 DEF q
<1>5. QED
    BY <1>1, <1>2, <1>3, <1>4

(* The terms of is_luhn_valid's sum.                                       *)
Doubled(x) == IF 2 * x > Len(DIGITS) - 1 THEN 2 * x - (Len(DIGITS) - 1) ELSE 2 * x
Part(d, i) == IF (Len(d) - i) % 2 = 1 THEN Doubled(d[i]) ELSE d[i]

(* Before the check digit they are the engine's weights, all digits.       *)
LEMMA PartIsWeight ==
    ASSUME NEW d \in Numeral(Len(DIGITS), PAN_LEN), NEW i \in 1..(PAN_LEN - 1)
    PROVE  /\ LuhnWeight(HeadOf(d), i) = Part(d, i)
           /\ Part(d, i) \in 0..(Len(DIGITS) - 1)
<1> DEFINE nine == Len(DIGITS) - 1
<1>1. Len(DIGITS) \in Nat /\ nine \in Nat /\ PAN_LEN \in Nat
    BY AlphabetFacts, AlphabetAssumption, NumberAssumption DEF IsAlphabet
<1>2. /\ DOMAIN d = 1..PAN_LEN /\ Len(d) = PAN_LEN /\ d[i] \in 0..nine
      /\ HeadOf(d)[i] = d[i] /\ Len(HeadOf(d)) = PAN_LEN - 1
    BY <1>1, HeadAndCheckDigit, LenProperties, SeqDef DEF Numeral, HeadOf
<1>3. CASE (Len(HeadOf(d)) - i) % 2 = 1
    <2>1. (PAN_LEN - i) % 2 # 1
        BY <1>1, <1>2, <1>3
    <2>2. LuhnWeight(HeadOf(d), i) = HeadOf(d)[i]
        BY <1>3 DEF LuhnWeight
    <2>3. QED BY <1>2, <2>1, <2>2 DEF Part
<1>4. CASE (Len(HeadOf(d)) - i) % 2 # 1
    <2>1. (PAN_LEN - i) % 2 = 1
        BY <1>1, <1>2, <1>4
    <2>2. QED BY <1>1, <1>2, <1>4, <2>1 DEF LuhnWeight, Part, Doubled
<1>5. QED
    BY <1>3, <1>4

(* A numeral string is a sequence.                                         *)
LEMMA NumeralIsSeq ==
    ASSUME NEW radix, NEW n \in Nat, NEW nums \in Numeral(radix, n)
    PROVE  nums \in Seq(0..(radix - 1)) /\ Len(nums) = n /\ DOMAIN nums = 1..n
<1> DEFINE D == 0..(radix - 1)
<1>1. nums \in [1..n -> D]
    BY DEF Numeral
<1> HIDE DEF D
<1>2. nums \in Seq(D) /\ Len(nums) = n
    BY <1>1, SeqDef
<1>3. QED
    BY <1>1, <1>2 DEF D

(* The digits before the check digit are those of the number.              *)
LEMMA HeadType ==
    ASSUME NEW d \in Numeral(Len(DIGITS), PAN_LEN)
    PROVE  /\ HeadOf(d) \in Seq(0..(Len(DIGITS) - 1))
           /\ HeadOf(d) \in Numeral(Len(DIGITS), PAN_LEN - 1)
           /\ Len(HeadOf(d)) = PAN_LEN - 1 /\ DOMAIN HeadOf(d) = 1..(PAN_LEN - 1)
           /\ \A i \in 1..(PAN_LEN - 1) : HeadOf(d)[i] = d[i]
<1> DEFINE D == 0..(Len(DIGITS) - 1)
<1>1. PAN_LEN \in Nat \ {0}
    BY NumberAssumption
<1>2. \A i \in 1..(PAN_LEN - 1) : d[i] \in D
    BY <1>1 DEF Numeral
<1> HIDE DEF D
<1>3. /\ HeadOf(d) \in Seq(D) /\ Len(HeadOf(d)) = PAN_LEN - 1
      /\ \A i \in 1..(PAN_LEN - 1) : HeadOf(d)[i] = d[i]
    BY <1>1, <1>2, SubSeqProperties DEF HeadOf
<1>4. HeadOf(d) \in [1..(PAN_LEN - 1) -> D]
    BY <1>1, <1>3, LenProperties
<1>5. QED
    BY <1>3, <1>4 DEF D, Numeral

(* The numbers from 1 to n are n.                                          *)
LEMMA UpTo ==
    ASSUME NEW n \in Nat
    PROVE  IsFiniteSet(1..n) /\ Cardinality(1..n) = n
<1>1. /\ IsFiniteSet(1..n)
      /\ Cardinality(1..n) = IF 1 > n THEN 0 ELSE n - 1 + 1
    BY FS_Interval
<1>2. QED
    BY <1>1

(* The whole sum is the engine's, and the check digit on top.              *)
LEMMA SumOfParts ==
    ASSUME NEW d \in Numeral(Len(DIGITS), PAN_LEN)
    PROVE  LET U == {u \in (1..PAN_LEN) \X (1..(Len(DIGITS) - 1)) : u[2] <= Part(d, u[1])}
           IN  /\ LuhnSum(HeadOf(d)) \in Nat
               /\ Cardinality(U) = LuhnSum(HeadOf(d)) + d[PAN_LEN]
<1> DEFINE nine == Len(DIGITS) - 1
           x == d[PAN_LEN]
           U == {u \in (1..PAN_LEN) \X (1..nine) : u[2] <= Part(d, u[1])}
           V == {u \in (1..(PAN_LEN - 1)) \X (1..nine) : u[2] <= Part(d, u[1])}
           W == {PAN_LEN} \X (1..x)
<1>1. Len(DIGITS) \in Nat /\ nine \in Nat /\ PAN_LEN \in Nat \ {0}
    BY AlphabetFacts, AlphabetAssumption, NumberAssumption DEF IsAlphabet
<1>2. d \in [1..PAN_LEN -> 0..nine] /\ x \in 0..nine
    BY <1>1 DEF Numeral
<1>3. Part(d, PAN_LEN) = x
    <2>1. Len(d) = PAN_LEN
        BY <1>1, NumeralIsSeq
    <2>2. (PAN_LEN - PAN_LEN) % 2 # 1
        BY <1>1
    <2>3. QED BY <2>1, <2>2 DEF Part
<1>4. DOMAIN HeadOf(d) = 1..(PAN_LEN - 1)
    BY HeadType
<1>5. V = {u \in (DOMAIN HeadOf(d)) \X (1..Len(DIGITS)) :
              u[2] <= LuhnWeight(HeadOf(d), u[1])}
    <2>1. \A i \in 1..(PAN_LEN - 1) : /\ LuhnWeight(HeadOf(d), i) = Part(d, i)
                                      /\ Part(d, i) \in 0..nine
        BY PartIsWeight
    <2>2. QED BY <1>1, <1>4, <2>1
<1>6. U = V \cup W
    BY <1>1, <1>2, <1>3
<1>7. V \cap W = {}
    BY <1>1
<1>8. IsFiniteSet(V) /\ Cardinality(V) \in Nat
    <2>1. IsFiniteSet(1..(PAN_LEN - 1)) /\ IsFiniteSet(1..nine)
        BY <1>1, UpTo
    <2>2. IsFiniteSet((1..(PAN_LEN - 1)) \X (1..nine))
        BY <2>1, FS_Product
    <2>3. V \in SUBSET ((1..(PAN_LEN - 1)) \X (1..nine))
        OBVIOUS
    <2> HIDE DEF V
    <2>4. QED BY <2>2, <2>3, FS_Subset, FS_CardinalityType
<1>9. IsFiniteSet(W) /\ Cardinality(W) = x
    <2>1. IsFiniteSet(1..x) /\ Cardinality(1..x) = x
        BY <1>1, <1>2, UpTo
    <2>2. IsFiniteSet({PAN_LEN}) /\ Cardinality({PAN_LEN}) = 1
        BY FS_Singleton
    <2>3. /\ IsFiniteSet(W)
          /\ Cardinality(W) = Cardinality({PAN_LEN}) * Cardinality(1..x)
        <3> HIDE DEF x
        <3>1. QED BY <2>1, <2>2, FS_Product
    <2>4. QED BY <1>2, <2>1, <2>2, <2>3
<1> HIDE DEF U, V, W
<1>10. Cardinality(V \cup W) = Cardinality(V) + Cardinality(W) - Cardinality(V \cap W)
    BY <1>8, <1>9, FS_Union
<1>11. Cardinality(V \cap W) = 0
    BY <1>7, FS_EmptySet
<1>12. Cardinality(U) = Cardinality(V) + x
    BY <1>2, <1>6, <1>8, <1>9, <1>10, <1>11
<1>13. LuhnSum(HeadOf(d)) = Cardinality(V)
    BY <1>5 DEF LuhnSum
<1>14. QED
    BY <1>8, <1>12, <1>13 DEF U

(* The check digit fpe_card writes is the one is_luhn_valid of the tests   *)
(* asks for, on every number of PAN_LEN digits: an implementation over the *)
(* payload and one over the whole number agree.                            *)
THEOREM CheckDigitIsValid ==
    ASSUME NEW value \in Value, IsPan(value)
    PROVE  is_luhn_valid(value) <=> HasCheckDigit(value)
<1> DEFINE d == Numerals(value, DIGITS)
           radix == Len(DIGITS)
           head == HeadOf(d)
           U == {u \in (1..PAN_LEN) \X (1..(radix - 1)) : u[2] <= Part(d, u[1])}
<1>1. radix \in Nat \ {0} /\ radix - 1 + 1 = radix /\ PAN_LEN \in Nat \ {0}
    BY AlphabetFacts, AlphabetAssumption, NumberAssumption DEF IsAlphabet
<1>2. Len(d) = PAN_LEN
    BY DEF IsPan, PanDigits
<1>3. d \in Numeral(radix, PAN_LEN)
    BY <1>2, NumeralsType, AlphabetFacts
<1>4. is_luhn_valid(value) <=> Cardinality(U) % radix = 0
    BY <1>1, <1>2 DEF is_luhn_valid, PanDigits, Part, Doubled
<1> HIDE DEF d
<1>5. LuhnSum(head) \in Nat /\ Cardinality(U) = LuhnSum(head) + d[PAN_LEN]
    BY <1>3, SumOfParts
<1>6. d[PAN_LEN] \in 0..(radix - 1)
    BY <1>1, <1>3 DEF Numeral
<1>7. is_luhn_valid(value) <=> d[PAN_LEN] = luhn_check_digit(head)
    <2>1. (LuhnSum(head) + d[PAN_LEN]) % radix = 0
          <=> d[PAN_LEN] = (radix - (LuhnSum(head) % radix)) % radix
        BY <1>1, <1>5, <1>6, CompletesSum
    <2>2. QED BY <1>4, <1>5, <2>1 DEF luhn_check_digit
<1>8. HasCheckDigit(value) <=> d[PAN_LEN] = luhn_check_digit(head)
    <2>1. /\ head \in Seq(0..(radix - 1)) /\ Len(head) = PAN_LEN - 1
          /\ d \in Seq(0..(radix - 1))
          /\ \A i \in 1..(PAN_LEN - 1) : head[i] = d[i]
        BY <1>1, <1>3, HeadType, NumeralIsSeq
    <2>2. luhn_check_digit(head) \in 0..(radix - 1)
        <3>1. head \in [1..(PAN_LEN - 1) -> 0..(radix - 1)]
            BY <1>1, <2>1, LenProperties
        <3>2. QED BY <1>1, <3>1, LuhnType DEF Numeral
    <2> HIDE DEF head
    <2>3. /\ Completed(head) \in Seq(0..(radix - 1)) /\ Len(Completed(head)) = PAN_LEN
          /\ \A i \in 1..(PAN_LEN - 1) : Completed(head)[i] = head[i]
          /\ Completed(head)[PAN_LEN] = luhn_check_digit(head)
        BY <1>1, <2>1, <2>2, AppendProperties DEF Completed
    <2>4. ASSUME d[PAN_LEN] = luhn_check_digit(head)
          PROVE  Completed(head) = d
        <3>1. \A i \in 1..PAN_LEN : i \in 1..(PAN_LEN - 1) \/ i = PAN_LEN
            BY <1>1
        <3>2. \A i \in 1..PAN_LEN : Completed(head)[i] = d[i]
            BY <2>1, <2>3, <2>4, <3>1
        <3>3. QED BY <1>2, <2>1, <2>3, <3>2, SeqEqual
    <2>5. QED BY <2>3, <2>4 DEF HasCheckDigit, d, head
<1>9. QED
    BY <1>7, <1>8
=============================================================================
