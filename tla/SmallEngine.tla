----------------------------- MODULE SmallEngine -----------------------------
(***************************************************************************)
(* Values for the constants of MaskEngine: two digits and one letter, to   *)
(* be used with MIN_DOMAIN = 8 (FF1 takes three digits, or two of digits   *)
(* and letters), cards of four digits and a hint of two characters; and    *)
(* stand-ins for FF1 and HMAC, for alphabets of any size.  The code's own  *)
(* alphabets are here too.                                                 *)
(***************************************************************************)
EXTENDS Integers, Sequences, Functions

SmallDIGITS == <<"0", "1">>
SmallALNUM == <<"0", "1", "a">>
SmallChar == {"0", "1", "a", "-", "@", "*"}

(* The characters of a literal.                                            *)
Chars(string) == [i \in 1..Len(string) |-> SubSeq(string, i, i)]

RealDIGITS == Chars("0123456789")
RealALNUM ==
    Chars("0123456789abcdefghijklmnopqrstuvwxyzABCDEFGHIJKLMNOPQRSTUVWXYZ")
(* The dash stands for one that takes three bytes, an en dash; the others  *)
(* are ASCII.                                                              *)
DashOfThree(c) == IF c = "-" THEN 3 ELSE 1

(* A stand-in for FF1: a permutation of the numerals of each length that   *)
(* depends on the key and mixes every numeral into others, as one round of *)
(* a Feistel network does: the halves A, B become B, A + F(key, B).        *)
ToyFf1(key, radix, nums, forward) ==
    LET n == Len(nums)
        u == n \div 2
        B == IF forward THEN SubSeq(nums, u + 1, n) ELSE SubSeq(nums, 1, n - u)
        A == IF forward THEN SubSeq(nums, 1, u) ELSE SubSeq(nums, n - u + 1, n)
        F(i) == key + i + FoldFunction(+, 0, B)
        Shifted == [i \in 1..u |-> IF forward THEN (A[i] + F(i)) % radix
                                   ELSE (A[i] - F(i)) % radix]
    IN  IF forward THEN B \o Shifted ELSE Shifted \o B

(* The stand-in is what FF1 is: a permutation, undone in the other          *)
(* direction.                                                              *)
ASSUME ToyFf1Inverts ==
    \A radix \in {2, 3}, n \in 2..4 : \A nums \in [1..n -> 0..(radix - 1)] :
        /\ ToyFf1(1, radix, nums, TRUE) \in [1..n -> 0..(radix - 1)]
        /\ ToyFf1(1, radix, ToyFf1(1, radix, nums, TRUE), FALSE) = nums
        /\ ToyFf1(1, radix, ToyFf1(1, radix, nums, FALSE), TRUE) = nums

(* A token that keeps values and keys apart.                               *)
ToyHmac(key, value) == <<IF key = 1 THEN "1" ELSE "0">> \o value
=============================================================================
