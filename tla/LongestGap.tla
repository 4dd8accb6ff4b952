----------------------------- MODULE LongestGap -----------------------------
(***************************************************************************)
(* compute_longest_gap of src/src/rtp/pbuf.cpp: the longest run of lost    *)
(* packets in one word of the statistics bitmap, found with                *)
(* __builtin_clzll and __builtin_ctzll, folded into a running maximum.     *)
(* WordBits is the width of unsigned long long (64 in the code).           *)
(***************************************************************************)
EXTENDS Naturals, FiniteSets

CONSTANT WordBits

ASSUME WordBits \in Nat \ {0}

Full == 2^WordBits - 1

(* Bit j of word x. *)
Bit(x, j) == (x \div 2^j) % 2

RECURSIVE BitLength(_)
BitLength(x) == IF x = 0 THEN 0 ELSE 1 + BitLength(x \div 2)

(* __builtin_clzll, for x /= 0 *)
Clz(x) == WordBits - BitLength(x)

RECURSIVE Ctz(_)
(* __builtin_ctzll, for x /= 0 *)
Ctz(x) == IF x % 2 = 1 THEN 0 ELSE 1 + Ctz(x \div 2)

Larger(a, b) == IF a >= b THEN a ELSE b

RECURSIVE ShiftScan(_, _)
(* while (packets != 0) { gap = max(gap, ctz(packets)); packets >>= 1; } *)
ShiftScan(g, x) == IF x = 0 THEN g ELSE ShiftScan(Larger(g, Ctz(x)), x \div 2)

(* Mutant of ComputeLongestGap: the leading zeros are not counted. *)
ComputeLongestGapNoClz(lg, x) ==
    IF lg = WordBits THEN lg
    ELSE IF x = 0 THEN WordBits
    ELSE IF x = Full THEN lg
    ELSE ShiftScan(lg, x)

(* compute_longest_gap(&lg, x): the new value of *longest_gap. *)
ComputeLongestGap(lg, x) ==
    IF lg = WordBits THEN lg
    ELSE IF x = 0 THEN WordBits
    ELSE IF x = Full THEN lg
    ELSE ShiftScan(Larger(lg, Clz(x)), x)

-----------------------------------------------------------------------------
(* Reference: the longest run of zero bits anywhere in the word.          *)
LongestZeroRun(x) ==
    LET runs == {n \in 0..WordBits :
                   \E s \in 0..WordBits - n : \A j \in s..s + n - 1 : Bit(x, j) = 0}
    IN  CHOOSE n \in runs : \A m \in runs : m <= n
=============================================================================
