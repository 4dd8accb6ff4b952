------------------------------ MODULE SeqArith ------------------------------
(***************************************************************************)
(* Wrap-around comparison of RTP sequence numbers, as pbuf.cpp does it:    *)
(* the difference of two 16-bit sequence numbers is cast to int16_t and    *)
(* its sign decides which one is newer.  SeqModulus is 2^16 in the code; the   *)
(* models use a smaller power of two with the same half-epoch rule.        *)
(***************************************************************************)
EXTENDS Integers

CONSTANT SeqModulus

ASSUME SeqModulus \in {2^k : k \in 2..16}

(* (int16_t)(a - b): the difference modulo SeqModulus read as a signed value. *)
SignedDiff(a, b) ==
    LET d == (a - b) % SeqModulus
    IN  IF d >= SeqModulus \div 2 THEN d - SeqModulus ELSE d

(* a is a later sequence number than b (add_coded_unit's "> 0" tests).    *)
Newer(a, b) == SignedDiff(a, b) > 0

(* a is an earlier sequence number than b (add_coded_unit's "< 0" test).  *)
Older(a, b) == SignedDiff(a, b) < 0
=============================================================================
