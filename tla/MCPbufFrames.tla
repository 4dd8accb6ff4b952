---------------------------- MODULE MCPbufFrames ----------------------------
(***************************************************************************)
(* Model-checking instance of PbufFrames.  Three frames of two packets     *)
(* whose sequence numbers cross the wrap of a 4-bit sequence space (13,    *)
(* 14 | 15, 0 | 1, 2); two playout delays so that pbuf_set_playout_delay   *)
(* can make a later frame due before an earlier one; a grace period of one *)
(* tick; up to four pbuf_insert calls, enough for loss, duplication and    *)
(* reordering across all three frames.                                     *)
(***************************************************************************)
EXTENDS PbufFrames

MCSeqModulus == 16
MCSeqStart   == 13
MCDelays     == {1, 2}
MCOffsets    == {0, -1}
=============================================================================
