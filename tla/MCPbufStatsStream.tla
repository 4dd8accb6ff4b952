------------------------- MODULE MCPbufStatsStream -------------------------
(***************************************************************************)
(* Model-checking instance of PbufStatsStream.  The passing configuration  *)
(* uses a 24-number sequence space in 4-bit words with a report interval   *)
(* of 8, so the flush fires at a distance of 16 and a word can hold a run *)
(* of lost packets inside it.  40 packets from sequence number 13 cross    *)
(* the wrap, and the bitmap flushes again words it flushed one epoch       *)
(* earlier.  Two packets per frame with a report every five timestamp     *)
(* steps put reports between flushes.  The violation configurations use  *)
(* a 16-number space in 2-bit words, enough for their short traces.       *)
(***************************************************************************)
EXTENDS PbufStatsStream
=============================================================================
