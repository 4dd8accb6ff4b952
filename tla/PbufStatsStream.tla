--------------------------- MODULE PbufStatsStream ---------------------------
(***************************************************************************)
(* The statistics of pbuf_insert fed by a real stream: the sender numbers  *)
(* packets consecutively from SeqStart and gives PktsPerFrame of them the  *)
(* same RTP timestamp (tx_send_base); the network delays a packet by at   *)
(* most Window - 1 later ones and may deliver the packets it holds in any  *)
(* order (Window = 1 is in-order delivery), deliver one twice, or lose one.*)
(*                                                                         *)
(* Ghost state says what the statistics should show: `missing` marks the   *)
(* sequence numbers the network lost once the receiver had started, `lost` *)
(* counts those among the words flushed since the last report, `flushed`   *)
(* counts every word ever flushed, `shown` is the media time of the last   *)
(* report on a clock that does not wrap at TsModulus.                      *)
(***************************************************************************)
EXTENDS Integers, Sequences, SequencesExt, FiniteSets

CONSTANTS
    SeqModulus, WordBits, Interval, TsModulus, ReportGap,
    SeqStart,       \* sequence number of the first packet sent
    NPkts,          \* packets the sender sends
    PktsPerFrame,   \* packets sharing one RTP timestamp
    TsStart,        \* RTP timestamp of the first frame
    TsStep,         \* RTP timestamp increment per frame
    Window,         \* reordering depth plus one
    MaxLoss,        \* packets the network may lose
    MaxDups         \* packets the network may duplicate

ASSUME /\ SeqStart \in 0..SeqModulus - 1 /\ TsStart \in 0..TsModulus - 1
       /\ NPkts \in Nat /\ PktsPerFrame \in Nat \ {0} /\ TsStep \in Nat
       /\ Window \in Nat \ {0} /\ MaxLoss \in Nat /\ MaxDups \in Nat

INSTANCE PbufStats

SeqNoOf(k) == (SeqStart + k) % SeqModulus

(* The media time of packet k, unwrapped, and its RTP timestamp. *)
TrueTs(k) == TsStart + (k \div PktsPerFrame) * TsStep

TsOf(k) == TrueTs(k) % TsModulus

VARIABLES
    pb,         \* the statistics fields of struct pbuf
    sent,       \* packets sent so far
    inflight,   \* indices of packets sent and not yet delivered or lost
    losses,     \* packets lost so far
    duplicates, \* packets duplicated so far
    previous,   \* index of the packet delivered last, -1 before the first
    missing,    \* ghost: sequence numbers lost after the receiver started
    lost,       \* ghost: lost packets in the words flushed since the report
    gap,        \* ghost: longest zero run of a word flushed since the report
    flushed,    \* ghost: words flushed since pbuf_init
    shown       \* ghost: unwrapped media time of the last report

vars == <<pb, sent, inflight, losses, duplicates, previous, missing, lost, gap, flushed, shown>>

TypeOK ==
    /\ pb \in StatsRecord
    /\ sent \in 0..NPkts /\ inflight \subseteq 0..NPkts - 1
    /\ losses \in 0..MaxLoss /\ duplicates \in 0..MaxDups
    /\ previous \in -1..NPkts - 1
    /\ missing \in [0..SeqModulus - 1 -> BOOLEAN]
    /\ lost \in Nat /\ gap \in 0..WordBits /\ flushed \in Nat /\ shown \in Nat

Init ==
    /\ pb = InitStats
    /\ sent = 0 /\ inflight = {}
    /\ losses = 0 /\ duplicates = 0 /\ previous = -1
    /\ missing = [s \in 0..SeqModulus - 1 |-> FALSE]
    /\ lost = 0 /\ gap = 0 /\ flushed = 0
    /\ shown = 0       \* last_display_ts as calloc leaves it

(* The longest zero run of any of the words ws of the bitmap bits. *)
WordsGap(bits, ws) ==
    FoldLeft(LAMBDA g, w : LG!Larger(g, LG!LongestZeroRun(WordValue(bits, w))), 0, ws)

(* pbuf_insert's statistics half for packet k, with the ghost following   *)
(* the words the flush sums.                                               *)
Collect(k) ==
    LET seq == SeqNoOf(k)
        ws  == FlushedWords(Marked(pb, seq), seq)
        rep == ReportDue(Flush(Marked(pb, seq), seq), TsOf(k))
        gone == {s \in 0..SeqModulus - 1 : missing[s] /\ \E i \in 1..Len(ws) : s \div WordBits = ws[i]}
    IN  /\ pb' = CollectStats(pb, seq, TsOf(k))
        /\ missing' = [s \in DOMAIN missing |-> missing[s] /\ s \notin gone]
        /\ lost' = IF rep THEN 0 ELSE lost + Cardinality(gone)
        /\ gap' = IF rep THEN 0 ELSE LG!Larger(gap, WordsGap(Marked(pb, seq).packets, ws))
        /\ flushed' = flushed + Len(ws)
        /\ shown' = IF rep THEN TrueTs(k) ELSE shown

Send ==
    /\ sent < NPkts /\ \A k \in inflight : sent - k < Window
    /\ inflight' = inflight \cup {sent}
    /\ sent' = sent + 1
    /\ UNCHANGED <<pb, losses, duplicates, previous, missing, lost, gap, flushed, shown>>

Deliver(k) ==
    /\ k \in inflight
    /\ Collect(k)
    /\ inflight' = inflight \ {k}
    /\ previous' = k
    /\ UNCHANGED <<sent, losses, duplicates>>

(* A copy of the packet delivered last arrives again. *)
Duplicate ==
    /\ previous >= 0 /\ duplicates < MaxDups
    /\ Collect(previous)
    /\ duplicates' = duplicates + 1
    /\ UNCHANGED <<sent, inflight, losses, previous>>

Lose(k) ==
    /\ k \in inflight /\ losses < MaxLoss
    /\ inflight' = inflight \ {k}
    /\ losses' = losses + 1
    /\ missing' = IF pb.last_report_seq = NoSeq THEN missing
                  ELSE [missing EXCEPT ![SeqNoOf(k)] = TRUE]
    /\ UNCHANGED <<pb, sent, duplicates, previous, lost, gap, flushed, shown>>

(* The stream has ended. *)
Finished ==
    /\ sent = NPkts /\ inflight = {}
    /\ UNCHANGED vars

Next ==
    \/ Send
    \/ \E k \in inflight : Deliver(k) \/ Lose(k)
    \/ Duplicate
    \/ Finished

Spec == Init /\ [][Next]_vars

-----------------------------------------------------------------------------
(* Properties                                                              *)

(* The window's loss count is exact: expected minus received packets is   *)
(* the number of packets the network really lost in the flushed words,    *)
(* across the wrap of the sequence space, the bitmap's reuse of its words *)
(* one epoch later, the startup fill, duplicates and the report's reset.  *)
LossCountExact == pb.expected_pkts - pb.received_pkts = lost

(* The longest gap of the report is exact: the longest run of lost        *)
(* packets inside one bitmap word flushed since the last report, whether  *)
(* the run is at an edge of its word or inside it; compute_longest_gap    *)
(* folds the words of several flushes and the report resets it.           *)
LongestGapExact == pb.longest_gap = gap

(* Spec section 4.3: once the media clock has moved more than ReportGap   *)
(* past the last report and something is expected, the report is made:     *)
(* after every packet, a window with packets expected is at most ReportGap *)
(* of media time old, also when the 32-bit RTP timestamp wraps between    *)
(* two reports (the (pkt->ts - last_display_ts) difference of pbuf_insert).*)
ReportNotLate ==
    previous >= 0 /\ pb.expected_pkts > 0 => TrueTs(previous) - shown <= ReportGap

(* Spec section 3: the cumulative counters count every packet expected    *)
(* since the buffer was created, once: WordBits for each word flushed.    *)
CumulativeExact == pb.expected_pkts_cum = WordBits * flushed
=============================================================================
