------------------------------ MODULE PbufStats ------------------------------
(***************************************************************************)
(* The statistics half of pbuf_insert (src/src/rtp/pbuf.cpp): a bitmap of  *)
(* received sequence numbers, one bit per number of the 16-bit space, in   *)
(* words of WordBits bits; a cursor last_report_seq that trails the stream *)
(* by at most two report intervals, behind which whole words are summed    *)
(* into received/expected counters and cleared; and the report that,       *)
(* once the RTP timestamp has moved ReportGap past the last one, prints    *)
(* and resets the window counters.                                         *)
(*                                                                         *)
(* The statistics block is the record `pb` with the field names of struct  *)
(* pbuf.  CollectStats(pkt) is an operator on it so that Pbuf can compose  *)
(* it with the frame half of pbuf_insert.  The module's own specification  *)
(* feeds it from a sender and a network that may lose, duplicate and       *)
(* reorder packets within a window.                                        *)
(***************************************************************************)
EXTENDS Integers, Sequences, SequencesExt, FiniteSets

CONSTANTS
    SeqModulus,     \* 2^16 in the code
    WordBits,       \* bits of unsigned long long (64)
    Interval,       \* STATS_INTERVAL (128)
    TsModulus,      \* 2^32 in the code
    ReportGap       \* 90000 * 5: five seconds of the 90 kHz media clock

ASSUME /\ Interval % WordBits = 0           \* the static_assert of pbuf.cpp
       /\ SeqModulus % Interval = 0
       /\ 3 * Interval <= SeqModulus
       /\ ReportGap \in 1..TsModulus - 1

LG == INSTANCE LongestGap

NoSeq == -1

(* The bits of word w, and its value as an unsigned long long. *)
WordSeqs(w) == {w * WordBits + j : j \in 0..WordBits - 1}

WordValue(bits, w) == LET S[j \in 0..WordBits] ==
                              IF j = 0 THEN 0
                              ELSE S[j - 1] + (IF bits[w * WordBits + j - 1] THEN 2^(j - 1) ELSE 0)
                      IN  S[WordBits]

(* __builtin_popcountll of word w *)
PopCount(bits, w) == Cardinality({s \in WordSeqs(w) : bits[s]})

RoundDown(s) == (s \div Interval) * Interval

StatsRecord ==
    [packets : [0..SeqModulus - 1 -> BOOLEAN],
     last_report_seq : {NoSeq} \cup 0..SeqModulus - 1,
     received_pkts : Nat, expected_pkts : Nat,
     received_pkts_cum : Nat, expected_pkts_cum : Nat,
     last_display_ts : 0..TsModulus - 1,
     longest_gap : 0..WordBits,
     out_of_order_pkts : BOOLEAN, dups : BOOLEAN]

(* pbuf_init: calloc, then last_report_seq = -1. *)
InitStats ==
    [packets |-> [s \in 0..SeqModulus - 1 |-> FALSE],
     last_report_seq |-> NoSeq,
     received_pkts |-> 0, expected_pkts |-> 0,
     received_pkts_cum |-> 0, expected_pkts_cum |-> 0,
     last_display_ts |-> 0, longest_gap |-> 0,
     out_of_order_pkts |-> FALSE, dups |-> FALSE]

-----------------------------------------------------------------------------
(* The steps of the statistics half of pbuf_insert, each a function from   *)
(* the block before it to the block after it.                              *)

(* First packet: the cursor is the sequence number rounded down to the    *)
(* interval, and the slots from there up to the packet count as received. *)
StartWindow(st, seq) ==
    IF st.last_report_seq /= NoSeq THEN st
    ELSE [st EXCEPT !.last_report_seq = RoundDown(seq),
                    !.packets = [s \in DOMAIN @ |->
                                   @[s] \/ (RoundDown(seq) <= s /\ s < seq)]]

(* The reorder test (another bit above this one in the same word), the    *)
(* duplicate test (this bit already set), then the bit is set.            *)
MarkSeq(st, seq) ==
    LET w == seq \div WordBits
    IN  [st EXCEPT
           !.out_of_order_pkts = @ \/ \E s \in WordSeqs(w) : s > seq /\ st.packets[s],
           !.dups = @ \/ st.packets[seq],
           !.packets[seq] = TRUE]

(* The flush fires when the stream is two intervals past the cursor,      *)
(* measured as a uint16_t difference, and sums the words from the cursor  *)
(* up to one interval below the packet's own interval.                    *)
FlushDue(st, seq) == (seq - st.last_report_seq) % SeqModulus >= 2 * Interval

(* Mutant of ReportSeqUntil: without the uint16_t cast. *)
ReportSeqUntilNoWrap(seq) == RoundDown(seq) - Interval

ReportSeqUntil(seq) == (RoundDown(seq) - Interval) % SeqModulus

(* The words the for loop visits, in order. *)
FlushedWords(st, seq) ==
    IF ~FlushDue(st, seq) THEN <<>>
    ELSE LET n == ((ReportSeqUntil(seq) - st.last_report_seq) % SeqModulus) \div WordBits
         IN  [k \in 1..n |-> (st.last_report_seq \div WordBits + k - 1)
                              % (SeqModulus \div WordBits)]

(* Mutant of Flush: the loop does not clear the words it sums. *)
FlushNoClear(st, seq) ==
    IF ~FlushDue(st, seq) THEN st
    ELSE LET ws  == FlushedWords(st, seq)
             rec == st.received_pkts + FoldLeft(LAMBDA a, w : a + PopCount(st.packets, w), 0, ws)
             exp == st.expected_pkts + WordBits * Len(ws)
         IN  [st EXCEPT
                !.expected_pkts = exp,
                !.received_pkts = rec,
                !.longest_gap = FoldLeft(LAMBDA g, w : LG!ComputeLongestGap(g, WordValue(st.packets, w)),
                                         @, ws),
                !.received_pkts_cum = @ + rec,
                !.expected_pkts_cum = @ + exp,
                !.last_report_seq = ReportSeqUntil(seq)]

(* Each word adds WordBits to expected_pkts and its population count to   *)
(* received_pkts, goes into compute_longest_gap, and is cleared; then the *)
(* window counters are added to the cumulative ones and the cursor moves. *)
Flush(st, seq) ==
    IF ~FlushDue(st, seq) THEN st
    ELSE LET ws  == FlushedWords(st, seq)
             rec == st.received_pkts + FoldLeft(LAMBDA a, w : a + PopCount(st.packets, w), 0, ws)
             exp == st.expected_pkts + WordBits * Len(ws)
         IN  [st EXCEPT
                !.expected_pkts = exp,
                !.received_pkts = rec,
                !.longest_gap = FoldLeft(LAMBDA g, w : LG!ComputeLongestGap(g, WordValue(st.packets, w)),
                                         @, ws),
                !.packets = [s \in DOMAIN @ |-> @[s] /\ ~(\E k \in 1..Len(ws) : s \div WordBits = ws[k])],
                !.received_pkts_cum = @ + rec,
                !.expected_pkts_cum = @ + exp,
                !.last_report_seq = ReportSeqUntil(seq)]

(* Five seconds of media time after the last report, and something        *)
(* expected: the report is printed and the window counters, the longest   *)
(* gap and the two flags are reset.                                        *)
(* Mutant of ReportDue: the timestamps compared without the uint32_t wrap. *)
ReportDueNoWrap(st, ts) ==
    ts - st.last_display_ts > ReportGap /\ st.expected_pkts > 0

ReportDue(st, ts) ==
    (ts - st.last_display_ts) % TsModulus > ReportGap /\ st.expected_pkts > 0

Report(st, ts) ==
    IF ~ReportDue(st, ts) THEN st
    ELSE [st EXCEPT !.expected_pkts = 0, !.received_pkts = 0,
                    !.last_display_ts = ts, !.longest_gap = 0,
                    !.out_of_order_pkts = FALSE, !.dups = FALSE]

(* The block as the flush finds it. *)
Marked(st, seq) == MarkSeq(StartWindow(st, seq), seq)

(* The statistics half of pbuf_insert for a packet with (seq, ts). *)
CollectStats(st, seq, ts) == Report(Flush(Marked(st, seq), seq), ts)
=============================================================================
