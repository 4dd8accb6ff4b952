----------------------------- MODULE PbufFrames -----------------------------
(***************************************************************************)
(* The frame store and playout scheduler of the playout buffer,            *)
(* src/src/rtp/pbuf.cpp: the frame-filing half of pbuf_insert (with        *)
(* create_new_pnode and add_coded_unit), pbuf_decode, pbuf_remove,         *)
(* pbuf_set_playout_delay and pbuf_destroy.  The statistics half of        *)
(* pbuf_insert, which reads and writes none of this state, is PbufStats   *)
(* and PbufStatsStream.                                                    *)
(*                                                                         *)
(* The list frst..last of pbuf_node is the sequence `frames`.  Time is     *)
(* kept relative to the caller's clock: a node's `playout` field is        *)
(* playout_time - now, so "curr_time > playout_time" is playout < 0 and    *)
(* "curr_time > playout_time + 1s" is playout < -Grace.  Tick lowers every *)
(* playout by one and clamps it at Floor, below which neither test can     *)
(* change; this keeps the state space finite without a bound on time.      *)
(***************************************************************************)
EXTENDS Integers, Sequences, SequencesExt, FiniteSets

CONSTANTS
    NFrames,        \* frames the sender emits; media timestamps 1..NFrames
    PktsPerFrame,   \* packets per frame; the last one carries the M bit
    SeqModulus,         \* 2^16 in the code
    SeqStart,       \* sequence number of the sender's first packet
    InitDelay,      \* playout_delay_us set by pbuf_init (32 ms), in ticks
    Delays,         \* delays pbuf_set_playout_delay may install, in ticks
    Offsets,        \* values the external *offset_ms knob takes, in ticks
    Grace,          \* the 1s of pbuf_decode, in ticks
    AllocOutcomes,  \* {TRUE}, or {TRUE, FALSE} when malloc/new may fail
    MaxInserts      \* bound on the number of pbuf_insert calls

ASSUME /\ NFrames \in Nat \ {0} /\ PktsPerFrame \in Nat \ {0}
       /\ SeqStart \in 0..SeqModulus - 1
       /\ NFrames * PktsPerFrame < SeqModulus \div 2
       /\ Grace \in Nat \ {0}
       /\ InitDelay \in Delays /\ Delays \subseteq Int /\ Offsets \subseteq Int
       /\ AllocOutcomes \subseteq BOOLEAN /\ TRUE \in AllocOutcomes
       /\ MaxInserts \in Nat

INSTANCE SeqArith

Ts == 1..NFrames

(* The packets the sender emits: tx_send_base cuts a tile into packets    *)
(* that share the frame's timestamp, and sets m only on the last one; the *)
(* RTP layer numbers them consecutively.  The network may deliver any of  *)
(* them, in any order, any number of times, or never.                     *)
SeqNo(t, i) == (SeqStart + (t - 1) * PktsPerFrame + (i - 1)) % SeqModulus

Packets == [ts : Ts, i : 1..PktsPerFrame]

Pkt(x) == [ts |-> x.ts, seq |-> SeqNo(x.ts, x.i), m |-> x.i = PktsPerFrame]

Floor == -(Grace + 1)

Clamp(x) == IF x < Floor THEN Floor ELSE x

VARIABLES
    frames,     \* frst..last, a sequence of pbuf_node records
    delay,      \* playout_buf->playout_delay_us
    offset,     \* *playout_buf->offset_ms, owned by the caller
    live,       \* FALSE once pbuf_destroy has freed the buffer
    crashed,    \* a NULL pointer was dereferenced
    inserts,    \* pbuf_insert calls so far (bounded by MaxInserts)
    held,       \* ghost: seqs delivered for a timestamp since its node exists
    decodes     \* ghost: how often each timestamp went to the decode callback

vars == <<frames, delay, offset, live, crashed, inserts, held, decodes>>

Node == [rtp_timestamp : Ts, playout : Floor..(Max(Delays) + Max(Offsets)),
         decoded : BOOLEAN, mbit : BOOLEAN, completed : BOOLEAN,
         cdata : Seq(0..SeqModulus - 1)]

TypeOK ==
    /\ frames \in Seq(Node)
    /\ delay \in Delays /\ offset \in Offsets
    /\ live \in BOOLEAN /\ crashed \in BOOLEAN
    /\ inserts \in 0..MaxInserts
    /\ held \in [Ts -> SUBSET (0..SeqModulus - 1)]
    /\ decodes \in [Ts -> Nat]

TsHeld(fs) == {fs[i].rtp_timestamp : i \in DOMAIN fs}

-----------------------------------------------------------------------------
(* Helpers of pbuf.cpp                                                     *)

(* frame_complete *)
FrameComplete(f) == f.mbit \/ f.completed

(* Mutant of NewPnode: the delay is added to an already delayed time.   *)
NewPnodeDelayTwice(p) ==
    [rtp_timestamp |-> p.ts, playout |-> Clamp(2 * delay + offset),
     decoded |-> FALSE, mbit |-> p.m, completed |-> FALSE,
     cdata |-> <<p.seq>>]

(* create_new_pnode, when new and malloc succeed: playout time is now     *)
(* plus the delay passed in, playout_delay_us + 1000 * *offset_ms.        *)
NewPnode(p) ==
    [rtp_timestamp |-> p.ts, playout |-> Clamp(delay + offset),
     decoded |-> FALSE, mbit |-> p.m, completed |-> FALSE,
     cdata |-> <<p.seq>>]

(* Mutant of AddCodedUnit: sequence numbers compared as plain integers,  *)
(* without the int16_t cast.                                              *)
AddCodedUnitNoWrap(node, p, ok) ==
    LET c   == node.cdata
        pos == {k \in 1..Len(c) : p.seq >= c[k]}
        cd  == IF pos = {} THEN Append(c, p.seq)
               ELSE IF p.seq > c[Min(pos)] THEN InsertAt(c, Min(pos), p.seq)
               ELSE c
    IN  IF ok THEN [node EXCEPT !.mbit = @ \/ p.m, !.cdata = cd] ELSE node

(* add_coded_unit: file the packet into the list kept in descending       *)
(* sequence order.  The scan stops at the first entry the packet is not   *)
(* older than; it goes before that entry if newer, and is freed as a      *)
(* duplicate if equal.  The M bit is or-ed in before the duplicate test.  *)
(* A failed malloc frees the packet and leaves the node as it was.        *)
AddCodedUnit(node, p, ok) ==
    LET c   == node.cdata
        pos == {k \in 1..Len(c) : ~Older(p.seq, c[k])}
        cd  == IF pos = {} THEN Append(c, p.seq)
               ELSE IF Newer(p.seq, c[Min(pos)]) THEN InsertAt(c, Min(pos), p.seq)
               ELSE c
    IN  IF ok THEN [node EXCEPT !.mbit = @ \/ p.m, !.cdata = cd] ELSE node

(* The backward scan of pbuf_insert: from last, step to prv while the     *)
(* node is not frst and its timestamp is greater than the packet's.       *)
ScanBack(ts) == Max({1} \cup {i \in 1..Len(frames) : frames[i].rtp_timestamp <= ts})

(* Ghost bookkeeping: the packet's seq is now expected in its node.       *)
HeldAfter(p, ok, fs) ==
    [held EXCEPT ![p.ts] = IF p.ts \notin TsHeld(fs) THEN @
                           ELSE IF p.ts \notin TsHeld(frames) THEN {p.seq}
                           ELSE IF ok THEN @ \cup {p.seq} ELSE @]

-----------------------------------------------------------------------------
(* pbuf_insert, frame half.  ok is the outcome of the allocation the path *)
(* makes.                                                                  *)

(* The buffer is empty: the new node becomes frst and last (both NULL if  *)
(* create_new_pnode failed).                                               *)
InsertFirst(p, ok) ==
    /\ frames = <<>>
    /\ frames' = IF ok THEN <<NewPnode(p)>> ELSE <<>>
    /\ UNCHANGED crashed

(* The packet belongs to the last frame. *)
InsertLast(p, ok) ==
    /\ frames /= <<>>
    /\ Last(frames).rtp_timestamp = p.ts
    /\ frames' = [frames EXCEPT ![Len(frames)] = AddCodedUnit(@, p, ok)]
    /\ UNCHANGED crashed

(* Mutant of InsertNewFrame: the newer-frame test is <= instead of <.    *)
InsertNewFrameLe(p, ok) ==
    /\ frames /= <<>>
    /\ Last(frames).rtp_timestamp <= p.ts
    /\ LET marked == [frames EXCEPT ![Len(frames)].completed = TRUE]
       IN  IF ok THEN frames' = Append(marked, NewPnode(p)) /\ UNCHANGED crashed
           ELSE frames' = marked /\ crashed' = TRUE

(* A newer frame: the old last is marked completed and the new node is    *)
(* linked after it.  If create_new_pnode returned NULL, tmp->prv is a     *)
(* NULL dereference.                                                       *)
InsertNewFrame(p, ok) ==
    /\ frames /= <<>>
    /\ Last(frames).rtp_timestamp < p.ts
    /\ LET marked == [frames EXCEPT ![Len(frames)].completed = TRUE]
       IN  IF ok THEN frames' = Append(marked, NewPnode(p)) /\ UNCHANGED crashed
           ELSE frames' = marked /\ crashed' = TRUE

(* Mutant of InsertPrevious: the very-old test is >= instead of >.       *)
InsertPreviousGe(p, ok) ==
    /\ frames /= <<>>
    /\ Last(frames).rtp_timestamp > p.ts
    /\ IF frames[1].rtp_timestamp >= p.ts
         THEN UNCHANGED frames
         ELSE LET i == ScanBack(p.ts)
              IN  IF frames[i].rtp_timestamp = p.ts
                    THEN frames' = [frames EXCEPT ![i] = AddCodedUnit(@, p, ok)]
                    ELSE UNCHANGED frames
    /\ UNCHANGED crashed

(* A packet of an earlier frame: discarded if older than frst, otherwise  *)
(* filed into the node the backward scan stops at if its timestamp        *)
(* matches, and discarded if not.                                          *)
InsertPrevious(p, ok) ==
    /\ frames /= <<>>
    /\ Last(frames).rtp_timestamp > p.ts
    /\ IF frames[1].rtp_timestamp > p.ts
         THEN UNCHANGED frames
         ELSE LET i == ScanBack(p.ts)
              IN  IF frames[i].rtp_timestamp = p.ts
                    THEN frames' = [frames EXCEPT ![i] = AddCodedUnit(@, p, ok)]
                    ELSE UNCHANGED frames
    /\ UNCHANGED crashed

PbufInsert(p, ok) ==
    /\ live /\ ~crashed
    /\ inserts < MaxInserts
    /\ \/ InsertFirst(p, ok)
       \/ InsertLast(p, ok)
       \/ InsertNewFrame(p, ok)
       \/ InsertPrevious(p, ok)
    /\ inserts' = inserts + 1
    /\ held' = HeldAfter(p, ok, frames')
    /\ UNCHANGED <<delay, offset, live, decodes>>

-----------------------------------------------------------------------------
(* pbuf_decode: the first undecoded, due, complete frame goes to the      *)
(* callback and is marked decoded.  Every undecoded, due, incomplete      *)
(* frame the scan passes on the way is marked completed if its grace      *)
(* period is over, but not decoded in this call.                          *)
Due(f) == ~f.decoded /\ f.playout < 0

(* Mutant of PbufDecode: an incomplete frame past its grace period is    *)
(* never marked completed.                                                 *)
PbufDecodeNoForce ==
    /\ live /\ ~crashed
    /\ LET ready == {i \in 1..Len(frames) : Due(frames[i]) /\ FrameComplete(frames[i])}
           n     == IF ready = {} THEN Len(frames) + 1 ELSE Min(ready)
       IN  /\ frames' = [i \in 1..Len(frames) |->
                           IF i = n THEN [frames[i] EXCEPT !.decoded = TRUE]
                           ELSE frames[i]]
           /\ decodes' = IF n > Len(frames) THEN decodes
                         ELSE [decodes EXCEPT ![frames[n].rtp_timestamp] = @ + 1]
    /\ UNCHANGED <<delay, offset, live, crashed, inserts, held>>

(* The frame pbuf_decode hands out (Len + 1 if none), the list after the  *)
(* call, and the callback count after it.                                 *)
DecodeIndex(fs) ==
    LET ready == {i \in 1..Len(fs) : Due(fs[i]) /\ FrameComplete(fs[i])}
    IN  IF ready = {} THEN Len(fs) + 1 ELSE Min(ready)

AfterDecode(fs) ==
    [i \in 1..Len(fs) |->
       IF i = DecodeIndex(fs) THEN [fs[i] EXCEPT !.decoded = TRUE]
       ELSE IF i < DecodeIndex(fs) /\ Due(fs[i]) /\ fs[i].playout < -Grace
            THEN [fs[i] EXCEPT !.completed = TRUE]
       ELSE fs[i]]

DecodesAfter(fs) ==
    IF DecodeIndex(fs) > Len(fs) THEN decodes
    ELSE [decodes EXCEPT ![fs[DecodeIndex(fs)].rtp_timestamp] = @ + 1]

PbufDecode ==
    /\ live /\ ~crashed
    /\ frames' = AfterDecode(frames)
    /\ decodes' = DecodesAfter(frames)
    /\ UNCHANGED <<delay, offset, live, crashed, inserts, held>>

(* pbuf_remove: unlink and free every leading frame that is past its      *)
(* playout time and complete; stop at the first one that is not.          *)
Removable(f) == f.playout < 0 /\ FrameComplete(f)

(* Mutant of PbufRemove: the scan goes on past a frame it cannot remove. *)
PbufRemoveNoStop ==
    /\ live /\ ~crashed
    /\ frames' = SelectSeq(frames, LAMBDA f : ~Removable(f))
    /\ held' = [t \in Ts |-> IF \E f \in Range(frames) : f.rtp_timestamp = t /\ Removable(f)
                             THEN {} ELSE held[t]]
    /\ UNCHANGED <<delay, offset, live, crashed, inserts, decodes>>

(* How many leading frames pbuf_remove frees, and the ghost after it.     *)
RemoveCount(fs) == Max({j \in 0..Len(fs) : \A i \in 1..j : Removable(fs[i])})

HeldAfterRemove(fs) ==
    [t \in Ts |-> IF \E i \in 1..RemoveCount(fs) : fs[i].rtp_timestamp = t
                  THEN {} ELSE held[t]]

PbufRemove ==
    /\ live /\ ~crashed
    /\ frames' = SubSeq(frames, RemoveCount(frames) + 1, Len(frames))
    /\ held' = HeldAfterRemove(frames)
    /\ UNCHANGED <<delay, offset, live, crashed, inserts, decodes>>

(* pbuf_set_playout_delay: affects only nodes created afterwards. *)
PbufSetPlayoutDelay(d) ==
    /\ live /\ ~crashed
    /\ delay' = d
    /\ UNCHANGED <<frames, offset, live, crashed, inserts, held, decodes>>

(* pbuf_destroy: every node and its packets are freed. *)
PbufDestroy ==
    /\ live /\ ~crashed
    /\ frames' = <<>>
    /\ live' = FALSE
    /\ held' = [t \in Ts |-> {}]
    /\ UNCHANGED <<delay, offset, crashed, inserts, decodes>>

(* The caller's clock advances. *)
Tick ==
    /\ ~crashed
    /\ frames' = [i \in 1..Len(frames) |-> [frames[i] EXCEPT !.playout = Clamp(@ - 1)]]
    /\ UNCHANGED <<delay, offset, live, crashed, inserts, held, decodes>>

(* The caller changes the value *offset_ms points to. *)
ChangeOffset(o) ==
    /\ offset' = o
    /\ UNCHANGED <<frames, delay, live, crashed, inserts, held, decodes>>

-----------------------------------------------------------------------------
Init ==
    /\ frames = <<>>
    /\ delay = InitDelay
    /\ offset \in Offsets
    /\ live = TRUE
    /\ crashed = FALSE
    /\ inserts = 0
    /\ held = [t \in Ts |-> {}]
    /\ decodes = [t \in Ts |-> 0]

Next ==
    \/ \E x \in Packets, ok \in AllocOutcomes : PbufInsert(Pkt(x), ok)
    \/ PbufDecode
    \/ PbufRemove
    \/ \E d \in Delays : PbufSetPlayoutDelay(d)
    \/ PbufDestroy
    \/ Tick
    \/ \E o \in Offsets : ChangeOffset(o)

Spec == Init /\ [][Next]_vars

(* The render loop calls pbuf_decode and pbuf_remove on every tick of the *)
(* caller's clock, and the clock keeps running.                           *)
FairSpec == Spec /\ WF_vars(PbufDecode) /\ WF_vars(PbufRemove) /\ WF_vars(Tick)

(* Spec section 2: the render path calls pbuf_decode and then pbuf_remove *)
(* back to back with the same now; one step does both.                    *)
PbufRender ==
    /\ live /\ ~crashed
    /\ LET d == AfterDecode(frames)
       IN  /\ frames' = SubSeq(d, RemoveCount(d) + 1, Len(d))
           /\ held' = HeldAfterRemove(d)
    /\ decodes' = DecodesAfter(frames)
    /\ UNCHANGED <<delay, offset, live, crashed, inserts>>

RenderNext ==
    \/ \E x \in Packets, ok \in AllocOutcomes : PbufInsert(Pkt(x), ok)
    \/ PbufRender
    \/ \E d \in Delays : PbufSetPlayoutDelay(d)
    \/ PbufDestroy
    \/ Tick
    \/ \E o \in Offsets : ChangeOffset(o)

RenderSpec == Init /\ [][RenderNext]_vars
-----------------------------------------------------------------------------
(* Properties                                                              *)

(* pbuf_validate's first assertion: along frst..last the RTP timestamps   *)
(* strictly increase, whatever order, duplication and loss the network    *)
(* produces and however pbuf_remove interleaves with pbuf_insert.         *)
FramesOrdered ==
    \A i \in 1..Len(frames) - 1 :
        frames[i].rtp_timestamp < frames[i + 1].rtp_timestamp

(* add_coded_unit keeps each frame's coded_data list in strictly          *)
(* descending sequence order under the int16_t wrap-around comparison, so *)
(* no sequence number is in it twice, also for frames whose packets cross *)
(* the wrap of the sequence space.                                        *)
PacketListOrdered ==
    \A f \in Range(frames) :
        \A i, j \in 1..Len(f.cdata) : i < j => Newer(f.cdata[i], f.cdata[j])

(* No packet of a frame the buffer still holds is lost: every node holds  *)
(* exactly the sequence numbers delivered for its timestamp since the     *)
(* node was created (the very-old test, the backward scan that stops at   *)
(* frst, and add_coded_unit together).                                    *)
PacketsRetained ==
    \A f \in Range(frames) : Range(f.cdata) = held[f.rtp_timestamp]

(* The frames pbuf_remove takes out in a step (pbuf_destroy excluded). *)
Evicted == IF live' THEN {f \in Range(frames) : f.rtp_timestamp \notin TsHeld(frames')}
           ELSE {}

(* Spec section 8, eviction safety: pbuf_remove never evicts a frame      *)
(* whose marker was not seen before its grace period after the playout    *)
(* time is over.                                                           *)
EvictionSafety ==
    [][\A f \in Evicted : f.mbit \/ f.playout < -Grace]_vars

(* Spec section 4 frame life cycle: a frame is evicted only once decoded  *)
(* or forced complete; a frame whose marker was seen is handed to the     *)
(* decode callback, before or by the pbuf_decode of the same render step, *)
(* before pbuf_remove frees it.                                           *)
NoUndecodedEviction ==
    [][\A f \in Evicted :
          f.mbit => f.decoded \/ decodes'[f.rtp_timestamp] > decodes[f.rtp_timestamp]]_vars

(* No timestamp is handed to the decode callback twice, even when a late  *)
(* or duplicated packet of a frame already played out arrives.            *)
NoRedecode == \A t \in Ts : decodes[t] <= 1

(* pbuf_insert never dereferences the NULL that create_new_pnode returns  *)
(* when an allocation fails (spec section 7: allocation failure drops the *)
(* packet and the buffer stays usable).                                   *)
NoNullDeref == ~crashed

(* The frame store implements the abstract playout buffer: seen without  *)
(* packets and time, every step of pbuf_insert, pbuf_decode, pbuf_remove  *)
(* and pbuf_destroy creates a frame only at the tail, moves frame states  *)
(* only forward, decodes at most one complete frame, and evicts only a    *)
(* leading run of frames that are not open.                               *)
AbsFrame(f) ==
    [ts |-> f.rtp_timestamp,
     state |-> IF f.decoded THEN "decoded" ELSE IF FrameComplete(f) THEN "complete" ELSE "open"]

Abs == INSTANCE PlayoutAbstract
           WITH queue <- [i \in 1..Len(frames) |-> AbsFrame(frames[i])], alive <- live

PlayoutRefinement == Abs!Spec

(* The buffer drains: with pbuf_decode and pbuf_remove called as time     *)
(* passes, every frame, complete or not, eventually leaves the buffer.    *)
Drains == \A t \in Ts : t \in TsHeld(frames) ~> t \notin TsHeld(frames)
=============================================================================
