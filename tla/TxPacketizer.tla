---------------------------- MODULE TxPacketizer ----------------------------
(***************************************************************************)
(* The transmit path of src/unnamed/part_000 (transmit.c): tx_send sends   *)
(* every tile of a frame's grid under one media timestamp and asks for the *)
(* marker bit only on the last tile; tx_send_tile sends one tile with the  *)
(* marker; tx_send_base cuts a tile into packets of at most                *)
(* ((mtu - 40 - sizeof(payload_hdr_t)) / 48) * 48 bytes; audio_tx_send    *)
(* cuts an audio buffer into packets of 1500 - 40 - sizeof(audio header).  *)
(*                                                                         *)
(* One variable per local of the loops (pos, m), the tiles still to be     *)
(* sent by the current call as a queue, and the last packet handed to      *)
(* rtp_send_data_hdr.  The pacing busy-wait after each packet only spends  *)
(* time and is left out.  Integers keep their C types: mtu and pos are     *)
(* unsigned, data_len is int, at width UWidth (32 in the build).           *)
(***************************************************************************)
EXTENDS Integers, Sequences, FiniteSets

CONSTANTS
    Mtus,           \* values tx_init(mtu) may be given
    VideoHdrLen,    \* sizeof(payload_hdr_t)
    AudioHdrLen,    \* sizeof(audio_payload_hdr_t)
    AudioMtu,       \* the constant mtu of audio_tx_send (1500)
    TileLens,       \* tile->data_len values of the frames sent
    AudioLens,      \* buffer->data_len values of the audio frames sent
    GridDims,       \* grid_width and grid_height values of the frames sent
    MaxCalls,       \* bound on tx_send, tx_send_tile and audio_tx_send calls
    UWidth          \* bits of unsigned and int

ASSUME /\ Mtus \subseteq Nat /\ TileLens \subseteq Nat /\ AudioLens \subseteq Nat
       /\ GridDims \subseteq Nat \ {0} /\ MaxCalls \in Nat /\ UWidth \in Nat \ {0}

VARIABLES
    mtu,        \* tx->mtu, fixed by tx_init
    mode,       \* "idle", or which sender is in its packet loop
    queue,      \* tiles of the current call not yet finished: [len, send_m]
    pos,        \* the loop's byte offset into the current tile or buffer
    m,          \* the loop's marker flag
    pkt,        \* the last packet sent: sender, payload length and marker
    markers,    \* packets sent with the marker bit by the current call (capped at 2)
    calls       \* calls made

vars == <<mtu, mode, queue, pos, m, pkt, markers, calls>>

Modulus == 2^UWidth

(* Conversion of an unsigned value to int, and C's truncating division. *)
ToInt(u) == IF u >= Modulus \div 2 THEN u - Modulus ELSE u

CDiv(a, b) == IF a >= 0 THEN a \div b ELSE -((-a) \div b)

(* Mutant of VideoChunk: the payload header is not subtracted. *)
VideoChunkNoHdr(u) == CDiv(ToInt((u - 40) % Modulus), 48) * 48

(* data_len = tx->mtu - 40 - sizeof(payload_hdr_t), in unsigned arithmetic *)
(* stored into an int, rounded down to a multiple of 48.                   *)
VideoChunk(u) == CDiv(ToInt((u - 40 - VideoHdrLen) % Modulus), 48) * 48

AudioChunk == AudioMtu - 40 - AudioHdrLen

Chunk == IF mode = "audio" THEN AudioChunk ELSE VideoChunk(mtu)

TypeOK ==
    /\ mtu \in Mtus
    /\ mode \in {"idle", "video", "audio"}
    /\ (mode = "idle") = (queue = <<>>)
    /\ queue \in Seq([len : TileLens \cup AudioLens, send_m : BOOLEAN])
    /\ pos \in 0..Modulus - 1
    /\ m \in BOOLEAN
    /\ pkt \in [kind : {"video", "audio"}, len : Int, m : BOOLEAN]
    /\ markers \in 0..2
    /\ calls \in 0..MaxCalls

Init ==
    /\ mtu \in Mtus
    /\ mode = "idle" /\ queue = <<>> /\ pos = 0 /\ m = FALSE
    /\ pkt = [kind |-> "video", len |-> 0, m |-> FALSE] /\ markers = 0 /\ calls = 0

(* A call starts its loop over the given tiles. *)
StartCall(kind, tiles) ==
    /\ mode = "idle" /\ calls < MaxCalls
    /\ mode' = kind /\ queue' = tiles /\ pos' = 0 /\ m' = FALSE
    /\ markers' = 0 /\ calls' = calls + 1
    /\ UNCHANGED <<mtu, pkt>>

(* Mutant of TxSendLast: the last column or the last row. *)
TxSendLastOr(w, h, i, j) == i = w - 1 \/ j = h - 1

(* tx_send: tile (i, j) of the grid gets the marker iff it is the last one. *)
TxSendLast(w, h, i, j) == i = w - 1 /\ j = h - 1

TxSendTiles(w, h, lens) ==
    [k \in 1..w * h |-> [len    |-> lens[k],
                         send_m |-> TxSendLast(w, h, (k - 1) \div h, (k - 1) % h)]]

TxSend ==
    \E w, h \in GridDims :
        \E lens \in [1..w * h -> TileLens] : StartCall("video", TxSendTiles(w, h, lens))

TxSendTile ==
    \E len \in TileLens : StartCall("video", <<[len |-> len, send_m |-> TRUE]>>)

AudioTxSend ==
    \E len \in AudioLens : StartCall("audio", <<[len |-> len, send_m |-> TRUE]>>)

(* Mutant of SendPacket: pos is not advanced past the packet sent. *)
SendPacketNoAdvance ==
    LET t    == Head(queue)
        last == (pos + Chunk) % Modulus >= t.len
        len  == IF last THEN t.len - pos ELSE Chunk
        mk   == m \/ (last /\ t.send_m)
        npos == (pos + len) % Modulus
        done == npos >= t.len
    IN  /\ mode /= "idle"
        /\ pkt' = [kind |-> mode, len |-> len, m |-> mk]
        /\ markers' = IF mk THEN IF markers < 2 THEN markers + 1 ELSE 2 ELSE markers
        /\ queue' = IF done THEN Tail(queue) ELSE queue
        /\ pos' = IF done THEN 0 ELSE pos
        /\ m' = IF done THEN FALSE ELSE mk
        /\ mode' = IF done /\ Len(queue) = 1 THEN "idle" ELSE mode
        /\ UNCHANGED <<mtu, calls>>

(* Mutant of SendPacket: the tile loop stops one tile late. *)
SendPacketTileOffByOne ==
    LET t    == Head(queue)
        last == (pos + Chunk) % Modulus >= t.len
        len  == IF last THEN t.len - pos ELSE Chunk
        mk   == m \/ (last /\ t.send_m)
        npos == (pos + len) % Modulus
        done == npos >= t.len
    IN  /\ mode /= "idle"
        /\ pkt' = [kind |-> mode, len |-> len, m |-> mk]
        /\ markers' = IF mk THEN IF markers < 2 THEN markers + 1 ELSE 2 ELSE markers
        /\ queue' = IF done THEN Tail(queue) ELSE queue
        /\ pos' = IF done THEN 0 ELSE npos
        /\ m' = IF done THEN FALSE ELSE mk
        /\ mode' = IF done /\ Len(queue) = 0 THEN "idle" ELSE mode
        /\ UNCHANGED <<mtu, calls>>

(* One iteration of the do-while loop of tx_send_base or audio_tx_send:    *)
(* the packet is the rest of the data once pos + data_len reaches the end  *)
(* (compared as unsigned), and then carries the marker if the call wants   *)
(* it; the loop ends when pos reaches the data length, and tx_send goes on *)
(* with the next tile, whose call starts again with m = 0.                 *)
SendPacket ==
    LET t    == Head(queue)
        last == (pos + Chunk) % Modulus >= t.len
        len  == IF last THEN t.len - pos ELSE Chunk
        mk   == m \/ (last /\ t.send_m)
        npos == (pos + len) % Modulus
        done == npos >= t.len
    IN  /\ mode /= "idle"
        /\ pkt' = [kind |-> mode, len |-> len, m |-> mk]
        /\ markers' = IF mk THEN IF markers < 2 THEN markers + 1 ELSE 2 ELSE markers
        /\ queue' = IF done THEN Tail(queue) ELSE queue
        /\ pos' = IF done THEN 0 ELSE npos
        /\ m' = IF done THEN FALSE ELSE mk
        /\ mode' = IF done /\ Len(queue) = 1 THEN "idle" ELSE mode
        /\ UNCHANGED <<mtu, calls>>

(* The sender has made all its calls. *)
Done ==
    /\ mode = "idle" /\ calls = MaxCalls
    /\ UNCHANGED vars

Next == TxSend \/ TxSendTile \/ AudioTxSend \/ SendPacket \/ Done

Spec == Init /\ [][Next]_vars

(* The sending thread runs the packet loop without waiting on anyone. *)
FairSpec == Spec /\ WF_vars(SendPacket)

-----------------------------------------------------------------------------
(* Properties                                                              *)

(* The comment on tx_send: one m-bit per frame.  While a call is in its    *)
(* loop no packet has carried the marker, and a finished call has sent     *)
(* exactly one, on its very last packet, whatever the grid, the tile       *)
(* lengths and the mtu.                                                    *)
MarkerOnLastPacket ==
    /\ mode /= "idle" => markers = 0
    /\ mode = "idle" /\ calls > 0 => markers = 1 /\ pkt.m

(* Every packet tx_send_base or audio_tx_send hands to rtp_send_data_hdr   *)
(* fits the mtu with the 40 bytes of IP/UDP/RTP headers and its payload    *)
(* header.                                                                 *)
PacketFitsMtu ==
    calls > 0 =>
        IF pkt.kind = "audio" THEN pkt.len + 40 + AudioHdrLen <= AudioMtu
                              ELSE pkt.len + 40 + VideoHdrLen <= mtu

(* Every call returns: the packet loop reaches the end of every tile.      *)
Terminates == mode /= "idle" ~> mode = "idle"
=============================================================================
