--------------------------- MODULE MCTxPacketizer ---------------------------
(* Bounds for TxPacketizer.  An mtu of 184 leaves 184 - 40 - 24 = 120     *)
(* bytes, rounded down to 96 (144, a packet too large, if the payload     *)
(* header were forgotten); the tile lengths cover an empty tile, one exact  *)
(* packet, two exact packets and a short last packet.  Audio packets carry *)
(* 1500 - 40 - 16 = 1444 bytes.                                            *)
EXTENDS TxPacketizer

MCTileLens == {0, 96, 150, 192}

MCAudioLens == {0, 1444, 3000}
=============================================================================
