--------------------------- MODULE MCLavcCompress ---------------------------
(* Bounds for LavcCompress: two conversion tasks, tile heights whose share *)
(* per CPU is even (4) and odd (6, rounded down to 2 with the rest going  *)
(* to the last task), an encoder taking a 4:2:0 and a 4:2:2 format, asked *)
(* for no subsampling (4:2:0 is chosen) or for 4:2:2, three calls each.    *)
(* Change messages: "subsampling=420", "codec=<unknown>:subsampling=422"  *)
(* (rejected at the codec, the subsampling never read) and                *)
(* "subsampling=4:2:2", which strtok_r splits into "subsampling=4", "2"   *)
(* and "2" (atoi gives 4: stored, then rejected before the "2"s).         *)
EXTENDS LavcCompress

CONSTANTS i1, i2

MCHeights == {4, 6}

MCPixFmts == {"yuv420p", "yuv422p"}

MCConfigs == {<<[key |-> "subsampling", val |-> 420]>>,
              <<[key |-> "codec", val |-> "unknown"], [key |-> "subsampling", val |-> 422]>>,
              <<[key |-> "subsampling", val |-> 4], [key |-> "unknown", val |-> 2],
                [key |-> "unknown", val |-> 2]>>}
=============================================================================
