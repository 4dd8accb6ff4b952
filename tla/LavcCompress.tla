---------------------------- MODULE LavcCompress ----------------------------
(***************************************************************************)
(* libavcodec_compress_tile of src/src/video_compress/libavcodec.cpp, run  *)
(* by several compressor instances at once (one per tile or stream, each   *)
(* on its own thread), each with CpuCount pixel-format conversion tasks.   *)
(*                                                                         *)
(* Per call: libavcodec_check_messages (each queued change of compression *)
(* is parsed by parse_fmt into the instance's settings and forgets         *)
(* saved_desc), reconfiguration through cleanup and configure_with *)
(* when the tile's description differs from saved_desc, the pts taken from *)
(* the function's static frame_seq, the conversion split into CpuCount     *)
(* slices run by task_run_async and joined by wait_task, and the encode.   *)
(*                                                                         *)
(* configure_with can fail at any of its checks, and what it has set up    *)
(* by then stays set up: the codec context, the in_frame picture and the   *)
(* decoded buffer are each tracked; saved_desc is stored only on success.  *)
(*                                                                         *)
(* The description of a tile is its height: the slicing depends on nothing *)
(* else.  frame_seq++ is not atomic and the instances do not synchronise   *)
(* on it, so it is a load and a store that other threads may come between. *)
(***************************************************************************)
EXTENDS Integers, FiniteSets, SequencesExt

CONSTANTS
    Instances,      \* compressor states (struct state_video_compress_libav)
    CpuCount,       \* s->cpu_count, from thread::hardware_concurrency()
    Heights,        \* heights of the tiles the instances are given
    PixFmts,        \* codec->pix_fmts: the formats the encoder accepts
    Subsamplings,   \* requested_subsampling values parse_fmt may leave (0: none asked)
    Interlaced,     \* desc.interlacing == INTERLACED_MERGED for the stream
    Nvenc,          \* the encoder found is "nvenc"
    Configs,        \* config strings of change messages, as sequences of options
    MaxMsgs,        \* bound on the messages queued for an instance
    MaxCalls,       \* bound on calls per instance
    ConfigFailures  \* where configure_with may return false ("none": it succeeds)

(* The return-false checks of configure_with, in the order they come: the *)
(* codec and encoder lookup, get_best_pix_fmt, avcodec_alloc_context3, the *)
(* color_spec switch choosing s->decoder, the preset, avcodec_open2,       *)
(* av_frame_alloc and av_image_alloc; "none" is the end of the function.  *)
StageIdx == [codec |-> 1, pixfmt |-> 2, ctx_alloc |-> 3, decoder |-> 4,
             preset |-> 5, open |-> 6, frame_alloc |-> 7, image_alloc |-> 8,
             none |-> 9]

ASSUME /\ CpuCount \in Nat \ {0} /\ Heights \subseteq Nat \ {0} /\ MaxCalls \in Nat
       /\ PixFmts \subseteq {"yuv420p", "nv12", "yuv422p", "yuv444p"}
       /\ Subsamplings \subseteq {0, 420, 422, 444} /\ MaxMsgs \in Nat
       /\ Interlaced \in BOOLEAN /\ Nvenc \in BOOLEAN
       /\ ConfigFailures \subseteq DOMAIN StageIdx \ {"pixfmt"}
       /\ "none" \in ConfigFailures

Tasks == 1..CpuCount

NoDesc == 0     \* saved_desc after the memset

VARIABLES
    frame_seq,  \* the static int of libavcodec_compress_tile
    pc,         \* where each instance's thread is in the call
    msg,        \* the change-of-compression messages queued for the instance
    parse_ret,  \* what parse_fmt returned for each message check_messages took last
    saved,      \* s->saved_desc
    ctx,        \* what s->codec_ctx, s->in_frame and s->decoded hold
    subsampling, \* s->requested_subsampling
    pixfmt,     \* s->selected_pixfmt
    tile_h,     \* height of the tile being compressed
    seq_read,   \* the value of frame_seq the thread has loaded
    pts,        \* s->in_frame->pts
    last_pts,   \* pts of the frame the encoder was given last (-1: none)
    task,       \* state of each conversion task of the instance
    slices,     \* what each task converts: input rows, output rows
    calls       \* calls made by each instance

vars == <<frame_seq, pc, msg, parse_ret, saved, ctx, subsampling, pixfmt, tile_h, seq_read, pts,
          last_pts, task, slices, calls>>

(* What cleanup leaves: codec_ctx, in_frame and decoded freed and NULL. *)
Freed == [codec |-> "null", frame |-> "null", decoded |-> FALSE, h |-> NoDesc]

(* What configure_with has set up, after cleanup, when it returns at the  *)
(* check fail: the context is allocated and given the tile's size before  *)
(* the decoder switch, the decoded buffer is allocated after it, the       *)
(* context is opened, then in_frame is allocated and its picture with it. *)
Configured(h, fail) ==
    LET past(st) == StageIdx[st] < StageIdx[fail]
    IN  [codec   |-> IF past("open") THEN "open"
                     ELSE IF past("ctx_alloc") THEN "alloc" ELSE "null",
         frame   |-> IF past("image_alloc") THEN "image"
                     ELSE IF past("frame_alloc") THEN "alloc" ELSE "null",
         decoded |-> past("decoder"),
         h       |-> IF past("ctx_alloc") THEN h ELSE NoDesc]

Is420(f) == f \in {"yuv420p", "nv12"}

(* configure_with: in_frame_part[i] starts chunk_size * i rows into the   *)
(* picture, chunk_size being the height per CPU rounded down to even.     *)
ChunkSize(height) == ((height \div CpuCount) \div 2) * 2

(* Rows a converter touches for a slice of n rows: to_yuv420p and to_nv12 *)
(* handle two rows per step (y and y + 1 for y = 0, 2, ... < n), the      *)
(* 4:2:2 and 4:4:4 converters one.                                        *)
Touched(f, n) == IF Is420(f) THEN 2 * ((n + 1) \div 2) ELSE n

(* Mutant of SliceHeight: the share per CPU is not rounded to even. *)
SliceHeightNoEven(h) == h \div CpuCount

(* libavcodec_compress_tile: task i (1-based here) converts `height` rows *)
(* of the decoded tile from row (i - 1) * height, the last task the rest; *)
(* height is the tile height per CPU rounded down to even.                *)
SliceHeight(h) == ((h \div CpuCount) \div 2) * 2

SliceOf(h, H, f, i) ==
    LET height == SliceHeight(h)
        rows   == IF i < CpuCount THEN height ELSE h - height * (CpuCount - 1)
    IN  [in_start  |-> (i - 1) * height,
         out_start |-> (i - 1) * ChunkSize(H),
         rows      |-> rows,
         touched   |-> Touched(f, rows)]

TypeOK ==
    /\ frame_seq \in Nat
    /\ pc \in [Instances -> {"idle", "load", "store", "wait", "encode", "done", "aborted"}]
    /\ msg \in [Instances -> Seq(Configs)]
    /\ parse_ret \in [Instances -> Seq({-1, 0, 1})]
    /\ saved \in [Instances -> {NoDesc} \cup Heights]
    /\ ctx \in [Instances -> [codec : {"null", "alloc", "open"},
                              frame : {"null", "alloc", "image"},
                              decoded : BOOLEAN, h : {NoDesc} \cup Heights]]
    /\ subsampling \in [Instances -> Int]
    /\ pixfmt \in [Instances -> PixFmts]
    /\ tile_h \in [Instances -> Heights]
    /\ seq_read \in [Instances -> Nat] /\ pts \in [Instances -> Nat]
    /\ last_pts \in [Instances -> Nat \cup {-1}]
    /\ task \in [Instances -> [Tasks -> {"idle", "running", "done"}]]
    /\ slices \in [Instances -> [Tasks -> [in_start : Nat, out_start : Nat,
                                           rows : Nat, touched : Nat]]]
    /\ calls \in [Instances -> 0..MaxCalls]

(* Mutant of Init: saved_desc is left as allocated, not zeroed. *)
InitNoMemset ==
    /\ frame_seq = 0
    /\ pc = [s \in Instances |-> "idle"]
    /\ msg = [s \in Instances |-> <<>>]
    /\ parse_ret = [s \in Instances |-> <<>>]
    /\ saved = [s \in Instances |-> -1]
    /\ ctx = [s \in Instances |-> Freed]
    /\ subsampling \in [Instances -> Subsamplings]
    /\ pixfmt = [s \in Instances |-> CHOOSE f \in PixFmts : TRUE]
    /\ tile_h = [s \in Instances |-> CHOOSE h \in Heights : TRUE]
    /\ seq_read = [s \in Instances |-> 0] /\ pts = [s \in Instances |-> 0]
    /\ last_pts = [s \in Instances |-> -1]
    /\ task = [s \in Instances |-> [i \in Tasks |-> "idle"]]
    /\ slices = [s \in Instances |-> [i \in Tasks |->
                   [in_start |-> 0, out_start |-> 0, rows |-> 0, touched |-> 0]]]
    /\ calls = [s \in Instances |-> 0]

(* libavcodec_compress_init: no codec context, saved_desc zeroed, and   *)
(* requested_subsampling as parse_fmt left it.                            *)
Init ==
    /\ frame_seq = 0
    /\ pc = [s \in Instances |-> "idle"]
    /\ msg = [s \in Instances |-> <<>>]
    /\ parse_ret = [s \in Instances |-> <<>>]
    /\ saved = [s \in Instances |-> NoDesc]
    /\ ctx = [s \in Instances |-> Freed]
    /\ subsampling \in [Instances -> Subsamplings]
    /\ pixfmt = [s \in Instances |-> CHOOSE f \in PixFmts : TRUE]
    /\ tile_h = [s \in Instances |-> CHOOSE h \in Heights : TRUE]
    /\ seq_read = [s \in Instances |-> 0] /\ pts = [s \in Instances |-> 0]
    /\ last_pts = [s \in Instances |-> -1]
    /\ task = [s \in Instances |-> [i \in Tasks |-> "idle"]]
    /\ slices = [s \in Instances |-> [i \in Tasks |->
                   [in_start |-> 0, out_start |-> 0, rows |-> 0, touched |-> 0]]]
    /\ calls = [s \in Instances |-> 0]

-----------------------------------------------------------------------------
(* The control thread queues a msg_change_compress_data for instance s. *)
ChangeCompress(s, c) ==
    /\ pc[s] \notin {"done", "aborted"} /\ Len(msg[s]) < MaxMsgs
    /\ msg' = [msg EXCEPT ![s] = Append(@, c)]
    /\ UNCHANGED <<frame_seq, pc, parse_ret, saved, ctx, subsampling, pixfmt, tile_h, seq_read, pts,
                   last_pts, task, slices, calls>>

(* The subsampling values configure_with's switch knows. *)
KnownSubsamplings == {420, 422, 444}

(* parse_fmt over the ":"-separated options of a config string, each an   *)
(* option record: "help" prints the usage and returns 1; an unknown codec *)
(* name or option returns -1; subsampling= stores atoi of its value       *)
(* first and returns -1 after if it is not 420, 422 or 444; the other     *)
(* options (bitrate, bpp, preset, threads, encoder, gop, ...) set what   *)
(* the model does not track.  Result: requested_subsampling and the      *)
(* return value.                                                          *)
RECURSIVE ParseFmt(_, _)
ParseFmt(sub, items) ==
    IF items = <<>> THEN [sub |-> sub, ret |-> 0]
    ELSE LET it == Head(items)
             now == IF it.key = "subsampling" THEN it.val ELSE sub
         IN  CASE it.key = "help" -> [sub |-> sub, ret |-> 1]
               [] it.key = "codec" /\ it.val = "unknown" -> [sub |-> sub, ret |-> -1]
               [] it.key = "unknown" -> [sub |-> sub, ret |-> -1]
               [] it.key = "subsampling" /\ it.val \notin KnownSubsamplings ->
                      [sub |-> now, ret |-> -1]
               [] OTHER -> ParseFmt(now, Tail(items))

(* Mutant of CheckMessages: a message does not forget saved_desc. *)
CheckMessagesNoReset(s) == saved[s]

(* libavcodec_check_messages: every queued message is given to parse_fmt, *)
(* whatever it returns, and memsets saved_desc.                            *)
CheckMessages(s) == IF msg[s] /= <<>> THEN NoDesc ELSE saved[s]

CheckedSubsamplingUpTo(s, n) ==
    FoldLeft(LAMBDA sub, c : ParseFmt(sub, c).sub, subsampling[s], SubSeq(msg[s], 1, n))

CheckedSubsampling(s) == CheckedSubsamplingUpTo(s, Len(msg[s]))

(* What parse_fmt returns for each queued message; check_messages logs    *)
(* "Compression successfully changed" on 0 and "Unable to change         *)
(* compression!" otherwise, and goes on either way.                       *)
ParseRets(s) ==
    [i \in DOMAIN msg[s] |-> ParseFmt(CheckedSubsamplingUpTo(s, i - 1), msg[s][i]).ret]

(* A call for a tile of height h whose description equals saved_desc (as  *)
(* left by check_messages) goes straight to the encoding.                 *)
CompressTile(s, h) ==
    /\ pc[s] = "idle" /\ calls[s] < MaxCalls
    /\ h = CheckMessages(s)
    /\ pc' = [pc EXCEPT ![s] = "load"]
    /\ msg' = [msg EXCEPT ![s] = <<>>]
    /\ parse_ret' = [parse_ret EXCEPT ![s] = ParseRets(s)]
    /\ subsampling' = [subsampling EXCEPT ![s] = CheckedSubsampling(s)]
    /\ tile_h' = [tile_h EXCEPT ![s] = h]
    /\ calls' = [calls EXCEPT ![s] = @ + 1]
    /\ UNCHANGED <<frame_seq, saved, ctx, pixfmt, seq_read, pts, last_pts, task, slices>>

(* requested_pix_fmts: with no subsampling asked, 4:2:0 first for a       *)
(* progressive stream and 4:2:2 first for an interlaced one, then NV12    *)
(* alone for nvenc; else the formats of the subsampling asked for.  The   *)
(* fmts420, fmts422 and fmts444 arrays are defined outside this file.     *)
RequestedPixFmts(sub) ==
    LET Fmts420 == <<"yuv420p", "nv12">>
        Fmts422 == <<"yuv422p">>
        Fmts444 == <<"yuv444p">>
    IN  IF sub = 0
        THEN IF Nvenc THEN <<"nv12">>
             ELSE IF Interlaced THEN Fmts422 \o Fmts444 \o Fmts420
             ELSE Fmts420 \o Fmts422 \o Fmts444
        ELSE CASE sub = 420 -> Fmts420 [] sub = 422 -> Fmts422 [] sub = 444 -> Fmts444

(* get_best_pix_fmt (outside this file): the first requested format the  *)
(* encoder accepts, or AV_PIX_FMT_NONE, on which configure_with fails.    *)
BestPixFmt(sub) ==
    LET ok == SelectSeq(RequestedPixFmts(sub), LAMBDA f : f \in PixFmts)
    IN  IF ok = <<>> THEN "none" ELSE Head(ok)

(* Otherwise cleanup frees the codec context, in_frame and decoded, and   *)
(* configure_with builds new ones until it returns at a failed check:    *)
(* fail, or get_best_pix_fmt's when no format fits.  It selects the pixel *)
(* format before allocating the context, and stores saved_desc only at    *)
(* its end; when it fails the call returns an empty frame and saved_desc  *)
(* keeps the description check_messages left.                             *)
Reconfigure(s, h, fail) ==
    LET sub  == CheckedSubsampling(s)
        best == BestPixFmt(sub)
        stop == IF StageIdx["pixfmt"] < StageIdx[fail] /\ best = "none"
                THEN "pixfmt" ELSE fail
    IN  /\ pc[s] = "idle" /\ calls[s] < MaxCalls
        /\ h /= CheckMessages(s)
        /\ sub \in {0} \cup KnownSubsamplings \/ fail = "codec"
        /\ msg' = [msg EXCEPT ![s] = <<>>]
        /\ parse_ret' = [parse_ret EXCEPT ![s] = ParseRets(s)]
        /\ subsampling' = [subsampling EXCEPT ![s] = sub]
        /\ tile_h' = [tile_h EXCEPT ![s] = h]
        /\ calls' = [calls EXCEPT ![s] = @ + 1]
        /\ ctx' = [ctx EXCEPT ![s] = Configured(h, stop)]
        /\ pixfmt' = [pixfmt EXCEPT ![s] = IF StageIdx["pixfmt"] < StageIdx[stop]
                                            THEN best ELSE @]
        /\ saved' = [saved EXCEPT ![s] = IF stop = "none" THEN h ELSE CheckMessages(s)]
        /\ pc' = [pc EXCEPT ![s] = IF stop = "none" THEN "load" ELSE "idle"]
        /\ UNCHANGED <<frame_seq, seq_read, pts, last_pts, task, slices>>

(* The same call when requested_subsampling is none of 0, 420, 422, 444:  *)
(* past the codec lookup the switch of configure_with reaches abort() and *)
(* the whole process, every instance with it, is gone.                    *)
ReconfigureAbort(s, h) ==
    /\ pc[s] = "idle" /\ calls[s] < MaxCalls
    /\ h /= CheckMessages(s)
    /\ CheckedSubsampling(s) \notin {0} \cup KnownSubsamplings
    /\ pc' = [t \in Instances |-> "aborted"]
    /\ msg' = [msg EXCEPT ![s] = <<>>]
    /\ parse_ret' = [parse_ret EXCEPT ![s] = ParseRets(s)]
    /\ subsampling' = [subsampling EXCEPT ![s] = CheckedSubsampling(s)]
    /\ ctx' = [ctx EXCEPT ![s] = Freed]
    /\ UNCHANGED <<frame_seq, saved, pixfmt, tile_h, seq_read, pts, last_pts, task,
                   slices, calls>>

(* libavcodec_compress_done, between calls: cleanup, and the instance is  *)
(* gone.                                                                   *)
CompressDone(s) ==
    /\ pc[s] = "idle"
    /\ pc' = [pc EXCEPT ![s] = "done"]
    /\ ctx' = [ctx EXCEPT ![s] = Freed]
    /\ UNCHANGED <<frame_seq, msg, parse_ret, saved, subsampling, pixfmt, tile_h, seq_read, pts,
                   last_pts, task, slices, calls>>

(* s->in_frame->pts = frame_seq++: the load ...                            *)
LoadSeq(s) ==
    /\ pc[s] = "load"
    /\ seq_read' = [seq_read EXCEPT ![s] = frame_seq]
    /\ pc' = [pc EXCEPT ![s] = "store"]
    /\ UNCHANGED <<frame_seq, msg, parse_ret, saved, ctx, subsampling, pixfmt, tile_h, pts, last_pts,
                   task, slices, calls>>

(* Mutant of StoreSeq: the task loop starts all tasks but the last. *)
StoreSeqSpawnShort(s) ==
    /\ pc[s] = "store"
    /\ frame_seq' = seq_read[s] + 1
    /\ pts' = [pts EXCEPT ![s] = seq_read[s]]
    /\ slices' = [slices EXCEPT ![s] =
                    [i \in Tasks |-> SliceOf(tile_h[s], ctx[s].h, pixfmt[s], i)]]
    /\ task' = [task EXCEPT ![s] = [i \in Tasks |-> IF i < CpuCount THEN "running" ELSE "idle"]]
    /\ pc' = [pc EXCEPT ![s] = "wait"]
    /\ UNCHANGED <<msg, parse_ret, saved, ctx, subsampling, pixfmt, tile_h, seq_read, last_pts, calls>>

(* ... and the store; the conversion into UYVY (s->decoder, line by line, *)
(* or the tile itself for memcpy) and the start of the conversion tasks.  *)
StoreSeq(s) ==
    /\ pc[s] = "store"
    /\ frame_seq' = seq_read[s] + 1
    /\ pts' = [pts EXCEPT ![s] = seq_read[s]]
    /\ slices' = [slices EXCEPT ![s] =
                    [i \in Tasks |-> SliceOf(tile_h[s], ctx[s].h, pixfmt[s], i)]]
    /\ task' = [task EXCEPT ![s] = [i \in Tasks |-> "running"]]
    /\ pc' = [pc EXCEPT ![s] = "wait"]
    /\ UNCHANGED <<msg, parse_ret, saved, ctx, subsampling, pixfmt, tile_h, seq_read, last_pts, calls>>

(* my_task on a worker thread: the pixel-format callback over its slice. *)
RunTask(s, i) ==
    /\ task[s][i] = "running"
    /\ task' = [task EXCEPT ![s][i] = "done"]
    /\ UNCHANGED <<frame_seq, pc, msg, parse_ret, saved, ctx, subsampling, pixfmt, tile_h, seq_read,
                   pts, last_pts, slices, calls>>

(* wait_task on every handle, in order. *)
WaitTasks(s) ==
    /\ pc[s] = "wait"
    /\ \A i \in Tasks : task[s][i] = "done"
    /\ pc' = [pc EXCEPT ![s] = "encode"]
    /\ UNCHANGED <<frame_seq, msg, parse_ret, saved, ctx, subsampling, pixfmt, tile_h, seq_read, pts,
                   last_pts, task, slices, calls>>

(* avcodec_encode_video2 consumes s->in_frame with its pts; whether it    *)
(* fails, holds the frame back or returns a packet, the call returns.     *)
Encode(s) ==
    /\ pc[s] = "encode"
    /\ last_pts' = [last_pts EXCEPT ![s] = pts[s]]
    /\ pc' = [pc EXCEPT ![s] = "idle"]
    /\ UNCHANGED <<frame_seq, msg, parse_ret, saved, ctx, subsampling, pixfmt, tile_h, seq_read, pts,
                   task, slices, calls>>

Next ==
    \E s \in Instances :
        \/ \E c \in Configs : ChangeCompress(s, c)
        \/ \E h \in Heights : CompressTile(s, h)
        \/ \E h \in Heights, fail \in ConfigFailures : Reconfigure(s, h, fail)
        \/ \E h \in Heights : ReconfigureAbort(s, h)
        \/ CompressDone(s)
        \/ LoadSeq(s) \/ StoreSeq(s) \/ WaitTasks(s) \/ Encode(s)
        \/ \E i \in Tasks : RunTask(s, i)

Spec == Init /\ [][Next]_vars

(* Each instance's thread runs its call to the end, and the workers of   *)
(* task_run_async run every task they are given.                         *)
FairSpec ==
    /\ Spec
    /\ \A s \in Instances :
          /\ WF_vars(LoadSeq(s) \/ StoreSeq(s) \/ WaitTasks(s) \/ Encode(s))
          /\ \A i \in Tasks : WF_vars(RunTask(s, i))

-----------------------------------------------------------------------------
(* Properties                                                              *)

(* Every instance passes its encoder strictly increasing pts, as           *)
(* libavcodec requires of the frames of one codec context.                 *)
PtsIncreasing == \A s \in Instances : pc[s] = "encode" => pts[s] > last_pts[s]

(* The tasks' input slices tile the tile's rows in order, each slice is     *)
(* written to the same rows of the picture configure_with laid out, and no *)
(* converter touches a row outside that picture.                          *)
ConversionFillsPicture ==
    \A s \in Instances : pc[s] = "encode" =>
        LET sl == slices[s] IN
        /\ sl[1].in_start = 0
        /\ \A i \in Tasks \ {CpuCount} : sl[i + 1].in_start = sl[i].in_start + sl[i].rows
        /\ sl[CpuCount].in_start + sl[CpuCount].rows = tile_h[s]
        /\ \A i \in Tasks : sl[i].out_start = sl[i].in_start
        /\ \A i \in Tasks : sl[i].out_start + sl[i].touched <= ctx[s].h

(* A call that goes past the saved_desc check (to frame_seq, the         *)
(* conversion and the encoder) finds a codec context opened, an in_frame   *)
(* picture allocated and a decoded buffer, all set up for the tile's      *)
(* description: saved_desc never names a description the context is not   *)
(* configured for, whatever configure_with failed on before.              *)
ContextConfigured ==
    \A s \in Instances : pc[s] \in {"load", "store", "wait", "encode"} =>
        ctx[s] = [codec |-> "open", frame |-> "image", decoded |-> TRUE,
                  h |-> tile_h[s]]

(* A change of compression that parse_fmt rejects ("Unable to change     *)
(* compression!") leaves the compressor running: the abort() in the       *)
(* subsampling switch of configure_with is never reached, since           *)
(* parse_fmt refuses every value but 420, 422 and 444.                    *)
NoAbort == \A s \in Instances : pc[s] /= "aborted"

(* A change of subsampling takes effect: a call that compresses uses a   *)
(* pixel format of the subsampling requested by then, since the memset of *)
(* saved_desc in check_messages makes the call reconfigure.               *)
SubsamplingHonoured ==
    \A s \in Instances :
        pc[s] \in {"load", "store", "wait", "encode"} /\ subsampling[s] \in KnownSubsamplings
            => pixfmt[s] \in Range(RequestedPixFmts(subsampling[s]))

(* Every call returns.                                                    *)
CallsReturn ==
    \A s \in Instances : pc[s] \in {"load", "store", "wait", "encode"} ~> pc[s] = "idle"
=============================================================================
