--------------------------- MODULE PlayoutAbstract ---------------------------
(***************************************************************************)
(* What the playout buffer promises about its frames, without packets,    *)
(* time or statistics (spec sections 3, 4.2 and 4.4): frames are held in  *)
(* increasing timestamp order; a frame is created at the tail only; its   *)
(* state only moves forward, open -> complete -> decoded; a decode pass    *)
(* hands at most one complete frame to the decoder, and may force earlier *)
(* frames complete on the way; an eviction removes a leading run of        *)
(* frames none of which is open; destroying the buffer ends everything.   *)
(*                                                                         *)
(* Two liberties the code takes are part of this promise: creating a tail *)
(* frame may complete the previous tail (pbuf.cpp:414), and a complete     *)
(* frame may be evicted without being decoded (pbuf.cpp:475); the runs     *)
(* eviction_safety and undecoded_eviction show them against the stronger  *)
(* wording of spec section 8.                                              *)
(***************************************************************************)
EXTENDS Integers, Sequences, SequencesExt

CONSTANT Ts                 \* media timestamps, ordered as integers

VARIABLES
    queue,      \* the frames held, head first: [ts, state]
    alive       \* the buffer has not been destroyed

States == {"open", "complete", "decoded"}

Init == queue = <<>> /\ alive = TRUE

(* Frame i with state s. *)
WithState(i, s) == [queue[i] EXCEPT !.state = s]

(* A new tail frame, open or already complete, with a larger timestamp    *)
(* than every frame held; the old tail may become complete in the same    *)
(* step.                                                                   *)
Create(t, s, completeTail) ==
    /\ alive /\ s \in {"open", "complete"}
    /\ queue = <<>> \/ Last(queue).ts < t
    /\ LET q == IF completeTail /\ queue /= <<>> /\ Last(queue).state = "open"
                  THEN [queue EXCEPT ![Len(queue)] = WithState(Len(queue), "complete")]
                  ELSE queue
       IN  queue' = Append(q, [ts |-> t, state |-> s])
    /\ UNCHANGED alive

(* One open frame becomes complete (its marker arrives). *)
Complete(i) ==
    /\ alive /\ queue[i].state = "open"
    /\ queue' = [queue EXCEPT ![i] = WithState(i, "complete")]
    /\ UNCHANGED alive

(* A decode pass: frame n goes from complete to decoded (n = Len + 1:     *)
(* none does), and some open frames before it are forced complete.        *)
Decode(n) ==
    /\ alive
    /\ n <= Len(queue) => queue[n].state = "complete"
    /\ \E forced \in SUBSET {i \in 1..n - 1 : queue[i].state = "open"} :
         queue' = [i \in 1..Len(queue) |->
                     CASE i = n        -> WithState(i, "decoded")
                       [] i \in forced -> WithState(i, "complete")
                       [] OTHER        -> queue[i]]
    /\ UNCHANGED alive

(* The first k frames leave the buffer; none of them is open. *)
Evict(k) ==
    /\ alive
    /\ \A i \in 1..k : queue[i].state /= "open"
    /\ queue' = SubSeq(queue, k + 1, Len(queue))
    /\ UNCHANGED alive

Destroy ==
    /\ alive
    /\ queue' = <<>> /\ alive' = FALSE

Next ==
    \/ \E t \in Ts, s \in States, c \in BOOLEAN : Create(t, s, c)
    \/ \E i \in 1..Len(queue) : Complete(i)
    \/ \E n \in 1..Len(queue) + 1 : Decode(n)
    \/ \E k \in 1..Len(queue) : Evict(k)
    \/ Destroy

Spec == Init /\ [][Next]_<<queue, alive>>
=============================================================================
