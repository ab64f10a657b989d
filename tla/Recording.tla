----------------------------- MODULE Recording -----------------------------
(***************************************************************************)
(* What the recorder promises of the files it writes, without a feed, a    *)
(* ring or a writer: frames go into the open file in the order they were   *)
(* published, none twice, and a frame that was left out is followed by a   *)
(* keyframe, never by a difference frame, unless the frame store was found *)
(* empty in between.  A further file begins on a keyframe.  The first      *)
(* frame of the first file is not promised to be one, and nothing is       *)
(* promised of files that several writers share.                           *)
(***************************************************************************)
EXTENDS Integers, Sequences

VARIABLES
    on,     \* a recording is being written
    slips,  \* the numbers at which the store was found empty
    shared, \* more than one writer has the file
    tape    \* the frames in its current file, each [n |-> number, key |-> is a keyframe]

(* The frame may stand after what the file holds.                          *)
Follows(f) ==
    tape # <<>> => LET last == tape[Len(tape)]
                   IN  /\ f.n > last.n
                       /\ \/ f.key \/ f.n = last.n + 1
                          \/ slips \cap (last.n .. f.n - 1) # {}

Begin == ~on /\ ~shared /\ on' = TRUE /\ tape' = <<>> /\ UNCHANGED <<slips, shared>>

(* The frame the step leaves at the end of the file.                       *)
Added == tape'[Len(tape')]

Put ==
    /\ on /\ tape' # <<>> /\ tape' = Append(tape, Added) /\ Follows(Added)
    /\ UNCHANGED <<on, slips, shared>>

Cut ==
    /\ on /\ Len(tape') = 1 /\ Added.key /\ Follows(Added)
    /\ UNCHANGED <<on, slips, shared>>

End == on /\ on' = FALSE /\ tape' = <<>> /\ UNCHANGED <<slips, shared>>

(* The two accidents that are let through: the store found empty, ...      *)
Slip == slips \subseteq slips' /\ UNCHANGED <<on, shared, tape>>

(* ... and a second writer: the promise ends for the file it breaks into,  *)
(* and none begins before the last of the writers has ended.               *)
Share   == on /\ on' = FALSE /\ tape' = <<>> /\ shared' = TRUE /\ UNCHANGED slips
Unshare == shared /\ shared' = FALSE /\ UNCHANGED <<on, slips, tape>>

Init == on = FALSE /\ tape = <<>> /\ slips = {} /\ shared = FALSE
Next == Begin \/ Put \/ Cut \/ End \/ Slip \/ Share \/ Unshare
Spec == Init /\ [][Next]_<<on, slips, shared, tape>>
=============================================================================
