------------------------------- MODULE MCMode -------------------------------
(* The modes a source switches between in the runs of CaptureMode: one     *)
(* that fits, the same size at a rate the lanes cannot carry, and one      *)
(* that is larger than the buffers.  A request torn between the first and  *)
(* the last names a size that fits and that no source sends.               *)
EXTENDS CaptureMode

Full == [h |-> 2, v |-> 2, fast |-> FALSE]
Fast == [h |-> 2, v |-> 2, fast |-> TRUE]
Over == [h |-> 1, v |-> 3, fast |-> FALSE]

MCSignals == {Full, Fast, Over}
=============================================================================
