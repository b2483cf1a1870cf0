---------------------------- MODULE FrameChannel ----------------------------
(***************************************************************************)
(* What the frame handoff promises its users, without banks, registers or  *)
(* snapshots: a channel that holds at most one frame not yet shown, and a  *)
(* display that shows every accepted frame once, whole and in order.       *)
(***************************************************************************)
CONSTANTS Frames, NoFrame

VARIABLES
    pending, \* the accepted frame that waits to be shown, or NoFrame
    showing, \* the frame on its way to the lamps, or NoFrame
    shown    \* what the lamps hold: the values of the last frame completed

vars == <<pending, showing, shown>>

Init == pending = NoFrame /\ showing = NoFrame /\ shown = {}

Accept ==
    /\ pending = NoFrame
    /\ \E f \in Frames : pending' = f

Start ==
    /\ showing = NoFrame /\ pending # NoFrame
    /\ showing' = pending
    /\ pending' = NoFrame
    /\ UNCHANGED shown

Finish ==
    /\ showing # NoFrame
    /\ shown' = {showing}
    /\ showing' = NoFrame

(* The writer and the display work at the same time, so a frame may be     *)
(* accepted in the step in which the one before it is completed.           *)
Next ==
    \/ Accept /\ UNCHANGED <<showing, shown>>
    \/ Start
    \/ Finish /\ UNCHANGED pending
    \/ Finish /\ Accept

Spec == Init /\ [][Next]_vars
=============================================================================
