---------------------------- MODULE FrameHandoff ----------------------------
(***************************************************************************)
(* What the camera task and the detection pipeline owe each other, with    *)
(* no semaphores, tasks or interrupts: one slot that is filled by the      *)
(* producer, taken by the consumer and given back.  The picture in the     *)
(* slot changes only while the producer is filling it, so a consumer that  *)
(* looks at the slot any number of times between Take and Release sees     *)
(* one whole picture.                                                      *)
(***************************************************************************)

CONSTANTS Scene,    \* pictures the camera can deliver
          NoScene   \* a buffer that does not hold one whole picture

VARIABLES slot,     \* who owns the slot
          content   \* what is in it

vars == <<slot, content>>

SlotStates == {"free", "filling", "full", "busy"}

TypeOK == slot \in SlotStates /\ content \in Scene \cup {NoScene}

Init == slot = "free" /\ content = NoScene

BeginFill == /\ slot = "free"
             /\ slot' = "filling"
             /\ content' = NoScene

EndFill == /\ slot = "filling"
           /\ slot' = "full"
           /\ content' \in Scene

Take == /\ slot = "full"
        /\ slot' = "busy"
        /\ UNCHANGED content

Release == /\ slot = "busy"
           /\ slot' = "free"
           /\ UNCHANGED content

Next == BeginFill \/ EndFill \/ Take \/ Release

SafeSpec == Init /\ [][Next]_vars

\* A picture that was handed over is taken, and the slot always comes back.
Spec == SafeSpec /\ WF_vars(EndFill) /\ WF_vars(Take) /\ WF_vars(Release)

=============================================================================
