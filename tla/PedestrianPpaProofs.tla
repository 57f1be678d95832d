------------------------ MODULE PedestrianPpaProofs ------------------------
(***************************************************************************)
(* For every set of pictures: PedestrianPpa is well typed, and a call of   *)
(* detect() that begins clean and does not time out sees its own frame and *)
(* leaves nothing behind.                                                  *)
(*                                                                         *)
(* Neither property is inductive: a token that is around in the middle of  *)
(* a call says nothing about its end.  CleanInv follows the transaction    *)
(* through the call: one writer at most, which works on this call's frame, *)
(* and a token only when that writer is the PPA and has finished.          *)
(***************************************************************************)
EXTENDS PedestrianPpa, TLAPS

\* What one clean call has started and nobody else disturbs.
CleanStep ==
  /\ detect_pc \in {"out", "start", "fall_back"} => Quiet
  /\ detect_pc = "wait" =>
       \/ /\ writing = {"ppa"}
          /\ ppa_sem = 0
          /\ output["ppa"] = buffer
       \/ /\ writing = {}
          /\ inference = [layout |-> "interleaved", scene |-> buffer]
  /\ detect_pc = "convert" =>
       /\ writing = {"cpu"}
       /\ ppa_sem = 0
       /\ output["cpu"] = buffer
  /\ detect_pc \in {"infer", "publish"} =>
       /\ Quiet
       /\ inference.scene = buffer
       /\ ReadRight
  /\ detect_pc = "publish" => seen = buffer

\* Until the picture is ready using_uyvy is clear.
FlagClear == detect_pc \in {"start", "wait", "fall_back", "convert"} => ~using_uyvy

\* Between two clean calls, and in a clean one.
CleanInv == FlagClear /\ (clean => CleanStep)

-----------------------------------------------------------------------------
\* What the two halves of a conversion do to the types.
LEMMA BeginType ==
  ASSUME TypeOK, NEW w \in Writer, BeginWriting(w)
  PROVE  writing' \in SUBSET Writer /\ output' \in [Writer -> Contents]
         /\ inference' \in Picture
<1>1. inference' \in Picture
  BY DEF BeginWriting, TypeOK, Picture, Contents
<1>2. output' \in [Writer -> Contents]
  BY DEF BeginWriting, TypeOK, Contents
<1> QED
  BY <1>1, <1>2 DEF BeginWriting, TypeOK

LEMMA EndType ==
  ASSUME TypeOK, NEW w \in Writer, EndWriting(w)
  PROVE  writing' \in SUBSET Writer /\ output' \in [Writer -> Contents]
         /\ inference' \in Picture
<1>1. inference' \in Picture
  BY DEF EndWriting, TypeOK, Picture, Contents, Layout, LayoutOf, Writer
<1> QED
  BY <1>1 DEF EndWriting, TypeOK

\* A conversion that begins alone works on the frame of the call.
LEMMA BeginAlone ==
  ASSUME TypeOK, NEW w \in Writer, BeginWriting(w), writing = {}
  PROVE  writing' = {w} /\ output'[w] = buffer
BY DEF BeginWriting, TypeOK

\* One that is still alone when it ends leaves that frame, whole, in its layout.
LEMMA EndAlone ==
  ASSUME TypeOK, NEW w \in Writer, EndWriting(w), writing = {w}
  PROVE  writing' = {} /\ inference' = [layout |-> LayoutOf(w), scene |-> output[w]]
BY DEF EndWriting, TypeOK

\* Every step preserves the types.
LEMMA TypeStep == TypeOK /\ [Next]_vars => TypeOK'
<1> SUFFICES ASSUME TypeOK, [Next]_vars PROVE TypeOK'
  OBVIOUS
<1> USE DEF setupVars, pictureVars, resultVars
<1>1. CASE CameraCopies
  BY <1>1 DEF CameraCopies, TypeOK, DetectPc, Contents, Writer
<1>2. CASE Enter
  BY <1>2 DEF Enter, Quiet, TypeOK, DetectPc
<1>3. CASE PpaDone
  <2>1. writing' \in SUBSET Writer /\ output' \in [Writer -> Contents]
        /\ inference' \in Picture
    BY <1>3, EndType DEF PpaDone, Writer
  <2> QED
    BY <1>3, <2>1 DEF PpaDone, TypeOK
<1>4. CASE StartPpa
  <2>1. writing' \in SUBSET Writer /\ output' \in [Writer -> Contents]
        /\ inference' \in Picture
    BY <1>4, BeginType DEF StartPpa, Writer, TypeOK
  <2> QED
    BY <1>4, <2>1 DEF StartPpa, TypeOK, DetectPc
<1>5. CASE Take
  BY <1>5 DEF Take, TypeOK, DetectPc
<1>6. CASE WaitTimeout
  BY <1>6 DEF WaitTimeout, TypeOK, DetectPc
<1>7. CASE ConvertBegin
  <2>1. writing' \in SUBSET Writer /\ output' \in [Writer -> Contents]
        /\ inference' \in Picture
    BY <1>7, BeginType DEF ConvertBegin, Writer
  <2> QED
    BY <1>7, <2>1 DEF ConvertBegin, TypeOK, DetectPc
<1>8. CASE ConvertEnd
  <2>1. writing' \in SUBSET Writer /\ output' \in [Writer -> Contents]
        /\ inference' \in Picture
    BY <1>8, EndType DEF ConvertEnd, Writer
  <2> QED
    BY <1>8, <2>1 DEF ConvertEnd, TypeOK, DetectPc
<1>9. CASE Infer
  <2>1. seen' \in Contents
    BY <1>9 DEF Infer, TypeOK, Picture, Contents
  <2> QED
    BY <1>9, <2>1 DEF Infer, TypeOK, DetectPc
<1>10. CASE Publish
  BY <1>10 DEF Publish, TypeOK, DetectPc
<1>11. CASE UNCHANGED vars
  BY <1>11 DEF vars, TypeOK
<1> QED
  BY <1>1, <1>2, <1>3, <1>4, <1>5, <1>6, <1>7, <1>8, <1>9, <1>10, <1>11
  DEF Next, Detect

\* Every step keeps a clean call clean, or says that it no longer is.
LEMMA CleanPreserved == TypeOK /\ CleanInv /\ [Next]_vars => CleanInv'
<1> SUFFICES ASSUME TypeOK, CleanInv, [Next]_vars PROVE CleanInv'
  OBVIOUS
<1> USE DEF setupVars, pictureVars, resultVars, CleanInv, FlagClear
<1>1. CASE CameraCopies
  BY <1>1 DEF CameraCopies, CleanStep, Quiet
<1>2. CASE Enter
  BY <1>2 DEF Enter, CleanStep, Quiet
<1>3. CASE PpaDone
  <2>1. FlagClear'
    BY <1>3 DEF PpaDone
  <2>2. ASSUME clean' PROVE CleanStep'
    <3>1. clean /\ CleanStep /\ "ppa" \in writing /\ EndWriting("ppa")
          /\ UNCHANGED <<detect_pc, buffer>>
      BY <1>3, <2>2 DEF PpaDone
    <3>2. detect_pc = "wait" /\ writing = {"ppa"} /\ output["ppa"] = buffer
      BY <3>1 DEF CleanStep, Quiet, TypeOK, DetectPc
    <3>3. writing' = {} /\ inference' = [layout |-> "interleaved", scene |-> buffer]
      BY <3>1, <3>2, EndAlone DEF LayoutOf, Writer
    <3> QED
      BY <3>1, <3>2, <3>3 DEF CleanStep
  <2> QED
    BY <2>1, <2>2
<1>4. CASE StartPpa
  <2>1. FlagClear'
    BY <1>4 DEF StartPpa
  <2>2. ASSUME clean' PROVE CleanStep'
    <3>1. clean /\ Quiet /\ UNCHANGED <<buffer, ppa_sem>>
      BY <1>4, <2>2 DEF StartPpa, CleanStep
    <3>2. CASE BeginWriting("ppa") /\ detect_pc' = "wait"
      <4>1. writing' = {"ppa"} /\ output'["ppa"] = buffer
        BY <3>1, <3>2, BeginAlone DEF Quiet, Writer
      <4> QED
        BY <3>1, <3>2, <4>1 DEF CleanStep, Quiet
    <3>3. CASE detect_pc' = "fall_back" /\ UNCHANGED pictureVars
      BY <3>1, <3>3 DEF CleanStep, Quiet
    <3> QED
      BY <1>4, <3>2, <3>3 DEF StartPpa
  <2> QED
    BY <2>1, <2>2
<1>5. CASE Take
  <2>1. FlagClear'
    BY <1>5 DEF Take
  <2>2. ASSUME clean' PROVE CleanStep'
    <3>1. clean /\ writing = {}
          /\ inference = [layout |-> "interleaved", scene |-> buffer]
      BY <1>5, <2>2 DEF Take, CleanStep
    <3> QED
      BY <1>5, <3>1 DEF Take, CleanStep, Quiet, ReadRight
  <2> QED
    BY <2>1, <2>2
<1>6. CASE WaitTimeout
  BY <1>6 DEF WaitTimeout
<1>7. CASE ConvertBegin
  <2>1. FlagClear'
    BY <1>7 DEF ConvertBegin
  <2>2. ASSUME clean' PROVE CleanStep'
    <3>1. clean /\ Quiet /\ UNCHANGED <<buffer, ppa_sem>>
      BY <1>7, <2>2 DEF ConvertBegin, CleanStep
    <3>2. writing' = {"cpu"} /\ output'["cpu"] = buffer
      BY <1>7, <3>1, BeginAlone DEF ConvertBegin, Quiet, Writer
    <3> QED
      BY <1>7, <3>1, <3>2 DEF ConvertBegin, CleanStep, Quiet
  <2> QED
    BY <2>1, <2>2
<1>8. CASE ConvertEnd
  <2>1. FlagClear'
    BY <1>8 DEF ConvertEnd
  <2>2. ASSUME clean' PROVE CleanStep'
    <3>1. writing = {"cpu"} /\ ppa_sem = 0 /\ output["cpu"] = buffer
          /\ UNCHANGED <<buffer, ppa_sem, using_uyvy>> /\ ~using_uyvy
      BY <1>8, <2>2 DEF ConvertEnd, CleanStep
    <3>2. writing' = {} /\ inference' = [layout |-> "planar", scene |-> buffer]
      BY <1>8, <3>1, EndAlone DEF ConvertEnd, LayoutOf, Writer
    <3> QED
      BY <1>8, <3>1, <3>2 DEF ConvertEnd, CleanStep, Quiet, ReadRight
  <2> QED
    BY <2>1, <2>2
<1>9. CASE Infer
  BY <1>9 DEF Infer, CleanStep, Quiet, ReadRight
<1>10. CASE Publish
  BY <1>10 DEF Publish, CleanStep, Quiet
<1>11. CASE UNCHANGED vars
  BY <1>11 DEF vars, CleanStep, Quiet, ReadRight
<1> QED
  BY <1>1, <1>2, <1>3, <1>4, <1>5, <1>6, <1>7, <1>8, <1>9, <1>10, <1>11
  DEF Next, Detect

LEMMA InvInit == Init => TypeOK /\ CleanInv
<1> SUFFICES ASSUME Init PROVE TypeOK /\ CleanInv
  OBVIOUS
<1>1. TypeOK
  BY DEF Init, TypeOK, NoPicture, Picture, Layout, Contents, DetectPc, Writer
<1>2. CleanInv
  BY DEF Init, CleanInv, CleanStep, FlagClear, Quiet
<1> QED
  BY <1>1, <1>2

-----------------------------------------------------------------------------
LEMMA InvAlways == SafeSpec => [](TypeOK /\ CleanInv)
<1>1. Init => TypeOK /\ CleanInv
  BY InvInit
<1>2. (TypeOK /\ CleanInv) /\ [Next]_vars => (TypeOK /\ CleanInv)'
  BY TypeStep, CleanPreserved
<1> QED
  BY <1>1, <1>2, PTL DEF SafeSpec

\* Type correctness of detect(), whatever the PPA does.
THEOREM DetectTypeCorrect == SafeSpec => []TypeOK
BY InvAlways, PTL

\* A call that begins clean and does not time out sees its own frame, read right.
THEOREM FrameAlwaysSeen == SafeSpec => []SeesItsFrame
<1>1. TypeOK /\ CleanInv => SeesItsFrame
  BY DEF CleanInv, CleanStep, SeesItsFrame
<1> QED
  BY <1>1, InvAlways, PTL

\* Such a call leaves neither a transaction nor a token to the next one.
THEOREM QuietAlwaysLeft == SafeSpec => []LeavesQuiet
<1>1. TypeOK /\ CleanInv => LeavesQuiet
  BY DEF CleanInv, CleanStep, LeavesQuiet
<1> QED
  BY <1>1, InvAlways, PTL

-----------------------------------------------------------------------------
\* While detect() waits there is something to wait for, if the PPA is able to interrupt.
WaitPending == detect_pc = "wait" /\ callback => ppa_sem = 1 \/ "ppa" \in writing

\* A token that an earlier call left behind ends a wait early, and two tokens become
\* one; but with its callback registered no wait is left without a token and without a
\* transaction: the 100 ms run out only while the PPA is still writing.
THEOREM WaitAlwaysPending == SafeSpec => []WaitPending
<1>1. Init => WaitPending
  BY DEF Init, WaitPending
<1>2. TypeOK /\ WaitPending /\ [Next]_vars => WaitPending'
  <2> SUFFICES ASSUME TypeOK, WaitPending, [Next]_vars PROVE WaitPending'
    OBVIOUS
  <2> USE DEF WaitPending, setupVars, pictureVars, BeginWriting, EndWriting
  <2>1. CASE CameraCopies \/ Enter
    BY <2>1 DEF CameraCopies, Enter
  <2>2. CASE StartPpa
    BY <2>2 DEF StartPpa
  <2>3. CASE PpaDone
    BY <2>3 DEF PpaDone
  <2>4. CASE Take \/ WaitTimeout \/ ConvertBegin \/ ConvertEnd \/ Infer \/ Publish
    BY <2>4 DEF Take, WaitTimeout, ConvertBegin, ConvertEnd, Infer, Publish
  <2>5. CASE UNCHANGED vars
    BY <2>5 DEF vars
  <2> QED
    BY <2>1, <2>2, <2>3, <2>4, <2>5 DEF Next, Detect
<1> QED
  BY <1>1, <1>2, DetectTypeCorrect, PTL DEF SafeSpec

=============================================================================
