-------------------------- MODULE RtpStreamProofs --------------------------
(***************************************************************************)
(* For every modulus, payload limit and set of frame sizes: the state of   *)
(* RtpStream is well typed, the packet index is the packet's number, every *)
(* packet fits its buffers, the server derives the same index, and what it *)
(* completes is one whole frame.                                           *)
(*                                                                         *)
(* IndexIsCount is not inductive: it says nothing of seq_num, the number   *)
(* the next packet will get.  SequenceInv adds that it follows last_seq.   *)
(* FragmentsFit needs what the FU-A loop knows about the bytes that are    *)
(* left: FragmentInv.  WireInv relates what the server has seen to what    *)
(* was lost, AssemblyInv the fragments it holds to the rest of the frame.  *)
(***************************************************************************)
EXTENDS RtpStream, FiniteSetTheorems, TLAPS

\* The next number follows the last one, and index and number of packets agree.
SequenceInv ==
  /\ count = 0 => roc = 0 /\ last_seq = 0 /\ seq_num = 0
  /\ count > 0 => /\ roc * SeqModulus + last_seq = count - 1
                  /\ seq_num = IF last_seq = SeqModulus - 1 THEN 0 ELSE last_seq + 1

\* While packets of a frame remain to be sent, their bytes are what the frame has left,
\* and the first fragment never holds them all.
FragmentInv ==
  /\ pc \in {"drain", "send"} => size > 0
  /\ pc = "send" => /\ remaining > 0
                    /\ ~fragmented => remaining <= MaxPayload
                    /\ fragmented /\ first => remaining >= MaxPayload
  /\ wire # NoPacket => /\ wire.bytes > 0
                        /\ wire.bytes <= MaxPayload
                        /\ ~wire.single => wire.bytes > 2
                        /\ ~(wire.start /\ wire.end)

Inv == TypeOK /\ SequenceInv /\ FragmentInv

\* The halves and quarters srtp_protect compares with.
LEMMA Thresholds ==
  /\ SeqModulus \div 2 \in Nat
  /\ SeqModulus \div 4 \in Nat
  /\ 0 < SeqModulus \div 4
  /\ SeqModulus \div 4 < SeqModulus \div 2
  /\ SeqModulus \div 2 < SeqModulus - 1
  /\ SeqModulus \in Nat /\ SeqModulus > 4
BY SeqAssumption

\* What a packet takes from the frame.
LEMMA ChunkBounds ==
  ASSUME TypeOK, FragmentInv, pc = "send"
  PROVE  /\ Chunk \in Nat /\ Chunk > 0 /\ Chunk <= remaining
         /\ ~fragmented => Chunk <= MaxPayload
         /\ fragmented => Chunk <= MaxPayload - 2
         /\ fragmented /\ first => Chunk < remaining
BY PayloadAssumption DEF TypeOK, FragmentInv, Chunk

\* The packet that is sent has the form the server expects.
LEMMA PacketType ==
  ASSUME TypeOK, FragmentInv, pc = "send"
  PROVE  /\ ThePacket \in Packet
         /\ ThePacket.bytes > 0 /\ ThePacket.bytes <= MaxPayload
         /\ ~ThePacket.single => ThePacket.bytes > 2
         /\ ~(ThePacket.start /\ ThePacket.end)
<1>1. Chunk \in Nat /\ Chunk > 0 /\ (~fragmented => Chunk <= MaxPayload)
      /\ (fragmented => Chunk <= MaxPayload - 2)
      /\ (fragmented /\ first => Chunk < remaining)
  BY ChunkBounds
<1>2. PacketBytes \in Nat /\ PacketBytes > 0 /\ PacketBytes <= MaxPayload
      /\ (fragmented => PacketBytes > 2)
  BY <1>1, PayloadAssumption DEF PacketBytes
<1>3. NextRoc \in Nat
  BY DEF NextRoc, TypeOK
<1>4. NextRoc * SeqModulus + seq_num \in Nat
  BY <1>3, Thresholds DEF TypeOK
<1>5. (fragmented /\ first) \in BOOLEAN /\ (fragmented /\ IsLast) \in BOOLEAN
      /\ IsLast \in BOOLEAN /\ (~fragmented) \in BOOLEAN
  BY DEF IsLast, TypeOK
<1>6. ThePacket \in Packet
  BY <1>2, <1>4, <1>5 DEF ThePacket, Packet, TypeOK
<1>7. ~(ThePacket.start /\ ThePacket.end)
  <2>1. ThePacket.start = (fragmented /\ first) /\ ThePacket.end = (fragmented /\ IsLast)
    BY DEF ThePacket
  <2>2. fragmented /\ first => ~IsLast
    BY <1>1 DEF IsLast, TypeOK
  <2> QED BY <2>1, <2>2
<1>8. ThePacket.bytes = PacketBytes /\ ThePacket.single = ~fragmented
  BY DEF ThePacket
<1> QED BY <1>2, <1>6, <1>7, <1>8

-----------------------------------------------------------------------------
\* Numbering one packet keeps index and count together, wrap or no wrap.
LEMMA NumberOnePacket ==
  ASSUME TypeOK, SequenceInv,
         roc' = NextRoc, last_seq' = seq_num, seq_num' = NextSeq, count' = count + 1
  PROVE  SequenceInv' /\ roc' \in Nat /\ seq_num' \in 0..(SeqModulus - 1)
<1> DEFINE M == SeqModulus
<1>1. /\ roc \in Nat /\ count \in Nat
      /\ last_seq \in 0..(M - 1) /\ seq_num \in 0..(M - 1)
  BY DEF TypeOK
<1>2. roc' \in Nat /\ seq_num' \in 0..(M - 1)
  BY <1>1, Thresholds DEF NextRoc, NextSeq
<1>3. roc' * M + last_seq' = count' - 1
  <2>1. CASE count = 0
    <3>1. roc' = 0 /\ last_seq' = 0
      BY <2>1, Thresholds DEF SequenceInv, NextRoc
    <3> QED BY <2>1, <3>1, Thresholds
  <2>2. CASE count > 0 /\ last_seq = M - 1
    <3>1. seq_num = 0 /\ roc' = roc + 1
      BY <2>2, Thresholds DEF SequenceInv, NextRoc
    <3> DEFINE p == roc * M
               q == roc' * M
    <3>2. p \in Nat
      BY <1>1, Thresholds
    <3>3. q = p + M
      BY <1>1, <3>1, Thresholds
    <3>4. p + last_seq = count - 1
      BY <2>2 DEF SequenceInv
    <3>5. last_seq' = 0 /\ M \in Nat
      BY <3>1, Thresholds
    <3> SUFFICES q + last_seq' = count' - 1
      OBVIOUS
    <3> HIDE DEF p, q
    <3> QED BY <1>1, <2>2, <3>2, <3>3, <3>4, <3>5
  <2>3. CASE count > 0 /\ last_seq # M - 1
    <3>1. seq_num = last_seq + 1
      BY <2>3 DEF SequenceInv
    <3>2. roc' = roc
      BY <1>1, <3>1, Thresholds DEF NextRoc
    <3>3. roc * M \in Nat
      BY <1>1, Thresholds
    <3>4. roc * M + last_seq = count - 1
      BY <2>3 DEF SequenceInv
    <3> QED BY <1>1, <3>1, <3>2, <3>3, <3>4
  <2> QED BY <1>1, <2>1, <2>2, <2>3
<1>4. seq_num' = IF last_seq' = M - 1 THEN 0 ELSE last_seq' + 1
  BY DEF NextSeq
<1> QED BY <1>1, <1>2, <1>3, <1>4 DEF SequenceInv

\* One packet less to send: the FU-A loop's facts hold again.
LEMMA AdvanceKeeps ==
  ASSUME TypeOK, FragmentInv, pc = "send", Advance,
         UNCHANGED <<size, fragmented>>
  PROVE  /\ remaining' \in Nat /\ first' \in BOOLEAN /\ pc' \in {"idle", "send"}
         /\ pc' \in {"drain", "send"} => size' > 0
         /\ pc' = "send" => /\ remaining' > 0
                            /\ ~fragmented' => remaining' <= MaxPayload
                            /\ ~first'
<1>1. Chunk \in Nat /\ Chunk > 0 /\ Chunk <= remaining
  BY ChunkBounds
<1>2. remaining \in Nat /\ remaining' = remaining - Chunk /\ first' = FALSE
  BY DEF TypeOK, Advance
<1>3. pc' = "send" => Chunk # remaining
  BY DEF Advance, IsLast
<1>4. pc' \in {"idle", "send"}
  BY DEF Advance
<1>5. size > 0 /\ (~fragmented => remaining <= MaxPayload)
  BY DEF FragmentInv
<1>6. remaining' \in Nat /\ (pc' = "send" => remaining' > 0)
  BY <1>1, <1>2, <1>3
<1>7. ~fragmented' => remaining' <= MaxPayload
  BY <1>1, <1>2, <1>5, PayloadAssumption
<1>8. first' \in BOOLEAN /\ ~first' /\ size' > 0
  BY <1>2, <1>5
<1> QED BY <1>4, <1>6, <1>7, <1>8

-----------------------------------------------------------------------------
\* What the server makes of a packet is an assembly again.
LEMMA AssemblyType ==
  ASSUME TypeOK, FragmentInv, wire # NoPacket
  PROVE  Opened(wire) \in Assembly /\ Extended(assembly, wire) \in Assembly
<1>1. /\ wire.frame \in Nat /\ wire.size \in Nat /\ wire.bytes \in Nat
      /\ wire.single \in BOOLEAN
      /\ assembly.frames \in SUBSET Nat /\ assembly.bytes \in Nat
  BY DEF TypeOK, Packet, Assembly
<1>2. Payload(wire) \in Nat
  BY <1>1 DEF Payload, FragmentInv
<1> QED BY <1>1, <1>2 DEF Opened, Extended, Assembly

\* Every step keeps the state well typed and the loop's facts true.
LEMMA LoopStep == TypeOK /\ FragmentInv /\ [Next]_vars => TypeOK' /\ FragmentInv'
<1> SUFFICES ASSUME TypeOK, FragmentInv, [Next]_vars
             PROVE  TypeOK' /\ FragmentInv'
  OBVIOUS
<1> USE DEF frameVars, srtpVars, senderVars, serverVars
<1>1. ASSUME NEW n \in FrameSize, PushFrame(n)
      PROVE  TypeOK' /\ FragmentInv'
  <2>1. n \in Nat /\ n > 0
    BY FrameAssumption
  <2> QED BY <1>1, <2>1 DEF PushFrame, TypeOK, FragmentInv
<1>2. CASE DrainError
  BY <1>2 DEF DrainError, TypeOK, FragmentInv
<1>3. CASE KeepAliveExpired
  BY <1>3 DEF KeepAliveExpired, TypeOK, FragmentInv
<1>4. CASE Split
  <2>1. size \in Nat /\ size > 0 /\ count \in Nat
    BY <1>4 DEF Split, TypeOK, FragmentInv
  <2>2. (size > MaxPayload) \in BOOLEAN
    OBVIOUS
  <2>3. TypeOK'
    BY <1>4, <2>1, <2>2, PayloadAssumption DEF Split, TypeOK
  <2>4. /\ remaining' > 0
        /\ ~fragmented' => remaining' <= MaxPayload
        /\ fragmented' => remaining' >= MaxPayload
    <3>1. CASE size > MaxPayload
      <4>1. fragmented'
        BY <1>4, <3>1, Zenon DEF Split
      <4>2. remaining' = size - 1
        BY <1>4, <3>1 DEF Split
      <4> QED BY <2>1, <3>1, <4>1, <4>2, PayloadAssumption
    <3>2. CASE ~(size > MaxPayload)
      <4>1. ~fragmented'
        BY <1>4, <3>2, Zenon DEF Split
      <4>2. remaining' = size
        BY <1>4, <3>2 DEF Split
      <4> QED BY <2>1, <3>2, <4>1, <4>2, PayloadAssumption
    <3> QED BY <3>1, <3>2
  <2>5. wire' = wire /\ size' = size /\ NoPacket' = NoPacket
    BY <1>4 DEF Split, NoPacket
  <2>6. FragmentInv'
    BY <2>1, <2>4, <2>5 DEF FragmentInv
  <2> QED BY <2>3, <2>6
<1>5. CASE SendProtectFails
  <2>1. /\ remaining' \in Nat /\ first' \in BOOLEAN /\ pc' \in {"idle", "send"}
        /\ pc' \in {"drain", "send"} => size' > 0
        /\ pc' = "send" => /\ remaining' > 0
                           /\ ~fragmented' => remaining' <= MaxPayload
                           /\ ~first'
    BY <1>5, AdvanceKeeps DEF SendProtectFails
  <2>2. NextRoc \in Nat /\ NextSeq \in 0..(SeqModulus - 1)
    BY Thresholds DEF NextRoc, NextSeq, TypeOK
  <2>3. TypeOK'
    BY <1>5, <2>1, <2>2 DEF SendProtectFails, TypeOK
  <2>4. FragmentInv'
    BY <1>5, <2>1 DEF SendProtectFails, FragmentInv
  <2> QED BY <2>3, <2>4
<1>6. CASE Send
  <2>1. /\ remaining' \in Nat /\ first' \in BOOLEAN /\ pc' \in {"idle", "send"}
        /\ pc' \in {"drain", "send"} => size' > 0
        /\ pc' = "send" => /\ remaining' > 0
                           /\ ~fragmented' => remaining' <= MaxPayload
                           /\ ~first'
    BY <1>6, AdvanceKeeps DEF Send
  <2>2. NextRoc \in Nat /\ NextSeq \in 0..(SeqModulus - 1)
    BY Thresholds DEF NextRoc, NextSeq, TypeOK
  <2>3. /\ ThePacket \in Packet
        /\ ThePacket.bytes > 0 /\ ThePacket.bytes <= MaxPayload
        /\ ~ThePacket.single => ThePacket.bytes > 2
        /\ ~(ThePacket.start /\ ThePacket.end)
    BY <1>6, PacketType DEF Send
  <2>4. wire' = ThePacket \/ wire' = NoPacket
    BY <1>6 DEF Send
  <2>5. wire' \in Packet /\ has_error' \in BOOLEAN
    <3>1. wire' \in Packet
      BY <1>6, <2>3 DEF Send, TypeOK
    <3>2. has_error' = has_error \/ has_error' = TRUE
      BY <1>6 DEF Send
    <3> QED BY <3>1, <3>2 DEF TypeOK
  <2>6. TypeOK'
    BY <1>6, <2>1, <2>2, <2>5 DEF Send, TypeOK
  <2>7. wire' # NoPacket => /\ wire'.bytes > 0
                            /\ wire'.bytes <= MaxPayload
                            /\ ~wire'.single => wire'.bytes > 2
                            /\ ~(wire'.start /\ wire'.end)
    BY <2>3, <2>4
  <2>8. NoPacket' = NoPacket
    BY DEF NoPacket
  <2>9. FragmentInv'
    BY <2>1, <2>7, <2>8 DEF FragmentInv
  <2> QED BY <2>6, <2>9
<1>7. CASE SendRefused
  <2>1. /\ remaining' \in Nat /\ first' \in BOOLEAN /\ pc' \in {"idle", "send"}
        /\ pc' \in {"drain", "send"} => size' > 0
        /\ pc' = "send" => /\ remaining' > 0
                           /\ ~fragmented' => remaining' <= MaxPayload
                           /\ ~first'
    BY <1>7, AdvanceKeeps DEF SendRefused
  <2>2. TypeOK'
    BY <1>7, <2>1 DEF SendRefused, TypeOK
  <2>3. FragmentInv'
    BY <1>7, <2>1 DEF SendRefused, FragmentInv
  <2> QED BY <2>2, <2>3
<1>8. CASE Lose
  <2>1. NoPacket \in Packet
    BY Thresholds DEF NoPacket, Packet
  <2>2. TypeOK'
    BY <1>8, <2>1 DEF Lose, TypeOK
  <2>3. FragmentInv'
    BY <1>8 DEF Lose, FragmentInv, NoPacket
  <2> QED BY <2>2, <2>3
<1>9. CASE Receive
  <2>1. NoPacket \in Packet /\ Nothing \in Assembly
    BY Thresholds DEF NoPacket, Packet, Nothing, Assembly
  <2>2. Opened(wire) \in Assembly /\ Extended(assembly, wire) \in Assembly
    BY <1>9, AssemblyType DEF Receive
  <2>3. wire.seq \in 0..(SeqModulus - 1)
    BY DEF TypeOK, Packet
  <2>4. GuessRoc(wire.seq) \in Int
    BY <2>3 DEF GuessRoc, TypeOK
  <2>5. assembly' \in Assembly /\ delivered' \in Assembly
    BY <1>9, <2>1, <2>2 DEF Receive, TypeOK
  <2>6. wire' = NoPacket /\ lost' = 0 /\ r_roc' \in Int
        /\ r_seq' \in 0..(SeqModulus - 1)
    BY <1>9, <2>3, <2>4 DEF Receive
  <2>7. UNCHANGED senderVars
    BY <1>9 DEF Receive
  <2>8. TypeOK'
    BY <2>1, <2>5, <2>6, <2>7 DEF TypeOK
  <2>9. FragmentInv'
    BY <2>6, <2>7 DEF FragmentInv, NoPacket
  <2> QED BY <2>8, <2>9
<1>10. CASE UNCHANGED vars
  BY <1>10 DEF vars, TypeOK, FragmentInv
<1> QED BY <1>1, <1>2, <1>3, <1>4, <1>5, <1>6, <1>7, <1>8, <1>9, <1>10 DEF Next

\* Only the two actions that number a packet touch the four counters.
LEMMA SequenceStep == TypeOK /\ SequenceInv /\ [Next]_vars => SequenceInv'
<1> SUFFICES ASSUME TypeOK, SequenceInv, [Next]_vars
             PROVE  SequenceInv'
  OBVIOUS
<1>1. CASE SendProtectFails
  BY <1>1, NumberOnePacket DEF SendProtectFails
<1>2. CASE Send
  BY <1>2, NumberOnePacket DEF Send
<1>3. CASE UNCHANGED srtpVars
  BY <1>3 DEF srtpVars, SequenceInv
<1>4. SendProtectFails \/ Send \/ UNCHANGED srtpVars
  BY DEF Next, vars, senderVars, srtpVars, PushFrame, DrainError, KeepAliveExpired,
         Split, SendRefused, Lose, Receive
<1> QED BY <1>1, <1>2, <1>3, <1>4

LEMMA InvInit == Init => Inv
<1> SUFFICES ASSUME Init PROVE Inv
  OBVIOUS
<1>1. NoPacket \in Packet /\ Nothing \in Assembly
  BY Thresholds DEF NoPacket, Packet, Nothing, Assembly
<1>2. fragmented \in BOOLEAN /\ first \in BOOLEAN /\ has_error \in BOOLEAN
  BY DEF Init
<1>3. pc \in {"idle", "drain", "send", "restarted"}
  BY DEF Init
<1>4. wire \in Packet /\ assembly \in Assembly /\ delivered \in Assembly
  BY <1>1 DEF Init
<1>5. TypeOK
  BY <1>2, <1>3, <1>4, Thresholds DEF Init, TypeOK
<1>6. SequenceInv /\ FragmentInv
  BY DEF Init, SequenceInv, FragmentInv
<1> QED BY <1>5, <1>6 DEF Inv

\* Inv is inductive.
LEMMA InvCorrect == Spec => []Inv
<1>1. Inv /\ [Next]_vars => Inv'
  BY LoopStep, SequenceStep DEF Inv
<1> QED BY <1>1, InvInit, PTL DEF Spec

-----------------------------------------------------------------------------
\* push_frame, send_rtp_packet, srtp_protect and the server keep all variables in range;
\* in particular seq_num_ and last_seq stay below the modulus.
THEOREM RtpTypeCorrect == Spec => []TypeOK
<1>1. Inv => TypeOK
  BY DEF Inv
<1> QED BY <1>1, InvCorrect, PTL

\* However often the 16-bit number wraps and whichever packets fail, the index
\* srtp_protect computes is the packet's number: no index is used twice.
THEOREM IndexNeverReused == Spec => []IndexIsCount
<1>1. Inv => IndexIsCount
  BY DEF Inv, SequenceInv, IndexIsCount
<1> QED BY <1>1, InvCorrect, PTL

\* Whatever the sizes of frames and of the payload limit, push_frame sends no empty and
\* no oversized packet and no fragment that is both first and last.
THEOREM FragmentsAlwaysFit == Spec => []FragmentsFit
<1>1. Inv => FragmentsFit
  BY DEF Inv, FragmentInv, FragmentsFit
<1> QED BY <1>1, InvCorrect, PTL

-----------------------------------------------------------------------------
(***************************************************************************)
(* The server.  It has seen every number but those that were lost in a row *)
(* since, and the packet on its way has the number numbered last.          *)
(***************************************************************************)
WireInv ==
  /\ wire # NoPacket => /\ wire.index = count - 1
                        /\ \E k \in Nat : wire.index = k * SeqModulus + wire.seq
                        /\ Seen <= wire.index
                        /\ wire.index - Seen <= lost + 1
  /\ wire = NoPacket /\ ~has_error => /\ count > 0 => Seen <= count - 1
                                      /\ count = 0 => Seen = 0
                                      /\ count - 1 - Seen <= lost
  /\ lost = 0 \/ lost + 1 < SeqModulus \div 2

\* A multiple of M that is closer to 0 than M on one side and than 2M on the other.
LEMMA SmallMultiple ==
  ASSUME NEW d \in Int, NEW M \in Nat, M > 0, -M < d * M, d * M < 2 * M
  PROVE  d = 0 \/ d = 1
<1>1. CASE d <= -1
  <2>1. PICK e \in Nat : d = -1 - e
    <3>1. -1 - d \in Nat /\ d = -1 - (-1 - d)
      BY <1>1
    <3> QED
      BY <3>1
  <2>2. e * M \in Nat
    OBVIOUS
  <2>3. d * M = -M - e * M
    BY <2>1
  <2> QED
    BY <2>2, <2>3
<1>2. CASE d >= 2
  <2>1. PICK e \in Nat : d = 2 + e
    <3>1. d - 2 \in Nat /\ d = 2 + (d - 2)
      BY <1>2
    <3> QED
      BY <3>1
  <2>2. e * M \in Nat
    OBVIOUS
  <2>3. d * M = 2 * M + e * M
    BY <2>1
  <2> QED
    BY <2>2, <2>3
<1> QED
  BY <1>1, <1>2

\* RFC 3711's guess is right for every number that is less than half the modulus ahead.
LEMMA GuessCorrect ==
  ASSUME TypeOK, NEW i \in Nat, NEW q \in Nat, NEW t \in 0..(SeqModulus - 1),
         i = q * SeqModulus + t, Seen <= i, i - Seen < SeqModulus \div 2
  PROVE  Guess(t) = i
<1> DEFINE M == SeqModulus
           h == SeqModulus \div 2
           d == q - r_roc
<1>1. M \in Nat /\ M > 0 /\ h \in Nat /\ 2 * h <= M /\ 2 * h >= M - 1
  BY SeqAssumption
<1>2. r_roc \in Int /\ r_seq \in Nat /\ r_seq < M /\ t \in Nat /\ t < M /\ q \in Nat
  BY <1>1 DEF TypeOK
<1>3. d * M \in Int /\ d \in Int /\ q * M - r_roc * M = d * M
  BY <1>1, <1>2
<1>4. q * M \in Int /\ r_roc * M \in Int
  BY <1>1, <1>2
<1>5. 0 <= d * M + (t - r_seq) /\ d * M + (t - r_seq) < h
  <2> DEFINE x == q * M
             y == r_roc * M
             z == d * M
  <2>1. x \in Int /\ y \in Int /\ z \in Int /\ x - y = z
    BY <1>3, <1>4
  <2>2. i = x + t /\ Seen = y + r_seq
    BY DEF Seen
  <2>3. Seen <= i /\ i - Seen < h
    OBVIOUS
  <2> HIDE DEF d, h, x, y, z
  <2>4. 0 <= z + (t - r_seq) /\ z + (t - r_seq) < h
    BY <1>1, <1>2, <2>1, <2>2, <2>3
  <2> QED
    BY <2>4 DEF z
<1>6. d = 0 \/ d = 1
  <2>1. -M < d * M /\ d * M < 2 * M
    <3> HIDE DEF d, h
    <3> QED
      BY <1>1, <1>2, <1>3, <1>5
  <2> HIDE DEF d
  <2> QED
    BY <1>1, <1>3, <2>1, SmallMultiple
<1>7. GuessRoc(t) = q
  <2>1. CASE d = 0
    <3>1. 0 <= t - r_seq /\ t - r_seq < h /\ q = r_roc
      BY <1>1, <1>2, <1>5, <2>1
    <3> QED
      BY <1>1, <1>2, <3>1 DEF GuessRoc
  <2>2. CASE d = 1
    <3>1. d * M = M
      BY <1>1, <2>2
    <3>2. M + (t - r_seq) < h /\ q = r_roc + 1
      <4>1. q = r_roc + 1
        BY <1>2, <2>2
      <4> HIDE DEF d
      <4> QED
        BY <1>5, <3>1, <4>1
    <3>3. r_seq - h > t /\ ~(r_seq < h)
      <4> HIDE DEF d, h
      <4> QED
        BY <1>1, <1>2, <3>2
    <3> QED
      BY <3>2, <3>3 DEF GuessRoc
  <2> QED
    BY <1>6, <2>1, <2>2
<1> QED
  BY <1>7 DEF Guess

\* The packet on its way is close enough to be guessed.
LEMMA GuessOfWire ==
  ASSUME TypeOK, WireInv, wire # NoPacket
  PROVE  Guess(wire.seq) = wire.index
<1>1. wire.seq \in 0..(SeqModulus - 1) /\ wire.index \in Nat /\ lost \in Nat
  BY DEF TypeOK, Packet
<1>2. PICK k \in Nat : wire.index = k * SeqModulus + wire.seq
  BY DEF WireInv
<1>3. Seen \in Int
  BY Thresholds DEF Seen, TypeOK
<1>4. lost + 1 < SeqModulus \div 2
  <2>1. lost = 0 \/ lost + 1 < SeqModulus \div 2
    BY DEF WireInv
  <2> QED
    BY <2>1, Thresholds
<1>5. wire.index - Seen < SeqModulus \div 2 /\ Seen <= wire.index
  BY <1>1, <1>3, <1>4, Thresholds DEF WireInv
<1> QED
  BY <1>1, <1>2, <1>5, GuessCorrect

\* What is known of the packet that is sent.
LEMMA PacketFields ==
  ASSUME TypeOK
  PROVE  /\ ThePacket.seq = seq_num
         /\ ThePacket.index = NextRoc * SeqModulus + seq_num
         /\ ThePacket.bytes = PacketBytes
         /\ ThePacket.frame = frame_no /\ ThePacket.size = size
         /\ ThePacket.single <=> ~fragmented
         /\ ThePacket.start <=> fragmented /\ first
         /\ ThePacket.marker <=> IsLast
BY DEF ThePacket

\* Numbers are used up, packets sent, lost and received; in each case the server stays
\* close enough.
LEMMA WireStep == Inv /\ WireInv /\ [Next]_vars => WireInv'
<1> SUFFICES ASSUME Inv, WireInv, [Next]_vars
             PROVE  WireInv'
  OBVIOUS
<1>1. TypeOK /\ SequenceInv /\ FragmentInv
  BY DEF Inv
<1>2. /\ count \in Nat /\ lost \in Nat /\ Seen \in Int
      /\ SeqModulus \div 2 \in Nat
  BY <1>1, Thresholds DEF TypeOK, Seen
<1>3. lost = 0 \/ lost + 1 < SeqModulus \div 2
  BY DEF WireInv
<1>4. NoPacket' = NoPacket
  BY DEF NoPacket
<1>5. ASSUME UNCHANGED <<wire, count, lost, r_roc, r_seq>>, has_error => has_error'
      PROVE  WireInv'
  <2>1. Seen' = Seen
    BY <1>5 DEF Seen
  <2> QED
    BY <1>4, <1>5, <2>1 DEF WireInv
<1>6. CASE SendProtectFails
  <2>1. /\ wire = NoPacket /\ wire' = NoPacket /\ ~has_error
        /\ count' = count + 1 /\ lost' = lost + 1 /\ lost + 2 < SeqModulus \div 2
    BY <1>4, <1>6 DEF SendProtectFails, MayLose
  <2>2. Seen' = Seen
    BY <1>6 DEF SendProtectFails, serverVars, Seen
  <2>3. /\ count > 0 => Seen <= count - 1
        /\ count = 0 => Seen = 0
        /\ count - 1 - Seen <= lost
    BY <2>1 DEF WireInv
  <2>4. count' > 0 /\ Seen' <= count' - 1 /\ count' - 1 - Seen' <= lost'
    BY <1>2, <2>1, <2>2, <2>3
  <2>5. lost' + 1 < SeqModulus \div 2
    BY <1>2, <2>1
  <2> QED
    BY <1>2, <1>4, <2>1, <2>4, <2>5 DEF WireInv
<1>7. CASE Send
  <2>1. /\ wire = NoPacket /\ ~has_error /\ count' = count + 1 /\ lost' = lost
        /\ roc' = NextRoc /\ last_seq' = seq_num /\ seq_num' = NextSeq
        /\ wire' = ThePacket \/ (wire' = NoPacket /\ has_error')
    BY <1>7 DEF Send
  <2>2. Seen' = Seen
    BY <1>7 DEF Send, serverVars, Seen
  <2>3. /\ count > 0 => Seen <= count - 1
        /\ count = 0 => Seen = 0
        /\ count - 1 - Seen <= lost
    BY <2>1 DEF WireInv
  <2>4. Seen' <= count' - 1 /\ count' - 1 - Seen' <= lost' + 1
    BY <1>2, <2>1, <2>2, <2>3
  <2>5. CASE wire' = ThePacket
    <3>1. roc' \in Nat /\ SequenceInv'
      BY <1>1, <2>1, NumberOnePacket
    <3>2. roc' * SeqModulus + last_seq' = count' - 1
      BY <1>2, <2>1, <3>1 DEF SequenceInv
    <3>3. /\ wire'.index = roc' * SeqModulus + wire'.seq
          /\ wire'.index = roc' * SeqModulus + last_seq'
      BY <1>1, <2>1, <2>5, PacketFields
    <3>4. wire'.index = count' - 1
      BY <3>2, <3>3
    <3>5. \E k \in Nat : wire'.index = k * SeqModulus + wire'.seq
      BY <3>1, <3>3
    <3>6. wire' # NoPacket
      BY <1>1, <1>4, <1>7, <2>5, PacketType DEF Send, NoPacket
    <3> QED
      BY <1>3, <1>4, <2>1, <2>4, <3>4, <3>5, <3>6 DEF WireInv
  <2>6. CASE wire' = NoPacket /\ has_error'
    BY <1>3, <1>4, <2>1, <2>6 DEF WireInv
  <2> QED
    BY <2>1, <2>5, <2>6
<1>8. CASE Lose
  <2>1. /\ wire # NoPacket /\ wire' = NoPacket /\ count' = count /\ lost' = lost + 1
        /\ lost + 2 < SeqModulus \div 2
    BY <1>4, <1>8 DEF Lose, MayLose, senderVars, srtpVars
  <2>2. Seen' = Seen
    BY <1>8 DEF Lose, serverVars, Seen
  <2>3. wire.index = count - 1 /\ Seen <= wire.index /\ wire.index - Seen <= lost + 1
    BY <2>1 DEF WireInv
  <2>4. count # 0
    BY <1>1, <2>3 DEF TypeOK, Packet
  <2>5. count' > 0 /\ Seen' <= count' - 1 /\ count' - 1 - Seen' <= lost'
    BY <1>2, <2>1, <2>2, <2>3, <2>4
  <2>6. lost' + 1 < SeqModulus \div 2
    BY <1>2, <2>1
  <2> QED
    BY <1>2, <1>4, <2>1, <2>5, <2>6 DEF WireInv
<1>9. CASE Receive
  <2>1. /\ wire # NoPacket /\ wire' = NoPacket /\ count' = count /\ lost' = 0
        /\ r_roc' = GuessRoc(wire.seq) /\ r_seq' = wire.seq
    BY <1>4, <1>9 DEF Receive, senderVars, srtpVars
  <2>2. Seen' = wire.index
    BY <1>1, <2>1, GuessOfWire DEF Seen, Guess
  <2>3. wire.index = count - 1 /\ count # 0
    BY <1>1, <2>1 DEF WireInv, TypeOK, Packet
  <2>4. count' > 0 /\ Seen' <= count' - 1 /\ count' - 1 - Seen' <= lost'
    BY <1>2, <2>1, <2>2, <2>3
  <2> QED
    BY <1>2, <1>4, <2>1, <2>4 DEF WireInv
<1>10. CASE UNCHANGED vars
  BY <1>5, <1>10 DEF vars, senderVars, srtpVars, serverVars
<1>11. CASE (\E n \in FrameSize : PushFrame(n)) \/ DrainError \/ KeepAliveExpired \/ Split
            \/ SendRefused
  BY <1>5, <1>11 DEF PushFrame, DrainError, KeepAliveExpired, Split, SendRefused, srtpVars,
                     serverVars
<1> QED
  BY <1>6, <1>7, <1>8, <1>9, <1>10, <1>11 DEF Next

LEMMA WireCorrect == Spec => [](Inv /\ WireInv)
<1>1. Init => WireInv
  <2> SUFFICES ASSUME Init PROVE WireInv
    OBVIOUS
  <2>1. wire = NoPacket /\ count = 0 /\ lost = 0 /\ Seen = 0
    BY Thresholds DEF Init, Seen
  <2> QED
    BY <2>1 DEF WireInv
<1>2. Init => Inv
  BY InvInit
<1>3. Inv /\ [Next]_vars => Inv'
  BY LoopStep, SequenceStep DEF Inv
<1> QED
  BY <1>1, <1>2, <1>3, WireStep, PTL DEF Spec

\* As long as fewer than half the numbers are lost in a row, the server's guess of the
\* roll-over counter is the publisher's, for every modulus and after any number of wraps.
THEOREM ServerAlwaysAgrees == Spec => []ServerAgrees
<1>1. Inv /\ WireInv => ServerAgrees
  BY GuessOfWire DEF Inv, ServerAgrees
<1> QED
  BY <1>1, WireCorrect, PTL

-----------------------------------------------------------------------------
(***************************************************************************)
(* What the server puts together.  The fragment it waits for continues its *)
(* assembly with the bytes that are missing; every other one begins a new  *)
(* frame or leaves a gap in the numbers.                                   *)
(***************************************************************************)
\* Where the loop of push_frame stands in the frame.
SplitInv ==
  pc = "send" => /\ ~fragmented => first /\ remaining = size
                 /\ fragmented /\ first => remaining = size - 1

\* The packet on its way and the frame that is being pushed.
FrameInv ==
  wire # NoPacket =>
    /\ wire.single => wire.marker /\ ~wire.start /\ wire.bytes = wire.size
    /\ wire.start => ~wire.marker
    /\ ~wire.marker => /\ pc = "send" /\ ~has_error /\ fragmented /\ ~first
                       /\ wire.frame = frame_no /\ wire.size = size
                       /\ wire.start => Payload(wire) + 1 + remaining = size

\* The server's assembly, if the packet on its way continues it ...
ContinuesInv ==
  wire # NoPacket /\ assembly # Nothing =>
    /\ Seen < wire.index
    /\ wire.index = Seen + 1 /\ ~wire.single /\ ~wire.start =>
         /\ assembly.frames = {wire.frame} /\ assembly.size = wire.size
         /\ assembly.bytes + Payload(wire)
              = IF wire.marker THEN wire.size ELSE size - remaining

\* ... and if the next packet will.
AwaitsInv ==
  wire = NoPacket /\ ~has_error /\ assembly # Nothing =>
    /\ Seen <= count - 1
    /\ Seen = count - 1 =>
         /\ pc = "send" /\ fragmented /\ ~first
         /\ assembly.frames = {frame_no} /\ assembly.size = size
         /\ assembly.bytes + remaining = size

AssemblyInv == SplitInv /\ FrameInv /\ ContinuesInv /\ AwaitsInv

\* The loop moves on by one chunk; a frame in one packet ends with it.
LEMMA SplitAdvance ==
  ASSUME TypeOK, FragmentInv, SplitInv, pc = "send", Advance,
         UNCHANGED <<size, fragmented>>
  PROVE  /\ SplitInv'
         /\ ~fragmented => IsLast /\ Chunk = size
         /\ ~first' /\ remaining' = remaining - Chunk
         /\ (IsLast <=> remaining' = 0) /\ (~IsLast => pc' = "send")
<1>1. Chunk \in Nat /\ remaining \in Nat
  BY ChunkBounds DEF TypeOK
<1>2. remaining' = remaining - Chunk /\ first' = FALSE
      /\ pc' = IF IsLast THEN "idle" ELSE "send"
  BY DEF Advance
<1>3. ~fragmented => IsLast /\ Chunk = size
  BY DEF SplitInv, Chunk, IsLast
<1>4. IsLast <=> remaining' = 0
  BY <1>1, <1>2 DEF IsLast
<1> QED
  BY <1>2, <1>3, <1>4 DEF SplitInv

\* The packet that is sent continues the frame.
LEMMA SentContinues ==
  ASSUME Inv, WireInv, AssemblyInv, Send, wire' = ThePacket
  PROVE  FrameInv' /\ ContinuesInv'
<1>1. TypeOK /\ SequenceInv /\ FragmentInv /\ SplitInv /\ AwaitsInv
  BY DEF Inv, AssemblyInv
<1>2. /\ pc = "send" /\ wire = NoPacket /\ ~has_error /\ count' = count + 1
      /\ Advance /\ UNCHANGED <<size, fragmented, frame_no>>
      /\ r_roc' = r_roc /\ r_seq' = r_seq /\ assembly' = assembly
      /\ roc' = NextRoc /\ last_seq' = seq_num /\ seq_num' = NextSeq
  BY DEF Send, serverVars
<1>3. ThePacket \in Packet /\ ThePacket # NoPacket
  BY <1>1, <1>2, PacketType DEF NoPacket
<1>4. ~has_error'
  BY <1>2, <1>3 DEF Send
<1>5. /\ ~fragmented => IsLast /\ Chunk = size
      /\ ~first' /\ remaining' = remaining - Chunk
      /\ (IsLast <=> remaining' = 0) /\ (~IsLast => pc' = "send")
  BY <1>1, <1>2, SplitAdvance
<1>6. /\ Chunk \in Nat /\ remaining \in Nat /\ size \in Nat /\ count \in Nat
      /\ Seen \in Int
      /\ fragmented /\ first => Chunk < remaining
  BY <1>1, <1>2, ChunkBounds, Thresholds DEF TypeOK, Seen
<1>7. /\ wire'.frame = frame_no /\ wire'.size = size /\ wire'.bytes = PacketBytes
      /\ wire'.single <=> ~fragmented
      /\ wire'.start <=> fragmented /\ first
      /\ wire'.marker <=> IsLast
  BY <1>1, PacketFields
<1>8. Payload(wire') = Chunk
  <2>1. PacketBytes = IF fragmented THEN Chunk + 2 ELSE Chunk
    BY DEF PacketBytes
  <2> QED
    BY <1>6, <1>7, <2>1 DEF Payload
<1>9. wire'.index = count
  <2>1. roc' * SeqModulus + last_seq' = count' - 1
    BY <1>1, <1>2, <1>6, NumberOnePacket DEF SequenceInv
  <2>2. wire'.index = roc' * SeqModulus + last_seq'
    BY <1>1, <1>2, PacketFields
  <2> QED
    BY <1>2, <1>6, <2>1, <2>2
<1>10. Seen' = Seen /\ NoPacket' = NoPacket /\ Nothing' = Nothing
  BY <1>2 DEF Seen, NoPacket, Nothing
<1>11. FrameInv'
  <2>1. wire'.single => wire'.marker /\ ~wire'.start /\ wire'.bytes = wire'.size
    BY <1>5, <1>7 DEF PacketBytes
  <2>2. wire'.start => ~wire'.marker
    BY <1>6, <1>7 DEF IsLast
  <2>3. ASSUME ~wire'.marker
        PROVE  /\ pc' = "send" /\ ~has_error' /\ fragmented' /\ ~first'
               /\ wire'.frame = frame_no' /\ wire'.size = size'
    BY <1>2, <1>4, <1>5, <1>7, <2>3
  <2>4. wire'.start => Payload(wire') + 1 + remaining' = size'
    <3>1. wire'.start => remaining = size - 1
      BY <1>1, <1>2, <1>7 DEF SplitInv
    <3> QED
      BY <1>2, <1>5, <1>6, <1>8, <3>1
  <2> QED
    BY <1>10, <2>1, <2>2, <2>3, <2>4 DEF FrameInv, Payload
<1>12. ContinuesInv'
  <2> SUFFICES ASSUME assembly # Nothing
               PROVE  /\ Seen < count
                      /\ count = Seen + 1 =>
                           /\ assembly.frames = {frame_no} /\ assembly.size = size
                           /\ assembly.bytes + Chunk
                                = IF IsLast THEN size ELSE size - remaining'
    BY <1>2, <1>7, <1>8, <1>9, <1>10 DEF ContinuesInv, Payload
  <2>1. /\ Seen <= count - 1
        /\ Seen = count - 1 =>
             /\ assembly.frames = {frame_no} /\ assembly.size = size
             /\ assembly.bytes + remaining = size
    BY <1>1, <1>2 DEF AwaitsInv
  <2>2. assembly.bytes \in Nat
    BY <1>1 DEF TypeOK, Assembly
  <2>3. Seen < count
    BY <1>6, <2>1
  <2>4. ASSUME count = Seen + 1
        PROVE  assembly.bytes + Chunk = IF IsLast THEN size ELSE size - remaining'
    <3>1. assembly.bytes + remaining = size
      BY <1>6, <2>1, <2>4
    <3>2. IsLast => remaining = Chunk
      BY DEF IsLast
    <3> QED
      BY <1>5, <1>6, <2>2, <3>1, <3>2
  <2> QED
    BY <1>6, <2>1, <2>3, <2>4
<1> QED
  BY <1>11, <1>12

\* What the server has after a packet: a frame without gaps, or nothing.
LEMMA ReceivedIntact ==
  ASSUME Inv, WireInv, AssemblyInv, DeliveredIntact, Receive
  PROVE  AwaitsInv' /\ DeliveredIntact'
<1> DEFINE gap  == Guess(wire.seq) # Seen + 1
           next == IF wire.single \/ wire.start THEN Opened(wire)
                   ELSE IF gap \/ assembly = Nothing THEN Nothing
                   ELSE Extended(assembly, wire)
<1>1. TypeOK /\ FragmentInv /\ FrameInv /\ ContinuesInv
  BY DEF Inv, AssemblyInv
<1>2. /\ wire # NoPacket /\ wire' = NoPacket
      /\ delivered' = IF wire.marker /\ next # Nothing THEN next ELSE delivered
      /\ assembly' = IF wire.marker THEN Nothing ELSE next
      /\ r_roc' = GuessRoc(wire.seq) /\ r_seq' = wire.seq
      /\ UNCHANGED <<pc, size, remaining, fragmented, first, frame_no, has_error, count>>
  BY DEF Receive, senderVars, frameVars, srtpVars
<1> HIDE DEF next
<1>3. NoPacket' = NoPacket /\ Nothing' = Nothing
  BY DEF NoPacket, Nothing
<1>4. Guess(wire.seq) = wire.index /\ wire.index = count - 1
  BY <1>1, <1>2, GuessOfWire DEF WireInv
<1>5. Seen' = count - 1
  BY <1>2, <1>4 DEF Seen, Guess
<1>6. /\ wire.bytes \in Nat /\ wire.size \in Nat /\ wire.frame \in Nat
      /\ remaining \in Nat /\ size \in Nat /\ count \in Nat
      /\ wire.single \in BOOLEAN /\ wire.start \in BOOLEAN /\ wire.marker \in BOOLEAN
  BY <1>1 DEF TypeOK, Packet
<1>7. ASSUME next # Nothing
      PROVE  /\ next.frames = {wire.frame} /\ next.size = wire.size
             /\ next.bytes = IF wire.marker THEN wire.size ELSE size - remaining
  <2>1. CASE wire.single
    <3>1. next = Opened(wire) /\ wire.marker /\ wire.bytes = wire.size
      BY <1>1, <1>2, <2>1 DEF next, FrameInv
    <3> QED
      BY <2>1, <3>1 DEF Opened, Payload
  <2>2. CASE ~wire.single /\ wire.start
    <3>1. next = Opened(wire) /\ ~wire.marker
      BY <1>1, <1>2, <2>2 DEF next, FrameInv
    <3>2. Payload(wire) + 1 + remaining = size
      BY <1>1, <1>2, <2>2, <3>1 DEF FrameInv
    <3>3. Payload(wire) \in Int
      BY <1>6, <2>2 DEF Payload
    <3>4. Payload(wire) + 1 = size - remaining
      BY <1>6, <3>2, <3>3
    <3> QED
      BY <2>2, <3>1, <3>4 DEF Opened
  <2>3. CASE ~wire.single /\ ~wire.start
    <3>1. next = Extended(assembly, wire) /\ assembly # Nothing /\ wire.index = Seen + 1
      BY <1>4, <1>7, <2>3 DEF next
    <3>2. /\ assembly.frames = {wire.frame}
          /\ assembly.bytes + Payload(wire)
               = IF wire.marker THEN wire.size ELSE size - remaining
      BY <1>1, <1>2, <2>3, <3>1 DEF ContinuesInv
    <3> QED
      BY <3>1, <3>2 DEF Extended
  <2> QED
    BY <1>6, <2>1, <2>2, <2>3
<1>8. AwaitsInv'
  <2> SUFFICES ASSUME ~wire.marker, next # Nothing
               PROVE  /\ Seen' <= count' - 1
                      /\ pc' = "send" /\ fragmented' /\ ~first'
                      /\ next.frames = {frame_no'} /\ next.size = size'
                      /\ next.bytes + remaining' = size'
    BY <1>2, <1>3 DEF AwaitsInv
  <2>1. /\ pc = "send" /\ fragmented /\ ~first
        /\ wire.frame = frame_no /\ wire.size = size
    BY <1>1, <1>2 DEF FrameInv
  <2>2. next.bytes = size - remaining
    BY <1>7
  <2>3. next.bytes + remaining = size
    BY <1>6, <2>2
  <2> QED
    BY <1>2, <1>5, <1>6, <1>7, <2>1, <2>3
<1>9. DeliveredIntact'
  <2>1. CASE wire.marker /\ next # Nothing
    <3>1. delivered' = next /\ next.frames = {wire.frame} /\ next.bytes = next.size
      BY <1>2, <1>7, <2>1
    <3> QED
      BY <3>1, FS_Singleton DEF DeliveredIntact
  <2>2. CASE ~(wire.marker /\ next # Nothing)
    <3>1. delivered' = delivered
      BY <1>2, <2>2
    <3> QED
      BY <1>3, <3>1 DEF DeliveredIntact
  <2> QED
    BY <2>1, <2>2
<1> QED
  BY <1>8, <1>9

LEMMA AssemblyStep ==
  Inv /\ WireInv /\ AssemblyInv /\ DeliveredIntact /\ [Next]_vars
    => AssemblyInv' /\ DeliveredIntact'
<1> SUFFICES ASSUME Inv, WireInv, AssemblyInv, DeliveredIntact, [Next]_vars
             PROVE  AssemblyInv' /\ DeliveredIntact'
  OBVIOUS
<1>1. TypeOK /\ FragmentInv /\ SplitInv /\ FrameInv /\ ContinuesInv /\ AwaitsInv
  BY DEF Inv, AssemblyInv
<1>2. NoPacket' = NoPacket /\ Nothing' = Nothing
  BY DEF NoPacket, Nothing
<1>3. count \in Nat /\ Seen \in Int
  BY <1>1, Thresholds DEF TypeOK, Seen
<1>4. ASSUME UNCHANGED delivered
      PROVE  DeliveredIntact'
  BY <1>2, <1>4 DEF DeliveredIntact
\* A frame is begun only when the last packet of the previous one has been sent.
<1>5. ASSUME pc # "send", has_error => has_error', SplitInv',
             UNCHANGED <<count, wire, serverVars>>
      PROVE  AssemblyInv' /\ DeliveredIntact'
  <2>1. Seen' = Seen /\ assembly' = assembly /\ delivered' = delivered
    BY <1>5 DEF serverVars, Seen
  <2>2. FrameInv'
    BY <1>1, <1>2, <1>5 DEF FrameInv, Payload
  <2>3. ContinuesInv'
    <3>1. wire # NoPacket => wire.marker
      BY <1>1, <1>5 DEF FrameInv
    <3> QED
      BY <1>1, <1>2, <1>5, <2>1, <3>1 DEF ContinuesInv, Payload
  <2>4. AwaitsInv'
    BY <1>1, <1>2, <1>5, <2>1 DEF AwaitsInv
  <2> QED
    BY <1>4, <1>5, <2>1, <2>2, <2>3, <2>4 DEF AssemblyInv
<1>6. ASSUME NEW n \in FrameSize, PushFrame(n)
      PROVE  AssemblyInv' /\ DeliveredIntact'
  BY <1>5, <1>6 DEF PushFrame, srtpVars, SplitInv
<1>7. CASE DrainError \/ KeepAliveExpired
  BY <1>5, <1>7 DEF DrainError, KeepAliveExpired, srtpVars, SplitInv
<1>8. CASE Split
  <2>1. fragmented' <=> size > MaxPayload
    BY <1>8, Zenon DEF Split
  <2>2. SplitInv'
    BY <1>8, <2>1 DEF Split, SplitInv
  <2> QED
    BY <1>5, <1>8, <2>2 DEF Split, srtpVars
<1>9. CASE SendProtectFails
  <2>1. /\ wire = NoPacket /\ wire' = NoPacket /\ ~has_error /\ count' = count + 1
        /\ pc = "send" /\ Advance /\ UNCHANGED <<size, fragmented>>
        /\ assembly' = assembly /\ delivered' = delivered
    BY <1>2, <1>9 DEF SendProtectFails, serverVars
  <2>2. Seen' = Seen
    BY <1>9 DEF SendProtectFails, serverVars, Seen
  <2>3. SplitInv'
    BY <1>1, <2>1, SplitAdvance
  <2>4. assembly # Nothing => Seen' <= count' - 1 /\ Seen' # count' - 1
    <3>1. assembly # Nothing => Seen <= count - 1
      BY <1>1, <2>1 DEF AwaitsInv
    <3> QED
      BY <1>3, <2>1, <2>2, <3>1
  <2>5. FrameInv' /\ ContinuesInv' /\ AwaitsInv'
    BY <1>2, <2>1, <2>4 DEF FrameInv, ContinuesInv, AwaitsInv
  <2> QED
    BY <1>4, <2>1, <2>3, <2>5 DEF AssemblyInv
<1>10. CASE Send
  <2>1. /\ pc = "send" /\ Advance /\ UNCHANGED <<size, fragmented>>
        /\ delivered' = delivered
        /\ wire' = ThePacket \/ (wire' = NoPacket /\ has_error')
    BY <1>10 DEF Send, serverVars
  <2>2. SplitInv'
    BY <1>1, <2>1, SplitAdvance
  <2>3. CASE wire' = ThePacket
    <3>1. FrameInv' /\ ContinuesInv'
      BY <1>10, <2>3, SentContinues
    <3>2. wire' # NoPacket
      BY <1>1, <2>1, <2>3, PacketType DEF NoPacket
    <3>3. AwaitsInv'
      BY <1>2, <3>2 DEF AwaitsInv
    <3> QED
      BY <1>4, <2>1, <2>2, <3>1, <3>3 DEF AssemblyInv
  <2>4. CASE wire' = NoPacket /\ has_error'
    BY <1>2, <1>4, <2>1, <2>2, <2>4 DEF AssemblyInv, FrameInv, ContinuesInv, AwaitsInv
  <2> QED
    BY <2>1, <2>3, <2>4
\* After an error the packet on its way, if there is one, is the last of its frame.
<1>11. CASE SendRefused
  <2>1. /\ pc = "send" /\ has_error /\ Advance /\ has_error' = has_error
        /\ UNCHANGED <<size, fragmented, count, wire, assembly, delivered>>
    BY <1>11 DEF SendRefused, srtpVars, serverVars
  <2>2. Seen' = Seen
    BY <1>11 DEF SendRefused, serverVars, Seen
  <2>3. SplitInv'
    BY <1>1, <2>1, SplitAdvance
  <2>4. wire # NoPacket => wire.marker
    BY <1>1, <2>1 DEF FrameInv
  <2>5. FrameInv'
    BY <1>1, <1>2, <2>1, <2>4 DEF FrameInv
  <2>6. ContinuesInv'
    BY <1>1, <1>2, <2>1, <2>2, <2>4 DEF ContinuesInv, Payload
  <2>7. AwaitsInv'
    BY <2>1 DEF AwaitsInv
  <2> QED
    BY <1>4, <2>1, <2>3, <2>5, <2>6, <2>7 DEF AssemblyInv
<1>12. CASE Lose
  <2>1. /\ wire # NoPacket /\ wire' = NoPacket
        /\ UNCHANGED <<pc, size, remaining, fragmented, first, frame_no, has_error, count,
                       assembly, delivered>>
    BY <1>2, <1>12 DEF Lose, senderVars, serverVars, frameVars, srtpVars
  <2>2. Seen' = Seen
    BY <1>12 DEF Lose, serverVars, Seen
  <2>3. assembly # Nothing => Seen' <= count' - 1 /\ Seen' # count' - 1
    <3>1. wire.index = count - 1
      BY <2>1 DEF WireInv
    <3>2. assembly # Nothing => Seen < wire.index
      BY <1>1, <2>1 DEF ContinuesInv
    <3> QED
      BY <1>3, <2>1, <2>2, <3>1, <3>2
  <2>4. SplitInv'
    BY <1>1, <2>1 DEF SplitInv
  <2>5. FrameInv' /\ ContinuesInv' /\ AwaitsInv'
    BY <1>2, <2>1, <2>3 DEF FrameInv, ContinuesInv, AwaitsInv
  <2> QED
    BY <1>4, <2>1, <2>4, <2>5 DEF AssemblyInv
<1>13. CASE Receive
  <2>1. AwaitsInv' /\ DeliveredIntact'
    BY <1>13, ReceivedIntact
  <2>2. SplitInv'
    BY <1>1, <1>13 DEF Receive, senderVars, frameVars, SplitInv
  <2>3. FrameInv' /\ ContinuesInv'
    BY <1>2, <1>13 DEF Receive, FrameInv, ContinuesInv
  <2> QED
    BY <2>1, <2>2, <2>3 DEF AssemblyInv
<1>14. CASE UNCHANGED vars
  BY <1>1, <1>14
  DEF vars, senderVars, frameVars, srtpVars, serverVars, AssemblyInv, SplitInv, FrameInv,
      ContinuesInv, AwaitsInv, DeliveredIntact, Payload, Seen, NoPacket, Nothing
<1> QED
  BY <1>6, <1>7, <1>8, <1>9, <1>10, <1>11, <1>12, <1>13, <1>14 DEF Next

\* Whatever is lost, refused or fails to be encrypted, for every payload limit and frame
\* size: the server completes a frame only from all the fragments of that frame.
THEOREM DeliveredAlwaysIntact == Spec => []DeliveredIntact
<1>1. Init => AssemblyInv /\ DeliveredIntact
  BY DEF Init, AssemblyInv, SplitInv, FrameInv, ContinuesInv, AwaitsInv, DeliveredIntact
<1> QED
  BY <1>1, AssemblyStep, WireCorrect, PTL DEF Spec

-----------------------------------------------------------------------------
(***************************************************************************)
(* The order of frames.  A frame is named by the number of its first       *)
(* packet, which grows from frame to frame because only a frame without an *)
(* error is split, and it then takes at least one number.                  *)
(***************************************************************************)
\* Every frame that is delivered was pushed after the one delivered before it.
InOrder ==
  delivered' # delivered =>
    \A f \in delivered.frames, g \in delivered'.frames : f < g

DeliveredInOrder == [][InOrder]_vars

\* What was delivered is older than what is on its way, and that older than what is
\* being pushed, unless it belongs to it.
OrderInv ==
  /\ frame_no <= count
  /\ wire # NoPacket =>
       /\ wire.frame < count
       /\ pc = "send" /\ wire.marker => wire.frame < frame_no
  /\ \A f \in delivered.frames :
       /\ f \in Nat /\ f < count
       /\ pc = "send" => f < frame_no
       /\ wire # NoPacket => f < wire.frame

\* What Receive completes is the frame of the packet.
LEMMA ReceivedFrame ==
  ASSUME Inv, WireInv, AssemblyInv, Receive
  PROVE  \/ UNCHANGED delivered
         \/ wire.marker /\ delivered'.frames = {wire.frame}
<1> DEFINE gap  == Guess(wire.seq) # Seen + 1
           next == IF wire.single \/ wire.start THEN Opened(wire)
                   ELSE IF gap \/ assembly = Nothing THEN Nothing
                   ELSE Extended(assembly, wire)
<1>1. /\ wire # NoPacket
      /\ delivered' = IF wire.marker /\ next # Nothing THEN next ELSE delivered
  BY DEF Receive
<1> HIDE DEF next
<1>2. ASSUME next # Nothing PROVE next.frames = {wire.frame}
  <2>1. CASE wire.single \/ wire.start
    BY <2>1 DEF next, Opened
  <2>2. CASE ~(wire.single \/ wire.start)
    <3>1. next = Extended(assembly, wire) /\ assembly # Nothing /\ ~gap
      BY <1>2, <2>2 DEF next
    <3>2. wire.index = Seen + 1
      BY <1>1, <3>1, GuessOfWire DEF Inv
    <3>3. assembly.frames = {wire.frame}
      BY <1>1, <2>2, <3>1, <3>2 DEF AssemblyInv, ContinuesInv
    <3> QED
      BY <3>1, <3>3 DEF Extended
  <2> QED
    BY <2>1, <2>2
<1> QED
  BY <1>1, <1>2

LEMMA OrderStep ==
  Inv /\ WireInv /\ AssemblyInv /\ OrderInv /\ [Next]_vars => OrderInv' /\ [InOrder]_vars
<1> SUFFICES ASSUME Inv, WireInv, AssemblyInv, OrderInv, [Next]_vars
             PROVE  OrderInv' /\ InOrder
  OBVIOUS
<1>1. TypeOK /\ FragmentInv /\ SplitInv
  BY DEF Inv, AssemblyInv
<1>2. NoPacket' = NoPacket
  BY DEF NoPacket
<1>3. /\ count \in Nat /\ frame_no \in Nat /\ wire \in Packet /\ wire.frame \in Nat
      /\ delivered \in Assembly
  BY <1>1 DEF TypeOK, Packet
\* Neither the frame nor its place in the order changes.
<1>4. ASSUME UNCHANGED <<count, frame_no, wire, delivered>>, pc # "send" => pc' # "send"
      PROVE  OrderInv' /\ InOrder
  BY <1>2, <1>4 DEF OrderInv, InOrder
<1>5. CASE (\E n \in FrameSize : PushFrame(n)) \/ DrainError \/ KeepAliveExpired
           \/ UNCHANGED vars
  BY <1>4, <1>5
  DEF PushFrame, DrainError, KeepAliveExpired, vars, senderVars, frameVars, srtpVars,
      serverVars
<1>6. CASE SendRefused
  <2>1. pc = "send" /\ UNCHANGED <<count, frame_no, wire, delivered>>
    BY <1>6 DEF SendRefused, srtpVars, serverVars
  <2> QED
    BY <1>4, <2>1
<1>7. CASE Split
  <2>1. frame_no' = count /\ UNCHANGED <<count, wire, delivered>> /\ pc' = "send"
    BY <1>7 DEF Split, srtpVars, serverVars
  <2> QED
    BY <1>2, <1>3, <2>1 DEF OrderInv, InOrder
<1>8. CASE SendProtectFails
  <2>1. /\ pc = "send" /\ wire = NoPacket /\ wire' = wire
        /\ count' = count + 1 /\ frame_no' = frame_no /\ delivered' = delivered
    BY <1>8 DEF SendProtectFails, serverVars
  <2> QED
    BY <1>2, <1>3, <2>1 DEF OrderInv, InOrder
<1>9. CASE Send
  <2>1. /\ pc = "send" /\ wire = NoPacket /\ Advance
        /\ count' = count + 1 /\ frame_no' = frame_no /\ delivered' = delivered
        /\ wire' = ThePacket \/ wire' = NoPacket
    BY <1>9 DEF Send, serverVars
  <2>2. frame_no < count + 1
    BY <1>3 DEF OrderInv
  <2>3. \A f \in delivered.frames : f \in Nat /\ f < count + 1 /\ f < frame_no
    BY <1>3, <2>1 DEF OrderInv
  <2>4. CASE wire' = ThePacket
    <3>1. wire'.frame = frame_no /\ (wire'.marker <=> IsLast)
      BY <1>1, <2>4, PacketFields
    <3>2. pc' = "send" => ~wire'.marker
      BY <2>1, <3>1 DEF Advance
    <3> QED
      BY <1>2, <1>3, <2>1, <2>2, <2>3, <3>1, <3>2 DEF OrderInv, InOrder
  <2>5. CASE wire' = NoPacket
    BY <1>2, <1>3, <2>1, <2>2, <2>3, <2>5 DEF OrderInv, InOrder
  <2> QED
    BY <2>1, <2>4, <2>5
<1>10. CASE Lose
  <2>1. /\ wire' = NoPacket /\ UNCHANGED <<pc, count, frame_no, delivered>>
    BY <1>10 DEF Lose, senderVars, frameVars, srtpVars, serverVars
  <2> QED
    BY <1>2, <2>1 DEF OrderInv, InOrder
<1>11. CASE Receive
  <2>1. /\ wire # NoPacket /\ wire' = NoPacket /\ UNCHANGED <<pc, count, frame_no>>
    BY <1>11 DEF Receive, senderVars, frameVars, srtpVars
  <2>2. CASE UNCHANGED delivered
    BY <1>2, <2>1, <2>2 DEF OrderInv, InOrder
  <2>3. CASE wire.marker /\ delivered'.frames = {wire.frame}
    <3>1. /\ wire.frame < count
          /\ pc = "send" => wire.frame < frame_no
          /\ \A f \in delivered.frames : f < wire.frame
      BY <2>1, <2>3 DEF OrderInv
    <3> QED
      BY <1>2, <1>3, <2>1, <2>3, <3>1 DEF OrderInv, InOrder
  <2> QED
    BY <1>11, <2>2, <2>3, ReceivedFrame
<1> QED
  BY <1>5, <1>6, <1>7, <1>8, <1>9, <1>10, <1>11 DEF Next

LEMMA AssemblyCorrect == Spec => [](Inv /\ WireInv /\ AssemblyInv)
<1>1. Init => AssemblyInv /\ DeliveredIntact
  BY DEF Init, AssemblyInv, SplitInv, FrameInv, ContinuesInv, AwaitsInv, DeliveredIntact
<1> QED
  BY <1>1, AssemblyStep, WireCorrect, PTL DEF Spec

\* Whatever is lost, refused or fails to be encrypted, the frames the server completes
\* come in the order in which push_frame got them, none twice.
THEOREM DeliveredAlwaysInOrder == Spec => DeliveredInOrder
<1>1. Init => OrderInv
  BY DEF Init, OrderInv, Nothing
<1> QED
  BY <1>1, OrderStep, AssemblyCorrect, PTL DEF Spec, DeliveredInOrder

=============================================================================
