----------------------------- MODULE RtpStream -----------------------------
(***************************************************************************)
(* The media path of a connected WhipPublisher (components/vigo_whip):     *)
(* push_frame splits an encoded frame into RTP packets, send_rtp_packet    *)
(* numbers them, srtp_protect extends the 16-bit number to the packet      *)
(* index that selects the key stream.  start() has succeeded, so the       *)
(* publisher is new: sequence number and roll-over counter are 0.          *)
(*                                                                         *)
(* The server is outside this repository.  It is modelled by the two       *)
(* standards the publisher speaks: RFC 3711 (guess the roll-over counter   *)
(* from the sequence number) and RFC 6184 (put fragments together, give a  *)
(* frame up at a gap).  Bytes are counted, not carried.                    *)
(***************************************************************************)
EXTENDS Integers, FiniteSets

CONSTANTS SeqModulus,   \* 65536, the range of seq_num_ and last_seq
          MaxPayload,   \* MAX_PAYLOAD, 1400
          FrameSize,    \* sizes of encoded frames
          MaxPackets    \* bound: packets the model sends (the real index has 48 bits)

ASSUME SeqAssumption == SeqModulus \in Nat /\ SeqModulus % 4 = 0 /\ SeqModulus > 4
ASSUME PayloadAssumption == MaxPayload \in Nat /\ MaxPayload > 2
ASSUME FrameAssumption == FrameSize \subseteq Nat \ {0}
ASSUME BoundAssumption == MaxPackets \in Nat

VARIABLES
  pc,         \* push_frame: "idle", "drain", "send"; "restarted" after esp_restart
  size,       \* of the frame being pushed
  remaining,  \* payload_size: bytes of it that are still to be sent
  fragmented, \* it is sent as FU-A fragments
  first,      \* local of the FU-A loop
  has_error, seq_num,
  roc, last_seq,   \* srtp_send_
  wire,       \* the packet on its way, or NoPacket
  count,      \* history: packets numbered so far
  frame_no,   \* history: number of the first packet of the frame
  lost,       \* numbers in a row that did not reach the server
  r_roc, r_seq,    \* server: highest index it has seen
  assembly,   \* server: the frame being put together
  delivered   \* server: the frame completed last

frameVars  == <<size, remaining, fragmented, first, frame_no>>
srtpVars   == <<seq_num, roc, last_seq, count>>
senderVars == <<pc, frameVars, has_error, srtpVars>>
serverVars == <<r_roc, r_seq, assembly, delivered>>
vars == <<senderVars, wire, lost, serverVars>>

Packet == [seq : 0..(SeqModulus - 1), index : Nat, bytes : Nat, single : BOOLEAN,
           start : BOOLEAN, end : BOOLEAN, marker : BOOLEAN, frame : Nat, size : Nat]

NoPacket == [seq |-> 0, index |-> 0, bytes |-> 0, single |-> FALSE, start |-> FALSE,
             end |-> FALSE, marker |-> FALSE, frame |-> 0, size |-> 0]

\* frames: numbers of the frames whose fragments were put together.
Assembly == [frames : SUBSET Nat, bytes : Nat, size : Nat]
Nothing  == [frames |-> {}, bytes |-> 0, size |-> 0]

TypeOK ==
  /\ pc \in {"idle", "drain", "send", "restarted"}
  /\ size \in Nat /\ remaining \in Nat
  /\ fragmented \in BOOLEAN /\ first \in BOOLEAN
  /\ has_error \in BOOLEAN
  /\ seq_num \in 0..(SeqModulus - 1)
  /\ roc \in Nat
  /\ last_seq \in 0..(SeqModulus - 1)
  /\ wire \in Packet
  /\ count \in Nat /\ frame_no \in Nat
  /\ lost \in Nat
  /\ r_roc \in Int
  /\ r_seq \in 0..(SeqModulus - 1)
  /\ assembly \in Assembly
  /\ delivered \in Assembly

Init ==
  /\ pc = "idle"
  /\ size = 0 /\ remaining = 0 /\ fragmented = FALSE /\ first = FALSE
  /\ has_error = FALSE
  /\ seq_num = 0 /\ roc = 0 /\ last_seq = 0
  /\ wire = NoPacket
  /\ count = 0 /\ frame_no = 0
  /\ lost = 0
  /\ r_roc = 0 /\ r_seq = 0
  /\ assembly = Nothing /\ delivered = Nothing

-----------------------------------------------------------------------------
(***************************************************************************)
(* camera_task: push_frame                                                 *)
(***************************************************************************)
PushFrame(n) ==
  /\ pc = "idle"
  /\ size' = n
  /\ pc' = "drain"
  /\ UNCHANGED <<remaining, fragmented, first, frame_no, has_error, srtpVars, wire, lost,
                 serverVars>>

\* recv may report that the connection is gone; an errored publisher sends nothing.
DrainError ==
  /\ pc = "drain"
  /\ has_error' = TRUE
  /\ pc' = "idle"
  /\ UNCHANGED <<frameVars, srtpVars, wire, lost, serverVars>>

\* Nothing was received for KEEPALIVE_TIMEOUT_US: the device restarts.
KeepAliveExpired ==
  /\ pc = "drain"
  /\ ~has_error
  /\ pc' = "restarted"
  /\ UNCHANGED <<frameVars, has_error, srtpVars, wire, lost, serverVars>>

\* Slip: the NALU header byte is sent in the first fragment as well.
SplitKeepsHeader ==
  /\ pc = "drain"
  /\ ~has_error
  /\ fragmented' = (size > MaxPayload)
  /\ remaining' = size
  /\ first' = TRUE
  /\ frame_no' = count
  /\ pc' = "send"
  /\ UNCHANGED <<size, has_error, srtpVars, wire, lost, serverVars>>

\* A frame that fits is one packet; of a larger one the NALU header byte is cut off,
\* because every fragment carries its bits in the FU header.
Split ==
  /\ pc = "drain"
  /\ ~has_error
  /\ fragmented' = (size > MaxPayload)
  /\ remaining' = IF size > MaxPayload THEN size - 1 ELSE size
  /\ first' = TRUE
  /\ frame_no' = count
  /\ pc' = "send"
  /\ UNCHANGED <<size, has_error, srtpVars, wire, lost, serverVars>>

\* Slip: a fragment is as long as a whole packet's payload; no room for the FU header.
ChunkWithoutRoom ==
  IF remaining < MaxPayload THEN remaining ELSE MaxPayload

Chunk == IF fragmented /\ remaining > MaxPayload - 2 THEN MaxPayload - 2 ELSE remaining

IsLast == Chunk = remaining

PacketBytes == IF fragmented THEN Chunk + 2 ELSE Chunk

\* Slip: the sequence number is wider than its two bytes.
NextSeqWide == seq_num + 1

\* uint16_t seq_num_ wraps.
NextSeq == IF seq_num = SeqModulus - 1 THEN 0 ELSE seq_num + 1

\* Slip: only a sequence number of 0 is recognised as the wrap.
NextRocLate == IF last_seq > SeqModulus \div 2 /\ seq_num = 1 THEN roc + 1 ELSE roc

\* srtp_protect counts a wrap when the number falls from the upper half to the lowest
\* quarter.
NextRoc ==
  IF last_seq > SeqModulus \div 2 /\ seq_num < SeqModulus \div 4 THEN roc + 1 ELSE roc

ThePacket ==
  [seq    |-> seq_num,
   index  |-> NextRoc * SeqModulus + seq_num,
   bytes  |-> PacketBytes,
   single |-> ~fragmented,
   start  |-> fragmented /\ first,
   end    |-> fragmented /\ IsLast,
   marker |-> IsLast,
   frame  |-> frame_no,
   size   |-> size]

Advance ==
  /\ remaining' = remaining - Chunk
  /\ first' = FALSE
  /\ pc' = IF IsLast THEN "idle" ELSE "send"

\* SRTP cannot survive the loss of half the sequence numbers in a row: what is lost
\* and what is never sent stays below that.
MayLose == lost + 2 < SeqModulus \div 2

\* Slip: a packet that could not be encrypted keeps its number for the next one.
SendProtectFailsKeepsNumber ==
  /\ pc = "send"
  /\ wire = NoPacket
  /\ ~has_error
  /\ count < MaxPackets
  /\ roc' = NextRoc
  /\ last_seq' = seq_num
  /\ Advance
  /\ UNCHANGED <<size, fragmented, frame_no, has_error, seq_num, count, wire, lost,
                 serverVars>>

\* send_rtp_packet when srtp_protect fails: nothing is sent, the number is used up.
SendProtectFails ==
  /\ pc = "send"
  /\ wire = NoPacket
  /\ ~has_error
  /\ count < MaxPackets
  /\ roc' = NextRoc
  /\ last_seq' = seq_num
  /\ seq_num' = NextSeq
  /\ count' = count + 1
  /\ MayLose
  /\ lost' = lost + 1
  /\ Advance
  /\ UNCHANGED <<size, fragmented, frame_no, has_error, wire, serverVars>>

\* send_rtp_packet: the packet leaves, or send() fails, perhaps for good.
Send ==
  /\ pc = "send"
  /\ wire = NoPacket
  /\ ~has_error
  /\ count < MaxPackets
  /\ roc' = NextRoc
  /\ last_seq' = seq_num
  /\ seq_num' = NextSeq
  /\ count' = count + 1
  /\ Advance
  /\ \/ wire' = ThePacket /\ UNCHANGED has_error
     \/ UNCHANGED wire /\ has_error' = TRUE
  /\ UNCHANGED <<size, fragmented, frame_no, lost, serverVars>>

\* After a hard error the loop runs to its end, every send_rtp_packet returning at once.
SendRefused ==
  /\ pc = "send"
  /\ has_error
  /\ Advance
  /\ UNCHANGED <<size, fragmented, frame_no, has_error, srtpVars, wire, lost, serverVars>>

-----------------------------------------------------------------------------
(***************************************************************************)
(* The network and the server                                              *)
(***************************************************************************)
Lose ==
  /\ wire # NoPacket
  /\ MayLose
  /\ wire' = NoPacket
  /\ lost' = lost + 1
  /\ UNCHANGED <<senderVars, serverVars>>

\* RFC 3711, 3.3.1: the counter that brings the number closest to the highest seen.
GuessRoc(s) ==
  IF r_seq < SeqModulus \div 2
  THEN IF s - r_seq > SeqModulus \div 2 THEN r_roc - 1 ELSE r_roc
  ELSE IF r_seq - SeqModulus \div 2 > s THEN r_roc + 1 ELSE r_roc

Guess(s) == GuessRoc(s) * SeqModulus + s

Seen == r_roc * SeqModulus + r_seq

\* A fragment carries two bytes of headers; the first one stands for the NALU header.
Payload(p) == IF p.single THEN p.bytes ELSE p.bytes - 2

Extended(a, p) == [frames |-> a.frames \cup {p.frame}, bytes |-> a.bytes + Payload(p),
                   size |-> p.size]

Opened(p) == [frames |-> {p.frame}, size |-> p.size,
              bytes |-> IF p.single THEN Payload(p) ELSE Payload(p) + 1]

Receive ==
  /\ wire # NoPacket
  /\ LET p    == wire
         gap  == Guess(p.seq) # Seen + 1
         next == IF p.single \/ p.start THEN Opened(p)
                 ELSE IF gap \/ assembly = Nothing THEN Nothing
                 ELSE Extended(assembly, p)
     IN  /\ delivered' = IF p.marker /\ next # Nothing THEN next ELSE delivered
         /\ assembly' = IF p.marker THEN Nothing ELSE next
         /\ r_roc' = GuessRoc(p.seq)
         /\ r_seq' = p.seq
  /\ wire' = NoPacket
  /\ lost' = 0
  /\ UNCHANGED senderVars

-----------------------------------------------------------------------------
Next ==
  \/ \E n \in FrameSize : PushFrame(n)
  \/ DrainError \/ KeepAliveExpired \/ Split
  \/ SendProtectFails \/ Send \/ SendRefused
  \/ Lose \/ Receive

Spec == Init /\ [][Next]_vars

-----------------------------------------------------------------------------
\* The index of every packet is its number, across any number of wraps of the 16-bit
\* sequence number and whatever packets fail: no index, and so no part of the key
\* stream, is used twice.
IndexIsCount ==
  count > 0 => roc * SeqModulus + last_seq = count - 1

\* As long as fewer than half the numbers are lost in a row, the server decrypts each
\* packet with the index it was encrypted with.
ServerAgrees == wire # NoPacket => Guess(wire.seq) = wire.index

\* Wherever the loop over a frame stands, a packet is not empty and does not exceed the
\* buffers of push_frame and send_rtp_packet, and none is both first and last fragment.
FragmentsFit ==
  wire # NoPacket =>
    /\ wire.bytes <= MaxPayload
    /\ wire.bytes > 0
    /\ ~(wire.start /\ wire.end)

\* The server never completes a frame from fragments of two frames or with bytes
\* missing, whatever is lost, refused or fails to be encrypted in between.
DeliveredIntact ==
  delivered # Nothing =>
    /\ Cardinality(delivered.frames) = 1
    /\ delivered.bytes = delivered.size

=============================================================================
