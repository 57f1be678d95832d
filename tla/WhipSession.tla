---------------------------- MODULE WhipSession ----------------------------
(***************************************************************************)
(* WhipPublisher::start() and stop() (components/vigo_whip) from inside:   *)
(* where start() gets its target from, what it takes, in which order, and  *)
(* what stop() gives back when it fails half way.  The steps are those of  *)
(* WhipControl, with the resources of the publisher added; starting takes  *)
(* many steps here that are none of WhipControl's.                         *)
(*                                                                         *)
(* mbedTLS, the PSA key store, the resolver and the WHIP server are        *)
(* outside this repository.  Every call of theirs may fail at any time; a  *)
(* key import fails at the latest when the store is full.                  *)
(***************************************************************************)
EXTENDS WhipControl, WhipSdp, Sequences, SequencesExt

CONSTANTS PublicHost,   \* bases whose host is not private as is_private_ip has it
          KeySlots,     \* keys the PSA store can hold
          MaxLines,     \* lines of an answer that bring an address or a port
          MaxPolls,     \* receptions do_ice_binding tries
          MaxAttempts,  \* calls of mbedtls_ssl_handshake that may end without a result
          InboxSize,    \* datagrams the socket holds
          MaxRecords    \* DTLS datagrams the server sends during one start()

ASSUME HostAssumption == PublicHost \subseteq Base
ASSUME StoreAssumption == KeySlots \in Nat \ {0}
ASSUME CountAssumption ==
  {MaxLines, MaxPolls, MaxAttempts, InboxSize, MaxRecords} \subseteq Nat \ {0}

VARIABLES
  start_pc,       \* where start() is
  session,        \* the publisher's members that start() and stop() change
  target,         \* remote_ip_ and remote_port_, from the answer until the requests are sent
  inbox,          \* datagrams in the socket's buffer
  count,          \* lines of the answer, polls of do_ice_binding, then handshake_attempts
  records,        \* DTLS datagrams that have arrived in this start()
  key_store,      \* keys of this component in the PSA store
  auth_failures,  \* history: imports of the second key that failed
  lost            \* history: what a destructor has left behind or freed unset

resourceVars == <<key_store, auth_failures, lost>>
endVars      == <<target, inbox, count, records>>
sessionVars  == <<start_pc, session, endVars, resourceVars>>

\* The members after construction; cert_ and pkey_ are not initialised before
\* generate_dtls_cert does it.
Session ==
  [cert   : {"unset", "set"},           \* cert_ and pkey_
   tls    : {"none", "partial", "set"}, \* what ssl_conf_ and ssl_ctx_ hold
   dtls_initialized : BOOLEAN, received_client_hello : BOOLEAN, keys_exported : BOOLEAN,
   cipher_key : BOOLEAN, auth_key : BOOLEAN, srtp_initialized : BOOLEAN]

NewSession ==
  [cert |-> "unset", tls |-> "none",
   dtls_initialized |-> FALSE, received_client_hello |-> FALSE, keys_exported |-> FALSE,
   cipher_key |-> FALSE, auth_key |-> FALSE, srtp_initialized |-> FALSE]

\* The response to the binding requests, DTLS, an empty datagram, all others (binding
\* requests of the server among them).
Datagram == {"response", "dtls", "empty", "other"}

StartPc == {"idle", "cert", "post", "answer", "configure", "socket", "connect",
            "requests", "ice", "handshake", "cipher_key", "auth_key"}

SessionTypeOK ==
  /\ TypeOK
  /\ start_pc \in StartPc
  /\ session \in Session
  /\ target \in Endpoint
  /\ inbox \in Seq(Datagram) /\ Len(inbox) <= InboxSize
  /\ count \in 0..(MaxLines + MaxPolls + MaxAttempts)
  /\ records \in 0..MaxRecords
  /\ key_store \in 0..KeySlots
  /\ auth_failures \in 0..KeySlots
  /\ lost \subseteq {"cert", "tls"}

SessionInit ==
  /\ Init
  /\ start_pc = "idle"
  /\ session = NewSession
  /\ target = NoEndpoint
  /\ inbox = <<>>
  /\ count = 0
  /\ records = 0
  /\ key_store = 0
  /\ auth_failures = 0
  /\ lost = {}

-----------------------------------------------------------------------------
(***************************************************************************)
(* stop() and the destructor                                               *)
(***************************************************************************)
\* Slip: the context is freed, the second key is not destroyed.
StoppedKeepsAuth(s) ==
  [s EXCEPT !.cipher_key = @ /\ ~s.srtp_initialized,
            !.srtp_initialized = FALSE,
            !.tls = IF s.dtls_initialized THEN "none" ELSE @,
            !.dtls_initialized = FALSE]

\* Slip: the contexts stay when the SRTP keys were never set up.
StoppedKeepsTls(s) ==
  IF ~s.srtp_initialized THEN s
  ELSE [s EXCEPT !.cipher_key = FALSE, !.auth_key = FALSE, !.srtp_initialized = FALSE,
                 !.tls = "none", !.dtls_initialized = FALSE]

\* The members after stop().  cert_ and pkey_ are freed in any case and may be freed
\* again: start() calls stop() on its own failures, the destructor once more.
Stopped(s) ==
  [s EXCEPT !.cipher_key = @ /\ ~s.srtp_initialized,
            !.auth_key   = @ /\ ~s.srtp_initialized,
            !.srtp_initialized = FALSE,
            !.tls = IF s.dtls_initialized THEN "none" ELSE @,
            !.dtls_initialized = FALSE]

Keys(s) == (IF s.cipher_key THEN 1 ELSE 0) + (IF s.auth_key THEN 1 ELSE 0)

\* What an object leaves behind for good when it is destroyed in state s.
Remains(s) == (IF s.cert = "unset" THEN {"cert"} ELSE {})
                \cup (IF s.tls # "none" THEN {"tls"} ELSE {})

\* The publisher is destroyed when its members are those of s.
DestroyAs(s) ==
  /\ key_store' = key_store - (Keys(session) - Keys(Stopped(s)))
  /\ lost' = lost \cup Remains(Stopped(s))
  /\ session' = NewSession

Destroy ==
  IF Exists(publisher)
  THEN DestroyAs(session) /\ UNCHANGED auth_failures
  ELSE UNCHANGED <<session, resourceVars>>

ReplaceSession ==
  /\ Replace
  /\ Destroy
  /\ UNCHANGED <<start_pc, endVars>>

StopSession ==
  /\ StopPublisher
  /\ Destroy
  /\ UNCHANGED <<start_pc, endVars>>

-----------------------------------------------------------------------------
(***************************************************************************)
(* start()                                                                 *)
(***************************************************************************)
ConstructSession ==
  /\ Construct
  /\ start_pc' = "cert"
  /\ UNCHANGED <<session, endVars, resourceVars>>

Starting(from) == telemetry_pc \in {"start", "connect"} /\ start_pc = from

\* start() goes on with its next part, which is not visible to WhipControl.
GoOn(to) == start_pc' = to /\ UNCHANGED vars

EndStart ==
  /\ start_pc' = "idle"
  /\ target' = NoEndpoint
  /\ inbox' = <<>>
  /\ count' = 0
  /\ records' = 0

\* start() returns an error with the members as in s; telemetry_task drops the object.
\* The datagrams that are still in the socket go with it.
FailAs(s) ==
  /\ StartFails
  /\ DestroyAs(s)
  /\ EndStart

Fail == FailAs(session) /\ UNCHANGED auth_failures

\* psa_crypto_init, then the certificate and the key are parsed.
GenerateDtlsCert ==
  LET s == [session EXCEPT !.cert = "set"]
  IN  /\ Starting("cert")
      /\ \/ Fail
         \/ FailAs(s) /\ UNCHANGED auth_failures
         \/ GoOn("post") /\ session' = s /\ UNCHANGED <<endVars, resourceVars>>

\* What the host of the URL may be; an IPv6 address would be cut at its first colon.
HostsOf(base) ==
  IF base \in PublicHost THEN {"name", "public", "misread"} ELSE {"self", "private", "localhost"}

\* The offer is posted and the answer received.
NegotiateSdp ==
  /\ Starting("post")
  /\ \/ Fail
     \/ /\ publisher.url.base # NoBase
        /\ GoOn("answer")
        /\ UNCHANGED <<session, endVars, resourceVars>>

\* parse_sdp_answer, line by line.  After the last one the target is known; without
\* credentials in the answer start() fails.
ParseSdpAnswer ==
  /\ Starting("answer")
  /\ \/ /\ count < MaxLines
        /\ \E l \in Line : target' = ReadLine(target, l)
        /\ count' = count + 1
        /\ GoOn("answer")
        /\ UNCHANGED <<session, inbox, records, resourceVars>>
     \/ Fail
     \/ /\ \E host \in HostsOf(publisher.url.base), first, second \in Found :
             target' = MediaTarget(target, host, first, second)
        /\ count' = 0
        /\ GoOn("configure")
        /\ UNCHANGED <<session, inbox, records, resourceVars>>

\* dtls_initialized_ is set last: what an earlier call has allocated stays.
ConfigureDtlsSession ==
  /\ Starting("configure")
  /\ \/ /\ \E left \in {"none", "partial"} : FailAs([session EXCEPT !.tls = left])
        /\ UNCHANGED auth_failures
     \/ /\ session' = [session EXCEPT !.tls = "set", !.dtls_initialized = TRUE]
        /\ GoOn("socket")
        /\ UNCHANGED <<endVars, resourceVars>>

CreateSocket ==
  /\ Starting("socket")
  /\ \/ Fail
     \/ OpenSocket /\ start_pc' = "connect" /\ UNCHANGED <<session, endVars, resourceVars>>

Verified == inbox # <<>> /\ Head(inbox) = "response"

\* do_ice_binding connects the socket to what inet_pton makes of the target.
Connect ==
  /\ Starting("connect")
  /\ \/ Fail
     \/ /\ target' = [target EXCEPT !.peer = PeerAddress(target.ip)]
        /\ GoOn("requests")
        /\ UNCHANGED <<session, inbox, count, records, resourceVars>>

\* Five requests, whatever becomes of them; the target is then no longer needed.
SendRequests ==
  /\ Starting("requests")
  /\ target' = NoEndpoint
  /\ GoOn("ice")
  /\ UNCHANGED <<session, inbox, count, records, resourceVars>>

\* The WHIP server checks the path and begins or answers the handshake.  What arrives
\* while the requests are sent is first looked at in "ice".
Arrive(d) ==
  /\ start_pc \in {"ice", "handshake"}
  /\ Len(inbox) < InboxSize
  /\ inbox' = Append(inbox, d)
  /\ IF d = "dtls" THEN records < MaxRecords /\ records' = records + 1
                   ELSE UNCHANGED records
  /\ UNCHANGED <<vars, start_pc, session, target, count, resourceVars>>

\* One reception at a time is tried: whatever is not the
\* response is dropped.  Without a response start() goes on all the same, and drains the
\* socket.
DoIceBinding ==
  /\ Starting("ice")
  /\ \/ /\ count < MaxPolls
        /\ ~Verified
        /\ count' = count + 1
        /\ inbox' = IF inbox = <<>> THEN inbox ELSE Tail(inbox)
        /\ GoOn("ice")
        /\ UNCHANGED <<session, target, records, resourceVars>>
     \/ /\ count = MaxPolls \/ Verified
        /\ inbox' = <<>>
        /\ count' = 0
        /\ GoOn("handshake")
        /\ UNCHANGED <<session, target, records, resourceVars>>

\* dtls_recv passes over STUN datagrams, answering requests, and over all others but
\* DTLS and an empty one.
FirstForDtls == SelectInSeq(inbox, LAMBDA d : d \in {"dtls", "empty"})

\* Slip: the calls that end without a result are not counted.
AttemptUncounted ==
  /\ GoOn("handshake")
  /\ inbox' = <<>>
  /\ UNCHANGED <<session, target, records, count, resourceVars>>

\* handshake_attempts: after too many start() gives up.
Attempt ==
  IF count = MaxAttempts
  THEN Fail
  ELSE /\ count' = count + 1
       /\ inbox' = <<>>
       /\ GoOn("handshake")
       /\ UNCHANGED <<session, target, records, resourceVars>>

\* Nothing but datagrams that are passed over: the call asks to be repeated.
HandshakeWaits ==
  /\ Starting("handshake")
  /\ FirstForDtls = 0
  /\ Attempt

\* Any call may end the handshake: the socket refuses to send or to receive, a flight has
\* been waited for too long, an empty datagram is an end of file, a record is bad.
HandshakeFails ==
  /\ Starting("handshake")
  /\ Fail

\* A record is taken: the handshake goes on inside the same call or is complete, the
\* master secret exported or not.
HandshakeReceives ==
  /\ Starting("handshake")
  /\ FirstForDtls # 0
  /\ inbox[FirstForDtls] = "dtls"
  /\ inbox' = SubSeq(inbox, FirstForDtls + 1, Len(inbox))
  /\ \/ /\ session' = [session EXCEPT !.received_client_hello = TRUE]
        /\ GoOn("handshake")
     \/ \E exported \in BOOLEAN :
          /\ session' = [session EXCEPT !.received_client_hello = TRUE,
                                        !.keys_exported = exported]
          /\ GoOn("cipher_key")
  /\ UNCHANGED <<target, count, records, resourceVars>>

MayImport == key_store < KeySlots

\* The keys are derived and the first one imported.  Without a master secret, after a
\* failed derivation or a refused import start() fails; a refused import inside
\* srtp_kdf is only logged.
ImportCipherKey ==
  /\ Starting("cipher_key")
  /\ \/ Fail
     \/ /\ session.keys_exported
        /\ MayImport
        /\ session' = [session EXCEPT !.cipher_key = TRUE]
        /\ key_store' = key_store + 1
        /\ GoOn("auth_key")
        /\ UNCHANGED <<endVars, auth_failures, lost>>

\* The second import, which may be refused for any reason; initialized is set after it.
ImportAuthKey ==
  /\ Starting("auth_key")
  /\ \/ /\ FailAs(session)
        /\ auth_failures' = auth_failures + 1
     \/ /\ MayImport
        /\ session' = [session EXCEPT !.auth_key = TRUE, !.srtp_initialized = TRUE]
        /\ key_store' = key_store + 1
        /\ StartSucceeds
        /\ EndStart
        /\ UNCHANGED <<auth_failures, lost>>

-----------------------------------------------------------------------------
\* The steps that leave the session alone.
Apart ==
  /\ \/ \E a \in Answer : HeartbeatAnswered(a)
     \/ HeartbeatFailed
     \/ Lock \/ RotateToken \/ NextCycle
  /\ UNCHANGED sessionVars

StartSession ==
  \/ ConstructSession \/ GenerateDtlsCert \/ NegotiateSdp \/ ParseSdpAnswer
  \/ ConfigureDtlsSession \/ CreateSocket \/ Connect
  \/ SendRequests \/ DoIceBinding \/ HandshakeWaits \/ HandshakeFails \/ HandshakeReceives
  \/ ImportCipherKey \/ ImportAuthKey

SessionTask == Apart \/ ReplaceSession \/ StopSession \/ StartSession

PushStep == PushFrame /\ UNCHANGED sessionVars

SessionNext ==
  \/ SessionTask
  \/ \E d \in Datagram : Arrive(d)
  \/ TryLock /\ UNCHANGED sessionVars
  \/ PushStep

allVars == <<vars, sessionVars>>

\* As in WhipControl: both tasks go on.  Nothing is asked of the WHIP server.
SessionSpec == /\ SessionInit
               /\ [][SessionNext]_allVars
               /\ WF_allVars(SessionTask)
               /\ SF_allVars(Lock /\ UNCHANGED sessionVars)
               /\ WF_allVars(PushStep)

-----------------------------------------------------------------------------
\* Whatever fails, in whatever order sessions come and go, the keys in the store are
\* those of the one publisher and one for each start() whose second import failed:
\* initialized is not set yet and stop() goes by it.
KeysOwned == key_store = Keys(session) + auth_failures

KnownLoss ==
  /\ "cert" \in lost' \ lost => start_pc = "cert"
  /\ "tls" \in lost' \ lost => start_pc = "configure"

\* The certificate and the TLS contexts of every publisher are freed, and freed after
\* they were initialised, but for two failures: psa_crypto_init (cert_ and pkey_ are not
\* initialised yet) and the configuration (dtls_initialized_ is not set yet).
OnlyKnownLosses == [][KnownLoss]_allVars

\* In whatever order the lines of the answer come, and whatever they and the resolver say,
\* the socket is connected
\*   - to an address of the device itself never because a line has named it, but only for
\*     a text that is not looked up and that inet_pton refuses, for a name the resolver
\*     does not know or finds at that address, or if the URL itself has that host;
\*   - to the public address of the server whenever its name resolves to one, private
\*     addresses in the answer or not, but for a text of the first kind and for the
\*     address of a name that a line has brought;
\*   - never to the address of one line at the port of another.
MediaGoesToServer ==
  start_pc = "requests" =>
    /\ target.peer = "self" =>
         \/ target.ip = "misread"
         \/ target.looked_up
         \/ target.ip_of = "url" /\ publisher.url.base \notin PublicHost
    /\ publisher.url.base \in PublicHost /\ target.resolves =>
         \/ target.peer = "public"
         \/ target.ip = "misread"
         \/ target.looked_up /\ target.ip_of # "url"
    /\ target.ip_of \in {"udp", "udp2"} => target.port_of = target.ip_of
    /\ target.ip_of = "c" => target.port_of \in {"", "m"}

\* start() from inside does what WhipControl says of it: above all it returns, whatever
\* the server sends or leaves unsent, and lets telemetry_task go on.
ControlSpec == Spec

=============================================================================
