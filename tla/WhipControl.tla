---------------------------- MODULE WhipControl ----------------------------
(***************************************************************************)
(* Who may use the WhipPublisher, and when it is replaced: the WHIP part   *)
(* of telemetry_task's loop and the push of camera_task (main/main.cpp),   *)
(* with start() and stop() of components/vigo_whip as far as they take and *)
(* release the publisher's socket.                                         *)
(*                                                                         *)
(* telemetry_task holds whip_mutex_ from the comparison of the URLs to the *)
(* end of a start(), several seconds; camera_task only tries the mutex and *)
(* skips the frame for WHIP when it is taken.                              *)
(***************************************************************************)
EXTENDS Naturals, FiniteSets

CONSTANTS Base,    \* WHIP URLs up to the '?', as the backend sends them
          NoBase,  \* the empty URL
          Query,   \* what follows the '?', without the token
          Token,   \* stream tokens
          NoToken  \* the empty token

ASSUME BaseAssumption  == NoBase \notin Base
ASSUME TokenAssumption == NoToken \notin Token

VARIABLES
  answer,           \* the last heartbeat's whip_url and stream_token
  whip_mutex,       \* "free", "telemetry" or "camera"
  publisher,        \* the WhipPublisher, or NoPublisher
  active_whip_url,  \* URL with which the last start() succeeded
  telemetry_pc,
  sockets           \* UDP sockets that are open

vars == <<answer, whip_mutex, publisher, active_whip_url, telemetry_pc, sockets>>

(***************************************************************************)
(* A URL with its token.  The hosts that extract_host and                  *)
(* sanitize_whip_url exchange are the same for every heartbeat and part of *)
(* Base.                                                                   *)
(***************************************************************************)
Url   == [base : Base \cup {NoBase}, query : Query, token : Token]
NoUrl == [base |-> NoBase, query |-> "", token |-> NoToken]

Answer == [base : Base \cup {NoBase}, query : Query, token : Token \cup {NoToken}]

\* A publisher's phase: constructed; with a socket, in ICE or DTLS; streaming; errored.
Publisher   == [url : Url, phase : {"new", "connecting", "live", "error"}]
NoPublisher == [url |-> NoUrl, phase |-> "none"]

TelemetryPc == {"heartbeat", "lock", "compare", "construct", "start", "connect", "delay"}

TypeOK ==
  /\ answer \in Answer
  /\ whip_mutex \in {"free", "telemetry", "camera"}
  /\ publisher \in Publisher \cup {NoPublisher}
  /\ active_whip_url \in Url \cup {NoUrl}
  /\ telemetry_pc \in TelemetryPc
  /\ sockets \in Nat

Init ==
  /\ answer \in {a \in Answer : a.base = NoBase /\ a.token = NoToken}
  /\ whip_mutex = "free"
  /\ publisher = NoPublisher
  /\ active_whip_url = NoUrl
  /\ telemetry_pc = "heartbeat"
  /\ sockets = 0

HasSocket(p) == p.phase \in {"connecting", "live", "error"}

Exists(p) == p # NoPublisher

-----------------------------------------------------------------------------
(***************************************************************************)
(* telemetry_task                                                          *)
(***************************************************************************)
HeartbeatAnswered(a) ==
  /\ telemetry_pc = "heartbeat"
  /\ answer' = a
  /\ telemetry_pc' = "lock"
  /\ UNCHANGED <<whip_mutex, publisher, active_whip_url, sockets>>

\* Without an answer nothing about the stream changes.
HeartbeatFailed ==
  /\ telemetry_pc = "heartbeat"
  /\ telemetry_pc' = "delay"
  /\ UNCHANGED <<answer, whip_mutex, publisher, active_whip_url, sockets>>

Lock ==
  /\ telemetry_pc = "lock"
  /\ whip_mutex = "free"
  /\ whip_mutex' = "telemetry"
  /\ telemetry_pc' = "compare"
  /\ UNCHANGED <<answer, publisher, active_whip_url, sockets>>

\* "?token=" or "&token=" is appended: with a token the URL is never empty, even if the
\* backend sent none.
Target == answer

\* strip_token_from_url drops everything from the '?' on.
Strip(u) == u.base

\* Slip: an errored publisher for the same endpoint is kept.
MustStartUnlessSame ==
  ~Exists(publisher) \/ Strip(Target) # Strip(active_whip_url)

\* Not started, errored, or for another endpoint.
MustStart ==
  \/ ~Exists(publisher)
  \/ publisher.phase = "error"
  \/ Strip(Target) # Strip(active_whip_url)

\* Slip: stop() destroys keys and contexts and leaves the socket open.
StopKeepsSocket == publisher' = NoPublisher /\ UNCHANGED sockets

\* Slip: a socket is closed that was never opened.
StopUnguarded == publisher' = NoPublisher /\ sockets' = sockets - 1

\* stop() closes the socket if there is one; then the object is destroyed.
Stop ==
  /\ publisher' = NoPublisher
  /\ sockets' = IF HasSocket(publisher) THEN sockets - 1 ELSE sockets

Release == whip_mutex' = "free" /\ telemetry_pc' = "delay"

\* A stream is wanted and the running publisher, if any, does not do.
Replace ==
  /\ telemetry_pc = "compare"
  /\ answer.token # NoToken
  /\ MustStart
  /\ Stop
  /\ telemetry_pc' = "construct"
  /\ UNCHANGED <<answer, whip_mutex, active_whip_url>>

\* Same endpoint: only active_stream_token_ changes, which nothing reads.
RotateToken ==
  /\ telemetry_pc = "compare"
  /\ answer.token # NoToken
  /\ ~MustStart
  /\ Release
  /\ UNCHANGED <<answer, publisher, active_whip_url, sockets>>

\* No token: the backend wants no stream.
StopPublisher ==
  /\ telemetry_pc = "compare"
  /\ answer.token = NoToken
  /\ Stop
  /\ active_whip_url' = IF Exists(publisher) THEN NoUrl ELSE active_whip_url
  /\ Release
  /\ UNCHANGED answer

Construct ==
  /\ telemetry_pc = "construct"
  /\ publisher' = [url |-> Target, phase |-> "new"]
  /\ telemetry_pc' = "start"
  /\ UNCHANGED <<answer, whip_mutex, active_whip_url, sockets>>

\* Slip: the publisher whose start() failed is kept.
StartFailsKept ==
  /\ telemetry_pc \in {"start", "connect"}
  /\ Release
  /\ UNCHANGED <<answer, active_whip_url, publisher, sockets>>

\* start() fails before it has a socket (certificate, HTTP exchange, SDP answer, DTLS
\* configuration) or in ICE, DTLS or SRTP set-up, where it calls stop() itself.  The
\* publisher is destroyed, active_whip_url_ stays.
StartFails ==
  /\ telemetry_pc \in {"start", "connect"}
  /\ Stop
  /\ Release
  /\ UNCHANGED <<answer, active_whip_url>>

\* The SDP answer is in and the socket is open; an empty URL has nobody to answer.
OpenSocket ==
  /\ telemetry_pc = "start"
  /\ publisher.url.base # NoBase
  /\ publisher' = [publisher EXCEPT !.phase = "connecting"]
  /\ sockets' = sockets + 1
  /\ telemetry_pc' = "connect"
  /\ UNCHANGED <<answer, whip_mutex, active_whip_url>>

StartSucceeds ==
  /\ telemetry_pc = "connect"
  /\ publisher' = [publisher EXCEPT !.phase = "live"]
  /\ active_whip_url' = Target
  /\ Release
  /\ UNCHANGED <<answer, sockets>>

NextCycle ==
  /\ telemetry_pc = "delay"
  /\ telemetry_pc' = "heartbeat"
  /\ UNCHANGED <<answer, whip_mutex, publisher, active_whip_url, sockets>>

-----------------------------------------------------------------------------
(***************************************************************************)
(* camera_task                                                             *)
(***************************************************************************)
\* Slip: the frame is pushed without asking for the mutex.
TryLockIgnored ==
  /\ whip_mutex # "camera"
  /\ Exists(publisher)
  /\ whip_mutex' = "camera"
  /\ UNCHANGED <<answer, publisher, active_whip_url, telemetry_pc, sockets>>

\* try_lock() and the test of whip_publisher_; when either fails the frame is not
\* streamed and nothing changes.
TryLock ==
  /\ whip_mutex = "free"
  /\ Exists(publisher)
  /\ whip_mutex' = "camera"
  /\ UNCHANGED <<answer, publisher, active_whip_url, telemetry_pc, sockets>>

\* push_frame returns, having perhaps met an error it remembers in has_error_.
PushFrame ==
  /\ whip_mutex = "camera"
  /\ \/ UNCHANGED publisher
     \/ publisher.phase = "live" /\ publisher' = [publisher EXCEPT !.phase = "error"]
  /\ whip_mutex' = "free"
  /\ UNCHANGED <<answer, active_whip_url, telemetry_pc, sockets>>

-----------------------------------------------------------------------------
TelemetryTask ==
  \/ \E a \in Answer : HeartbeatAnswered(a)
  \/ HeartbeatFailed
  \/ Lock \/ Replace \/ RotateToken \/ StopPublisher
  \/ Construct \/ StartFails \/ OpenSocket \/ StartSucceeds
  \/ NextCycle

Next == TelemetryTask \/ TryLock \/ PushFrame

\* Both tasks run for ever; camera_task waits for the next frame between two pushes, so
\* telemetry_task gets the mutex.
Spec == /\ Init
        /\ [][Next]_vars
        /\ WF_vars(TelemetryTask)
        /\ SF_vars(Lock)
        /\ WF_vars(PushFrame)

-----------------------------------------------------------------------------
\* camera_task pushes only into a publisher whose start() has succeeded, never into one
\* that is being started, stopped or replaced.
PushIntoStarted ==
  whip_mutex = "camera" =>
    /\ publisher.phase \in {"live", "error"}
    /\ telemetry_pc \notin {"compare", "construct", "start", "connect"}

\* The open sockets are those of the one publisher: no sequence of failed starts,
\* restarts and stops leaks one.
SocketsOwned == sockets = IF HasSocket(publisher) THEN 1 ELSE 0

\* A publisher that survives a heartbeat cycle was started with the URL remembered in
\* active_whip_url_, and streams to the endpoint the last answered heartbeat asked for,
\* whatever tokens, endpoints and failed starts came before.
PublisherAsRemembered ==
  whip_mutex # "telemetry" /\ Exists(publisher) =>
    /\ publisher.phase \in {"live", "error"}
    /\ publisher.url = active_whip_url
    /\ telemetry_pc # "lock" =>
         answer.token # NoToken /\ Strip(publisher.url) = Strip(answer)

StreamWanted == telemetry_pc = "lock" /\ answer.token # NoToken

\* While the backend keeps asking for a stream, an errored publisher is replaced.
ErrorIsReplaced ==
  []<>StreamWanted => (publisher.phase = "error" ~> publisher.phase # "error")

\* strip_token_from_url says it drops "only the 'token' param": a publisher that is
\* kept or started streams to the URL the backend asked for, but for the token.
QueryFollows ==
  [][telemetry_pc' = "delay" /\ telemetry_pc # "heartbeat" /\ Exists(publisher') =>
       publisher'.url.base = answer.base /\ publisher'.url.query = answer.query]_vars

=============================================================================
