------------------------- MODULE WhipSessionProofs -------------------------
(***************************************************************************)
(* For every set of URLs and tokens and every bound: the publisher is      *)
(* pushed into, remembered and stopped as WhipControl says, with start()   *)
(* in one piece or from inside, its keys and contexts are owned, its       *)
(* media goes to the server, and start() takes a bounded number of steps.  *)
(*                                                                         *)
(* The properties speak of the states in which the mutex is free or        *)
(* camera_task's; what makes them true happens while telemetry_task holds  *)
(* it.  ControlInv says what the publisher is at each of its steps,        *)
(* ResourceInv which of the publisher's members are set at each step of    *)
(* start().                                                                *)
(***************************************************************************)
EXTENDS WhipSession, FiniteSetTheorems, WellFoundedInduction, TLAPS

\* The mutex is held from the comparison to the end of start().
MutexInv ==
  whip_mutex = "telemetry"
    <=> telemetry_pc \in {"compare", "construct", "start", "connect"}

\* A publisher that is not being started has been started.
PhaseInv ==
  /\ telemetry_pc = "construct" => publisher = NoPublisher
  /\ telemetry_pc = "start" => publisher.phase = "new"
  /\ telemetry_pc = "connect" => publisher.phase = "connecting"
  /\ telemetry_pc \notin {"construct", "start", "connect"} =>
       publisher.phase \in {"none", "live", "error"}
  /\ whip_mutex = "camera" => Exists(publisher)

\* With which URL the publisher was constructed.
UrlInv ==
  /\ telemetry_pc \in {"construct", "start", "connect"} => answer.token # NoToken
  /\ telemetry_pc \in {"start", "connect"} => publisher.url = answer
  /\ publisher.phase \in {"live", "error"} =>
       /\ publisher.url = active_whip_url
       /\ telemetry_pc \in {"heartbeat", "delay"} =>
            answer.token # NoToken /\ active_whip_url.base = answer.base

ControlInv == TypeOK /\ MutexInv /\ PhaseInv /\ UrlInv /\ SocketsOwned

-----------------------------------------------------------------------------
\* A publisher is told by its phase from none.
LEMMA NonePhase ==
  ASSUME TypeOK
  PROVE  /\ Exists(publisher) <=> publisher.phase # "none"
         /\ Exists(publisher) => publisher \in Publisher
BY DEF TypeOK, Exists, NoPublisher, Publisher

LEMMA ControlInit == Init => ControlInv
<1> SUFFICES ASSUME Init PROVE ControlInv
  OBVIOUS
<1>1. TypeOK
  BY DEF Init, TypeOK, Answer, TelemetryPc
<1>2. MutexInv /\ PhaseInv /\ UrlInv /\ SocketsOwned
  BY DEF Init, MutexInv, PhaseInv, UrlInv, SocketsOwned, NoPublisher, HasSocket
<1> QED
  BY <1>1, <1>2 DEF ControlInv

\* The publisher is gone after stop(), and its socket with it.
LEMMA StopEffect ==
  ASSUME TypeOK, SocketsOwned, Stop
  PROVE  publisher' = NoPublisher /\ sockets' = 0 /\ SocketsOwned'
BY DEF Stop, SocketsOwned, HasSocket, NoPublisher, TypeOK

LEMMA ControlStep == ControlInv /\ [Next]_vars => ControlInv'
<1> SUFFICES ASSUME ControlInv, [Next]_vars PROVE ControlInv'
  OBVIOUS
<1> USE DEF ControlInv, MutexInv, PhaseInv, UrlInv, SocketsOwned, Exists, HasSocket
<1>0. NoPublisher.phase = "none"
  BY DEF NoPublisher
<1>1. ASSUME NEW a \in Answer, HeartbeatAnswered(a) PROVE ControlInv'
  BY <1>1 DEF HeartbeatAnswered, TypeOK, TelemetryPc
<1>2. CASE HeartbeatFailed
  BY <1>2 DEF HeartbeatFailed, TypeOK, TelemetryPc
<1>3. CASE Lock
  BY <1>3 DEF Lock, TypeOK, TelemetryPc
<1>4. CASE Replace
  <2>1. publisher' = NoPublisher /\ sockets' = 0 /\ SocketsOwned'
    BY <1>4, StopEffect DEF Replace
  <2> QED
    BY <1>4, <1>0, <2>1 DEF Replace, TypeOK, TelemetryPc
<1>5. CASE RotateToken
  BY <1>5 DEF RotateToken, MustStart, Release, Strip, Target, TypeOK, TelemetryPc
<1>6. CASE StopPublisher
  <2>1. publisher' = NoPublisher /\ sockets' = 0 /\ SocketsOwned'
    BY <1>6, StopEffect DEF StopPublisher
  <2>2. active_whip_url' \in Url \cup {NoUrl}
    BY <1>6 DEF StopPublisher, TypeOK
  <2> QED
    BY <1>6, <1>0, <2>1, <2>2 DEF StopPublisher, Release, TypeOK, TelemetryPc
<1>7. CASE Construct
  <2>1. answer \in Url
    BY <1>7 DEF Construct, TypeOK, Answer, Url
  <2>2. publisher' \in Publisher
    BY <1>7, <2>1 DEF Construct, Target, Publisher
  <2>3. publisher'.phase = "new" /\ publisher'.url = answer
    BY <1>7 DEF Construct, Target
  <2>4. publisher' # NoPublisher /\ sockets = 0
    BY <1>7, <1>0, <2>3 DEF Construct
  <2> QED
    BY <1>7, <2>2, <2>3, <2>4 DEF Construct, TypeOK, TelemetryPc
<1>8. CASE StartFails
  <2>1. publisher' = NoPublisher /\ sockets' = 0 /\ SocketsOwned'
    BY <1>8, StopEffect DEF StartFails
  <2> QED
    BY <1>8, <1>0, <2>1 DEF StartFails, Release, TypeOK, TelemetryPc
<1>9. CASE OpenSocket
  <2>1. publisher \in Publisher
    BY <1>9, NonePhase DEF OpenSocket
  <2>2. publisher' = [publisher EXCEPT !.phase = "connecting"]
    BY <1>9 DEF OpenSocket
  <2>3. /\ publisher' \in Publisher
        /\ publisher'.phase = "connecting"
        /\ publisher'.url = publisher.url
    BY <2>1, <2>2 DEF Publisher
  <2> QED
    BY <1>9, <1>0, <2>3 DEF OpenSocket, TypeOK, TelemetryPc
<1>10. CASE StartSucceeds
  <2>1. publisher \in Publisher
    BY <1>10, NonePhase DEF StartSucceeds
  <2>2. publisher' = [publisher EXCEPT !.phase = "live"]
    BY <1>10 DEF StartSucceeds
  <2>3. /\ publisher' \in Publisher
        /\ publisher'.phase = "live"
        /\ publisher'.url = publisher.url
    BY <2>1, <2>2 DEF Publisher
  <2>4. answer \in Url
    BY <1>10 DEF StartSucceeds, TypeOK, Answer, Url
  <2> QED
    BY <1>10, <1>0, <2>3, <2>4
    DEF StartSucceeds, Target, Release, TypeOK, TelemetryPc
<1>11. CASE NextCycle
  BY <1>11 DEF NextCycle, TypeOK, TelemetryPc
<1>12. CASE TryLock
  BY <1>12 DEF TryLock, TypeOK, TelemetryPc
<1>13. CASE PushFrame
  <2>1. telemetry_pc \notin {"compare", "construct", "start", "connect"}
    BY <1>13 DEF PushFrame
  <2>2. CASE UNCHANGED publisher
    BY <1>13, <2>1, <2>2 DEF PushFrame, TypeOK, TelemetryPc
  <2>3. CASE publisher.phase = "live" /\ publisher' = [publisher EXCEPT !.phase = "error"]
    <3>1. publisher \in Publisher
      BY <2>3, NonePhase
    <3>2. /\ publisher' \in Publisher
          /\ publisher'.phase = "error"
          /\ publisher'.url = publisher.url
      BY <2>3, <3>1 DEF Publisher
    <3> QED
      BY <1>13, <2>1, <2>3, <3>2 DEF PushFrame, TypeOK, TelemetryPc
  <2> QED
    BY <1>13, <2>2, <2>3 DEF PushFrame
<1>14. CASE UNCHANGED vars
  BY <1>14 DEF vars, TypeOK
<1> QED
  BY <1>1, <1>2, <1>3, <1>4, <1>5, <1>6, <1>7, <1>8, <1>9, <1>10, <1>11, <1>12,
     <1>13, <1>14
  DEF Next, TelemetryTask

\* What the steps keep true gives the three properties.
LEMMA ControlSafe ==
  ControlInv => PushIntoStarted /\ SocketsOwned /\ PublisherAsRemembered
<1> SUFFICES ASSUME ControlInv
             PROVE  PushIntoStarted /\ SocketsOwned /\ PublisherAsRemembered
  OBVIOUS
<1>1. whip_mutex # "telemetry" =>
        telemetry_pc \in {"heartbeat", "lock", "delay"}
  BY DEF ControlInv, MutexInv, TypeOK, TelemetryPc
<1>2. PushIntoStarted
  BY <1>1, NonePhase DEF ControlInv, PhaseInv, PushIntoStarted
<1>3. PublisherAsRemembered
  BY <1>1, NonePhase DEF ControlInv, PhaseInv, UrlInv, PublisherAsRemembered, Strip
<1> QED
  BY <1>2, <1>3 DEF ControlInv

THEOREM ControlInvariant == Spec => []ControlInv
<1> QED
  BY ControlInit, ControlStep, PTL DEF Spec

-----------------------------------------------------------------------------
\* Every step of start() from inside is one of WhipControl's or is not seen by it.
LEMMA SessionStepSimulates == [SessionNext]_allVars => [Next]_vars
<1> SUFFICES ASSUME [SessionNext]_allVars PROVE [Next]_vars
  OBVIOUS
<1> USE DEF Next, TelemetryTask
<1>1. CASE Apart
  BY <1>1 DEF Apart
<1>2. CASE ReplaceSession \/ StopSession
  BY <1>2 DEF ReplaceSession, StopSession
<1>3. CASE ConstructSession
  BY <1>3 DEF ConstructSession
<1>4. ASSUME NEW s, FailAs(s) PROVE Next
  BY <1>4 DEF FailAs
<1>5. CASE GenerateDtlsCert
  BY <1>4, <1>5 DEF GenerateDtlsCert, Fail, GoOn
<1>6. CASE NegotiateSdp \/ ParseSdpAnswer
  BY <1>4, <1>6 DEF NegotiateSdp, ParseSdpAnswer, Fail, GoOn
<1>7. CASE ConfigureDtlsSession
  BY <1>4, <1>7 DEF ConfigureDtlsSession, GoOn
<1>8. CASE CreateSocket
  BY <1>4, <1>8 DEF CreateSocket, Fail
<1>9. CASE Connect
  BY <1>4, <1>9 DEF Connect, Fail, GoOn
<1>10. CASE SendRequests \/ DoIceBinding
  BY <1>10 DEF SendRequests, DoIceBinding, GoOn
<1>11. CASE HandshakeWaits
  BY <1>4, <1>11 DEF HandshakeWaits, Attempt, Fail, GoOn
<1>12. CASE HandshakeFails
  BY <1>4, <1>12 DEF HandshakeFails, Fail
<1>13. CASE HandshakeReceives
  BY <1>13 DEF HandshakeReceives, GoOn
<1>14. CASE ImportCipherKey
  BY <1>4, <1>14 DEF ImportCipherKey, Fail, GoOn
<1>15. CASE ImportAuthKey
  BY <1>4, <1>15 DEF ImportAuthKey
<1>16. ASSUME NEW d \in Datagram, Arrive(d) PROVE UNCHANGED vars
  BY <1>16 DEF Arrive
<1>17. CASE TryLock \/ PushStep
  BY <1>17 DEF PushStep
<1>18. CASE UNCHANGED allVars
  BY <1>18 DEF allVars
<1> QED
  BY <1>1, <1>2, <1>3, <1>5, <1>6, <1>7, <1>8, <1>9, <1>10, <1>11, <1>12, <1>13,
     <1>14, <1>15, <1>16, <1>17, <1>18
  DEF SessionNext, SessionTask, StartSession

\* start() from inside implements WhipControl, but for its fairness: whatever the server
\* sends, whatever fails at which stage, telemetry_task and camera_task see one of the
\* outcomes WhipControl describes.
THEOREM SessionRefinesControl == SessionSpec => Init /\ [][Next]_vars
<1>1. SessionInit => Init
  BY DEF SessionInit
<1> QED
  BY <1>1, SessionStepSimulates, PTL DEF SessionSpec

LEMMA SessionControl == SessionSpec => []ControlInv
<1> QED
  BY SessionRefinesControl, ControlInit, ControlStep, PTL

\* camera_task never pushes into a publisher that is being started, stopped or replaced.
THEOREM PushAlwaysIntoStarted == SessionSpec => []PushIntoStarted
BY SessionControl, ControlSafe, PTL

\* No sequence of failed starts, restarts and stops leaks a socket.
THEOREM SocketsAlwaysOwned == SessionSpec => []SocketsOwned
BY SessionControl, ControlSafe, PTL

\* A publisher that survives a cycle streams to where the last answer asked for.
THEOREM PublisherAlwaysAsRemembered == SessionSpec => []PublisherAsRemembered
BY SessionControl, ControlSafe, PTL

\* An errored publisher is not used up by anybody: it stays until telemetry_task compares,
\* and no answer of the backend keeps it then, neither one for the same endpoint nor one
\* with a new token alone.
ErrorEnds ==
  [][publisher.phase = "error" =>
       IF telemetry_pc = "compare" THEN publisher' = NoPublisher
                                   ELSE publisher' = publisher]_vars

LEMMA ErrorStep ==
  ASSUME ControlInv, [Next]_vars, vars' # vars, publisher.phase = "error"
  PROVE  IF telemetry_pc = "compare" THEN publisher' = NoPublisher
                                     ELSE publisher' = publisher
<1>1. telemetry_pc \notin {"construct", "start", "connect"}
  BY DEF ControlInv, PhaseInv, NoPublisher
<1>2. telemetry_pc = "compare" => whip_mutex = "telemetry"
  BY DEF ControlInv, MutexInv
<1>3. ASSUME NEW a \in Answer, HeartbeatAnswered(a)
      PROVE  publisher' = publisher /\ telemetry_pc # "compare"
  BY <1>3 DEF HeartbeatAnswered
<1>4. CASE HeartbeatFailed \/ Lock \/ NextCycle
  BY <1>4 DEF HeartbeatFailed, Lock, NextCycle
<1>5. CASE Replace \/ StopPublisher
  BY <1>5 DEF Replace, StopPublisher, Stop
<1>6. ~RotateToken
  BY DEF RotateToken, MustStart
<1>7. ~Construct /\ ~StartFails /\ ~OpenSocket /\ ~StartSucceeds
  BY <1>1 DEF Construct, StartFails, OpenSocket, StartSucceeds
<1>8. CASE TryLock \/ PushFrame
  BY <1>2, <1>8 DEF TryLock, PushFrame
<1> QED
  BY <1>3, <1>4, <1>5, <1>6, <1>7, <1>8 DEF Next, TelemetryTask

\* Whatever heartbeats, pushes and failed starts come between: has_error_ is never
\* forgotten, and the first comparison that finds it ends the publisher.
THEOREM ErrorAlwaysEnds == SessionSpec => ErrorEnds
<1>1. ControlInv /\ [Next]_vars =>
        [publisher.phase = "error" =>
           IF telemetry_pc = "compare" THEN publisher' = NoPublisher
                                       ELSE publisher' = publisher]_vars
  BY ErrorStep
<1> QED
  BY <1>1, SessionRefinesControl, SessionControl, PTL DEF ErrorEnds

-----------------------------------------------------------------------------
\* Where start() is, for telemetry_task and from inside.
PcInv ==
  /\ start_pc \in StartPc
  /\ start_pc # "idle" <=> telemetry_pc \in {"start", "connect"}

\* initialized and dtls_initialized_ tell what stop() has to give back, but between the
\* two imports.
FlagInv ==
  /\ session \in Session
  /\ session.auth_key = session.srtp_initialized
  /\ start_pc # "auth_key" => session.cipher_key = session.srtp_initialized
  /\ start_pc = "auth_key" => session.cipher_key = TRUE
  /\ start_pc # "idle" => session.srtp_initialized = FALSE
  /\ session.tls # "none" => session.dtls_initialized = TRUE
  /\ Exists(publisher) /\ start_pc # "cert" => session.cert = "set"
  /\ ~Exists(publisher) => session = NewSession

CountInv == key_store \in Nat /\ auth_failures \in Nat

ResourceInv == PcInv /\ FlagInv /\ CountInv /\ KeysOwned

\* stop(), member by member.
LEMMA StoppedMembers ==
  ASSUME NEW s \in Session
  PROVE  /\ Stopped(s) \in Session
         /\ Stopped(s).cert = s.cert
         /\ Stopped(s).tls = IF s.dtls_initialized THEN "none" ELSE s.tls
         /\ Stopped(s).cipher_key = (s.cipher_key /\ ~s.srtp_initialized)
         /\ Stopped(s).auth_key = (s.auth_key /\ ~s.srtp_initialized)
BY DEF Stopped, Session

LEMMA KeyCount ==
  ASSUME NEW s \in Session
  PROVE  /\ Keys(s) \in 0..2
         /\ s.cipher_key = FALSE /\ s.auth_key = FALSE => Keys(s) = 0
         /\ s.cipher_key = TRUE /\ s.auth_key = FALSE => Keys(s) = 1
         /\ s.cipher_key = TRUE /\ s.auth_key = TRUE => Keys(s) = 2
BY DEF Keys, Session

LEMMA NewSessionFlags ==
  /\ NewSession \in Session
  /\ NewSession.cipher_key = FALSE /\ NewSession.auth_key = FALSE
  /\ NewSession.srtp_initialized = FALSE
  /\ NewSession.tls = "none" /\ NewSession.dtls_initialized = FALSE
  /\ Keys(NewSession) = 0
BY DEF NewSession, Session, Keys

\* stop() destroys both keys when initialized is set, and none when it is not.
LEMMA StoppedKeys ==
  ASSUME NEW s \in Session, s.auth_key = s.srtp_initialized
  PROVE  /\ s.cipher_key = s.srtp_initialized => Keys(Stopped(s)) = 0
         /\ s.cipher_key = TRUE /\ s.srtp_initialized = FALSE =>
              Keys(s) = 1 /\ Keys(Stopped(s)) = 1
<1>1. s.cipher_key \in BOOLEAN /\ s.srtp_initialized \in BOOLEAN
  BY DEF Session
<1>2. CASE s.srtp_initialized = TRUE
  <2>1. Stopped(s).cipher_key = FALSE /\ Stopped(s).auth_key = FALSE
    BY <1>2, StoppedMembers
  <2> QED
    BY <1>2, <2>1, StoppedMembers, KeyCount
<1>3. CASE s.srtp_initialized = FALSE
  <2>1. Stopped(s).cipher_key = s.cipher_key /\ Stopped(s).auth_key = FALSE
    BY <1>1, <1>3, StoppedMembers
  <2> QED
    BY <1>1, <1>3, <2>1, StoppedMembers, KeyCount
<1> QED
  BY <1>1, <1>2, <1>3

\* A publisher that goes in state s, not between the two imports, leaves no key.
LEMMA DestroyedClean ==
  ASSUME ResourceInv, NEW s \in Session, DestroyAs(s),
         s.auth_key = s.srtp_initialized, s.cipher_key = s.srtp_initialized,
         Keys(s) = Keys(session), UNCHANGED auth_failures
  PROVE  session' = NewSession /\ CountInv' /\ KeysOwned'
<1>1. Keys(Stopped(s)) = 0
  BY StoppedKeys
<1>2. Keys(session) \in Nat
  <2>1. session \in Session
    BY DEF ResourceInv, FlagInv
  <2>2. Keys(session) \in 0..2
    BY <2>1, KeyCount
  <2> QED
    BY <2>2
<1>3. key_store' = key_store - (Keys(session) - 0) /\ session' = NewSession
  BY <1>1 DEF DestroyAs
<1>4. key_store' = auth_failures
  BY <1>2, <1>3 DEF ResourceInv, KeysOwned, CountInv
<1> QED
  BY <1>3, <1>4, NewSessionFlags DEF ResourceInv, KeysOwned, CountInv

LEMMA ResourceInit == SessionInit => ResourceInv
<1> SUFFICES ASSUME SessionInit PROVE ResourceInv
  OBVIOUS
<1>1. PcInv
  BY DEF SessionInit, Init, PcInv, StartPc
<1>2. FlagInv
  BY NewSessionFlags DEF SessionInit, Init, FlagInv, Exists
<1> QED
  BY <1>1, <1>2, NewSessionFlags DEF SessionInit, ResourceInv, CountInv, KeysOwned

\* start() fails at a stage where both flags and keys agree.
LEMMA FailedStart ==
  ASSUME ResourceInv, NEW s \in Session, FailAs(s),
         s.auth_key = s.srtp_initialized, s.cipher_key = s.srtp_initialized,
         Keys(s) = Keys(session), UNCHANGED auth_failures
  PROVE  ResourceInv'
<1>1. session' = NewSession /\ CountInv' /\ KeysOwned'
  BY DestroyedClean DEF FailAs
<1>2. publisher' = NoPublisher /\ telemetry_pc' = "delay" /\ start_pc' = "idle"
  BY DEF FailAs, StartFails, Stop, Release, EndStart
<1>3. PcInv' /\ FlagInv'
  BY <1>1, <1>2, NewSessionFlags DEF PcInv, FlagInv, StartPc, Exists
<1> QED
  BY <1>1, <1>3 DEF ResourceInv

\* The simplest case: nothing of the session has changed.
LEMMA FailedAsIs ==
  ASSUME ResourceInv, Fail, start_pc # "idle", start_pc # "auth_key"
  PROVE  ResourceInv'
<1>1. session \in Session
  BY DEF ResourceInv, FlagInv
<1> QED
  BY <1>1, FailedStart DEF Fail, ResourceInv, FlagInv

\* telemetry_task replaces or stops the publisher outside start().
LEMMA DestroyedOutside ==
  ASSUME ResourceInv, Destroy, publisher' = NoPublisher,
         telemetry_pc = "compare", telemetry_pc' \in {"construct", "delay"},
         UNCHANGED start_pc
  PROVE  ResourceInv'
<1>1. start_pc = "idle" /\ start_pc' = "idle"
  BY DEF ResourceInv, PcInv
<1>2. PcInv'
  BY <1>1 DEF PcInv, StartPc
<1>3. session \in Session
  BY DEF ResourceInv, FlagInv
<1>4. session' = NewSession /\ CountInv' /\ KeysOwned'
  <2>1. CASE Exists(publisher)
    BY <1>1, <1>3, <2>1, DestroyedClean DEF Destroy, ResourceInv, FlagInv
  <2>2. CASE ~Exists(publisher)
    BY <2>2 DEF Destroy, resourceVars, ResourceInv, FlagInv, CountInv, KeysOwned
  <2> QED
    BY <2>1, <2>2
<1>5. FlagInv'
  BY <1>1, <1>4, NewSessionFlags DEF FlagInv, Exists
<1> QED
  BY <1>2, <1>4, <1>5 DEF ResourceInv

\* start() goes on, and of the session only what is no key has changed.
LEMMA GoneOn ==
  ASSUME ResourceInv, NEW to \in StartPc \ {"idle", "auth_key"}, GoOn(to),
         start_pc \notin {"idle", "auth_key"},
         session' \in Session,
         session'.cipher_key = session.cipher_key,
         session'.auth_key = session.auth_key,
         session'.srtp_initialized = session.srtp_initialized,
         session'.tls # "none" => session'.dtls_initialized = TRUE,
         Exists(publisher), session'.cert = "set",
         UNCHANGED resourceVars
  PROVE  ResourceInv'
<1>1. PcInv'
  BY DEF GoOn, vars, ResourceInv, PcInv
<1>2. FlagInv'
  BY DEF GoOn, vars, ResourceInv, FlagInv, Exists
<1>3. Keys(session') = Keys(session)
  BY DEF Keys
<1> QED
  BY <1>1, <1>2, <1>3 DEF resourceVars, ResourceInv, CountInv, KeysOwned

\* While start() runs there is a publisher.
LEMMA StartingExists ==
  ASSUME ControlInv, NEW from, Starting(from)
  PROVE  Exists(publisher) /\ start_pc = from
<1>1. publisher.phase # "none"
  BY DEF Starting, ControlInv, PhaseInv
<1> QED
  BY <1>1, NonePhase DEF Starting, ControlInv

LEMMA ResourceStep == ControlInv /\ ResourceInv /\ [SessionNext]_allVars => ResourceInv'
<1> SUFFICES ASSUME ControlInv, ResourceInv, [SessionNext]_allVars PROVE ResourceInv'
  OBVIOUS
<1>0. session \in Session /\ key_store \in Nat /\ auth_failures \in Nat
  BY DEF ResourceInv, FlagInv, CountInv
<1>1. ASSUME UNCHANGED sessionVars,
             Exists(publisher)' <=> Exists(publisher),
             telemetry_pc' \in {"start", "connect"} <=> telemetry_pc \in {"start", "connect"}
      PROVE  ResourceInv'
  BY <1>1
  DEF sessionVars, resourceVars, ResourceInv, PcInv, FlagInv, CountInv, KeysOwned
<1>2. CASE Apart
  <2>1. UNCHANGED sessionVars /\ UNCHANGED publisher
    BY <1>2 DEF Apart, HeartbeatAnswered, HeartbeatFailed, Lock, RotateToken, NextCycle
  <2>2. /\ telemetry_pc \notin {"start", "connect"}
        /\ telemetry_pc' \notin {"start", "connect"}
    BY <1>2 DEF Apart, HeartbeatAnswered, HeartbeatFailed, Lock, RotateToken, Release,
                NextCycle
  <2> QED
    BY <1>1, <2>1, <2>2 DEF Exists
<1>3. CASE ReplaceSession
  BY <1>3, DestroyedOutside DEF ReplaceSession, Replace, Stop
<1>4. CASE StopSession
  BY <1>4, DestroyedOutside DEF StopSession, StopPublisher, Stop, Release
<1>5. CASE ConstructSession
  <2>1. ~Exists(publisher) /\ start_pc' = "cert" /\ telemetry_pc' = "start"
        /\ UNCHANGED <<session, resourceVars>>
    BY <1>5 DEF ConstructSession, Construct, ControlInv, PhaseInv, Exists
  <2>2. session = NewSession
    BY <2>1 DEF ResourceInv, FlagInv
  <2>3. PcInv' /\ FlagInv'
    BY <2>1, <2>2, NewSessionFlags DEF PcInv, FlagInv, StartPc
  <2> QED
    BY <2>1, <2>3 DEF resourceVars, ResourceInv, CountInv, KeysOwned
<1>6. CASE GenerateDtlsCert
  <2> DEFINE s == [session EXCEPT !.cert = "set"]
  <2>1. start_pc = "cert" /\ Exists(publisher)
    BY <1>6, StartingExists DEF GenerateDtlsCert
  <2>2. /\ s \in Session /\ s.cert = "set"
        /\ s.cipher_key = session.cipher_key /\ s.auth_key = session.auth_key
        /\ s.srtp_initialized = session.srtp_initialized
        /\ s.tls = session.tls /\ s.dtls_initialized = session.dtls_initialized
    BY <1>0 DEF Session
  <2>3. Keys(s) = Keys(session)
    BY <2>2 DEF Keys
  <2> HIDE DEF s
  <2>4. CASE Fail
    BY <2>1, <2>4, FailedAsIs
  <2>5. CASE FailAs(s) /\ UNCHANGED auth_failures
    BY <2>1, <2>2, <2>3, <2>5, FailedStart DEF ResourceInv, FlagInv
  <2>6. CASE GoOn("post") /\ session' = s /\ UNCHANGED <<endVars, resourceVars>>
    BY <2>1, <2>2, <2>6, GoneOn DEF ResourceInv, FlagInv, StartPc
  <2> QED
    BY <1>6, <2>4, <2>5, <2>6 DEF GenerateDtlsCert, s
<1>7. CASE NegotiateSdp \/ ParseSdpAnswer
  <2>1. start_pc \in {"post", "answer"} /\ Exists(publisher)
    BY <1>7, StartingExists DEF NegotiateSdp, ParseSdpAnswer
  <2>2. CASE Fail
    BY <2>1, <2>2, FailedAsIs
  <2>3. ASSUME NEW to \in {"answer", "configure"},
               GoOn(to), UNCHANGED <<session, resourceVars>>
        PROVE  ResourceInv'
    BY <2>1, <2>3, <1>0, GoneOn DEF ResourceInv, FlagInv, StartPc
  <2> QED
    BY <1>7, <2>2, <2>3 DEF NegotiateSdp, ParseSdpAnswer
<1>8. CASE ConfigureDtlsSession
  <2>1. start_pc = "configure" /\ Exists(publisher)
    BY <1>8, StartingExists DEF ConfigureDtlsSession
  <2>2. ASSUME NEW left \in {"none", "partial"},
               FailAs([session EXCEPT !.tls = left]), UNCHANGED auth_failures
        PROVE  ResourceInv'
    <3> DEFINE s == [session EXCEPT !.tls = left]
    <3>1. /\ s \in Session
          /\ s.cipher_key = session.cipher_key /\ s.auth_key = session.auth_key
          /\ s.srtp_initialized = session.srtp_initialized
      BY <1>0 DEF Session
    <3>2. Keys(s) = Keys(session)
      BY <3>1 DEF Keys
    <3>3. FailAs(s)
      BY <2>2
    <3> HIDE DEF s
    <3> QED
      BY <2>1, <2>2, <3>1, <3>2, <3>3, FailedStart DEF ResourceInv, FlagInv
  <2>3. CASE /\ session' = [session EXCEPT !.tls = "set", !.dtls_initialized = TRUE]
             /\ GoOn("socket")
             /\ UNCHANGED <<endVars, resourceVars>>
    <3>1. /\ session' \in Session
          /\ session'.cipher_key = session.cipher_key
          /\ session'.auth_key = session.auth_key
          /\ session'.srtp_initialized = session.srtp_initialized
          /\ session'.cert = session.cert
          /\ session'.dtls_initialized = TRUE
      BY <1>0, <2>3 DEF Session
    <3> QED
      BY <2>1, <2>3, <3>1, GoneOn DEF ResourceInv, FlagInv, StartPc
  <2> QED
    BY <1>8, <2>2, <2>3 DEF ConfigureDtlsSession
<1>9. CASE CreateSocket
  <2>1. start_pc = "socket" /\ Exists(publisher)
    BY <1>9, StartingExists DEF CreateSocket
  <2>2. CASE Fail
    BY <2>1, <2>2, FailedAsIs
  <2>3. CASE OpenSocket /\ start_pc' = "connect" /\ UNCHANGED <<session, resourceVars>>
    <3>1. PcInv'
      BY <2>3 DEF OpenSocket, PcInv, StartPc
    <3>2. publisher \in Publisher /\ publisher' = [publisher EXCEPT !.phase = "connecting"]
      BY <2>1, <2>3, NonePhase DEF ControlInv, OpenSocket
    <3>3. publisher'.phase = "connecting"
      BY <3>2 DEF Publisher
    <3>4. Exists(publisher)'
      BY <3>3 DEF Exists, NoPublisher
    <3>5. session.cert = "set"
      BY <2>1 DEF ResourceInv, FlagInv
    <3>6. FlagInv'
      BY <2>1, <2>3, <3>4, <3>5 DEF ResourceInv, FlagInv, Exists
    <3> QED
      BY <2>3, <3>1, <3>6 DEF resourceVars, ResourceInv, CountInv, KeysOwned
  <2> QED
    BY <1>9, <2>2, <2>3 DEF CreateSocket
<1>10. CASE Connect
  <2>1. start_pc = "connect" /\ Exists(publisher)
    BY <1>10, StartingExists DEF Connect
  <2>2. CASE Fail
    BY <2>1, <2>2, FailedAsIs
  <2>3. CASE GoOn("requests") /\ UNCHANGED <<session, resourceVars>>
    BY <2>1, <2>3, <1>0, GoneOn DEF ResourceInv, FlagInv, StartPc
  <2> QED
    BY <1>10, <2>2, <2>3 DEF Connect
<1>11. CASE SendRequests \/ DoIceBinding
  <2>1. start_pc \in {"requests", "ice"} /\ Exists(publisher)
    BY <1>11, StartingExists DEF SendRequests, DoIceBinding
  <2>2. PICK to \in {"ice", "handshake"} :
          GoOn(to) /\ UNCHANGED <<session, resourceVars>>
    BY <1>11 DEF SendRequests, DoIceBinding
  <2> QED
    BY <2>1, <2>2, <1>0, GoneOn DEF ResourceInv, FlagInv, StartPc
<1>12. CASE HandshakeWaits \/ HandshakeFails
  <2>1. start_pc = "handshake" /\ Exists(publisher)
    BY <1>12, StartingExists DEF HandshakeWaits, HandshakeFails
  <2>2. CASE Fail
    BY <2>1, <2>2, FailedAsIs
  <2>3. CASE GoOn("handshake") /\ UNCHANGED <<session, resourceVars>>
    BY <2>1, <2>3, <1>0, GoneOn DEF ResourceInv, FlagInv, StartPc
  <2> QED
    BY <1>12, <2>2, <2>3 DEF HandshakeWaits, Attempt, HandshakeFails
<1>13. CASE HandshakeReceives
  <2>1. start_pc = "handshake" /\ Exists(publisher)
    BY <1>13, StartingExists DEF HandshakeReceives
  <2>2. PICK to \in {"handshake", "cipher_key"} : GoOn(to)
    BY <1>13 DEF HandshakeReceives
  <2>3. /\ session' \in Session
        /\ session'.cipher_key = session.cipher_key
        /\ session'.auth_key = session.auth_key
        /\ session'.srtp_initialized = session.srtp_initialized
        /\ session'.cert = session.cert
        /\ session'.tls = session.tls
        /\ session'.dtls_initialized = session.dtls_initialized
    BY <1>0, <1>13 DEF HandshakeReceives, Session
  <2>4. UNCHANGED resourceVars
    BY <1>13 DEF HandshakeReceives
  <2> QED
    BY <2>1, <2>2, <2>3, <2>4, GoneOn DEF ResourceInv, FlagInv, StartPc
<1>14. CASE ImportCipherKey
  <2>1. start_pc = "cipher_key" /\ Exists(publisher)
    BY <1>14, StartingExists DEF ImportCipherKey
  <2>2. CASE Fail
    BY <2>1, <2>2, FailedAsIs
  <2>3. CASE /\ session' = [session EXCEPT !.cipher_key = TRUE]
             /\ key_store' = key_store + 1
             /\ GoOn("auth_key")
             /\ UNCHANGED auth_failures
    <3>1. /\ session' \in Session
          /\ session'.cipher_key = TRUE
          /\ session'.auth_key = session.auth_key
          /\ session'.srtp_initialized = session.srtp_initialized
          /\ session'.cert = session.cert
          /\ session'.tls = session.tls
          /\ session'.dtls_initialized = session.dtls_initialized
      BY <1>0, <2>3 DEF Session
    <3>2. session.cipher_key = FALSE /\ session.auth_key = FALSE
      BY <2>1 DEF ResourceInv, FlagInv
    <3>3. Keys(session) = 0 /\ Keys(session') = 1
      BY <1>0, <3>1, <3>2, KeyCount
    <3>4. PcInv'
      BY <2>1, <2>3 DEF GoOn, vars, ResourceInv, PcInv, StartPc
    <3>5. FlagInv'
      BY <2>1, <2>3, <3>1 DEF GoOn, vars, ResourceInv, FlagInv, Exists
    <3> QED
      BY <1>0, <2>3, <3>3, <3>4, <3>5 DEF ResourceInv, CountInv, KeysOwned
  <2> QED
    BY <1>14, <2>2, <2>3 DEF ImportCipherKey
<1>15. CASE ImportAuthKey
  <2>1. start_pc = "auth_key" /\ Exists(publisher)
    BY <1>15, StartingExists DEF ImportAuthKey
  <2>2. /\ session.cipher_key = TRUE /\ session.auth_key = FALSE
        /\ session.srtp_initialized = FALSE
    BY <2>1 DEF ResourceInv, FlagInv
  <2>3. Keys(session) = 1
    BY <1>0, <2>2, KeyCount
  <2>4. CASE FailAs(session) /\ auth_failures' = auth_failures + 1
    <3>1. Keys(Stopped(session)) = 1
      BY <1>0, <2>2, StoppedKeys
    <3>2. key_store' = key_store - (1 - 1) /\ session' = NewSession
      BY <2>3, <2>4, <3>1 DEF FailAs, DestroyAs
    <3>3. publisher' = NoPublisher /\ telemetry_pc' = "delay" /\ start_pc' = "idle"
      BY <2>4 DEF FailAs, StartFails, Stop, Release, EndStart
    <3>4. PcInv' /\ FlagInv'
      BY <3>2, <3>3, NewSessionFlags DEF PcInv, FlagInv, StartPc, Exists
    <3>5. key_store' = 0 + auth_failures' /\ CountInv'
      BY <1>0, <2>3, <2>4, <3>2 DEF ResourceInv, CountInv, KeysOwned
    <3> QED
      BY <3>2, <3>4, <3>5, NewSessionFlags DEF ResourceInv, KeysOwned
  <2>5. CASE /\ session' = [session EXCEPT !.auth_key = TRUE, !.srtp_initialized = TRUE]
             /\ key_store' = key_store + 1
             /\ StartSucceeds
             /\ EndStart
             /\ UNCHANGED auth_failures
    <3>1. /\ session' \in Session
          /\ session'.cipher_key = TRUE
          /\ session'.auth_key = TRUE
          /\ session'.srtp_initialized = TRUE
          /\ session'.cert = session.cert
          /\ session'.tls = session.tls
          /\ session'.dtls_initialized = session.dtls_initialized
      BY <1>0, <2>2, <2>5 DEF Session
    <3>2. Keys(session') = 2
      BY <3>1, KeyCount
    <3>3. start_pc' = "idle" /\ telemetry_pc' = "delay"
      BY <2>5 DEF StartSucceeds, Release, EndStart
    <3>4. Exists(publisher')
      <4>1. publisher \in Publisher /\ publisher' = [publisher EXCEPT !.phase = "live"]
        BY <2>1, <2>5, NonePhase DEF StartSucceeds, ControlInv
      <4>2. publisher'.phase = "live"
        BY <4>1 DEF Publisher
      <4> QED
        BY <4>2 DEF Exists, NoPublisher
    <3>5. PcInv' /\ FlagInv'
      BY <2>1, <3>1, <3>3, <3>4 DEF PcInv, FlagInv, StartPc, ResourceInv, Exists
    <3> QED
      BY <1>0, <2>3, <2>5, <3>2, <3>5 DEF ResourceInv, CountInv, KeysOwned
  <2> QED
    BY <1>15, <2>4, <2>5 DEF ImportAuthKey
<1>16. ASSUME NEW d \in Datagram, Arrive(d) PROVE ResourceInv'
  BY <1>16
  DEF Arrive, vars, resourceVars, ResourceInv, PcInv, FlagInv, CountInv, KeysOwned,
      Exists
<1>17. CASE TryLock /\ UNCHANGED sessionVars
  BY <1>1, <1>17 DEF TryLock, Exists
<1>18. CASE PushStep
  <2>1. UNCHANGED sessionVars /\ UNCHANGED telemetry_pc
    BY <1>18 DEF PushStep, PushFrame
  <2>2. Exists(publisher)' <=> Exists(publisher)
    <3>1. CASE UNCHANGED publisher
      BY <3>1 DEF Exists
    <3>2. CASE publisher.phase = "live" /\ publisher' = [publisher EXCEPT !.phase = "error"]
      <4>1. publisher \in Publisher
        BY <3>2, NonePhase DEF ControlInv
      <4>2. publisher'.phase = "error"
        BY <3>2, <4>1 DEF Publisher
      <4> QED
        BY <3>2, <4>2 DEF Exists, NoPublisher
    <3> QED
      BY <1>18, <3>1, <3>2 DEF PushStep, PushFrame
  <2> QED
    BY <1>1, <2>1, <2>2
<1>19. CASE UNCHANGED allVars
  BY <1>1, <1>19 DEF allVars, vars, Exists
<1> QED
  BY <1>2, <1>3, <1>4, <1>5, <1>6, <1>7, <1>8, <1>9, <1>10, <1>11, <1>12, <1>13,
     <1>14, <1>15, <1>16, <1>17, <1>18, <1>19
  DEF SessionNext, SessionTask, StartSession

LEMMA SessionInvariant == SessionSpec => [](ControlInv /\ ResourceInv)
<1>1. SessionInit => ResourceInv
  BY ResourceInit
<1>2. SessionSpec => []ControlInv
  BY SessionControl
<1> QED
  BY <1>1, <1>2, ResourceStep, PTL DEF SessionSpec

\* Whatever fails in whatever order, every key in the store is the publisher's or that
\* of a start() whose second import failed.
THEOREM KeysAlwaysOwned == SessionSpec => []KeysOwned
<1>1. ResourceInv => KeysOwned
  BY DEF ResourceInv
<1> QED
  BY <1>1, SessionInvariant, PTL

-----------------------------------------------------------------------------
\* A destructor frees what was initialised, if its flags tell.
LEMMA KnownRemains ==
  ASSUME NEW s \in Session, DestroyAs(s),
         s.cert = "set" \/ start_pc = "cert",
         (s.tls # "none" => s.dtls_initialized = TRUE) \/ start_pc = "configure"
  PROVE  KnownLoss
<1>1. lost' \ lost \subseteq Remains(Stopped(s))
  BY DEF DestroyAs
<1>2. "cert" \in Remains(Stopped(s)) => s.cert = "unset"
  BY StoppedMembers DEF Remains
<1>3. "tls" \in Remains(Stopped(s)) => Stopped(s).tls # "none"
  BY DEF Remains
<1>4. s.dtls_initialized = TRUE => Stopped(s).tls = "none"
  BY StoppedMembers
<1>5. Stopped(s).tls # "none" => s.tls # "none"
  BY StoppedMembers
<1> QED
  BY <1>1, <1>2, <1>3, <1>4, <1>5 DEF KnownLoss

LEMMA LossStep == ControlInv /\ ResourceInv /\ [SessionNext]_allVars => [KnownLoss]_allVars
<1> SUFFICES ASSUME ControlInv, ResourceInv, [SessionNext]_allVars PROVE KnownLoss
  OBVIOUS
<1>0. /\ session \in Session
      /\ session.tls # "none" => session.dtls_initialized = TRUE
      /\ Exists(publisher) /\ start_pc # "cert" => session.cert = "set"
  BY DEF ResourceInv, FlagInv
<1>1. ASSUME UNCHANGED lost PROVE KnownLoss
  BY <1>1 DEF KnownLoss
<1>2. ASSUME NEW s \in Session, FailAs(s),
             s.cert = "set" \/ start_pc = "cert",
             (s.tls # "none" => s.dtls_initialized = TRUE) \/ start_pc = "configure"
      PROVE  KnownLoss
  BY <1>2, KnownRemains DEF FailAs
<1>3. ASSUME NEW from, Starting(from), FailAs(session) PROVE KnownLoss
  BY <1>0, <1>2, <1>3, StartingExists
<1>4. CASE Destroy
  <2>1. CASE Exists(publisher)
    <3>1. DestroyAs(session)
      BY <1>4, <2>1 DEF Destroy
    <3> QED
      BY <1>0, <2>1, <3>1, KnownRemains
  <2> QED
    BY <1>1, <1>4, <2>1 DEF Destroy, resourceVars
<1>5. CASE ConstructSession \/ Apart
  BY <1>1, <1>5 DEF ConstructSession, Apart, sessionVars, resourceVars
<1>6. CASE GenerateDtlsCert
  <2> DEFINE s == [session EXCEPT !.cert = "set"]
  <2>1. s \in Session /\ s.cert = "set" /\ start_pc = "cert"
    BY <1>0, <1>6 DEF Session, GenerateDtlsCert, Starting
  <2>2. s.tls = session.tls /\ s.dtls_initialized = session.dtls_initialized
    BY <1>0 DEF Session
  <2>3. CASE FailAs(session)
    BY <1>3, <1>6, <2>3 DEF GenerateDtlsCert
  <2>4. CASE FailAs(s)
    <3> HIDE DEF s
    <3> QED
      BY <1>0, <1>2, <2>1, <2>2, <2>4
  <2> QED
    BY <1>1, <1>6, <2>3, <2>4 DEF GenerateDtlsCert, Fail, resourceVars
<1>7. CASE ConfigureDtlsSession
  <2>1. start_pc = "configure" /\ Exists(publisher)
    BY <1>7, StartingExists DEF ConfigureDtlsSession
  <2>2. ASSUME NEW left \in {"none", "partial"}, FailAs([session EXCEPT !.tls = left])
        PROVE  KnownLoss
    <3> DEFINE s == [session EXCEPT !.tls = left]
    <3>1. s \in Session /\ s.cert = session.cert
      BY <1>0 DEF Session
    <3>2. FailAs(s)
      BY <2>2
    <3> HIDE DEF s
    <3> QED
      BY <1>0, <1>2, <2>1, <3>1, <3>2
  <2> QED
    BY <1>1, <1>7, <2>2 DEF ConfigureDtlsSession, resourceVars
<1>8. CASE NegotiateSdp \/ ParseSdpAnswer \/ CreateSocket \/ Connect
  BY <1>1, <1>3, <1>8
  DEF NegotiateSdp, ParseSdpAnswer, CreateSocket, Connect, Fail, resourceVars
<1>9. CASE SendRequests \/ DoIceBinding \/ HandshakeReceives
  BY <1>1, <1>9 DEF SendRequests, DoIceBinding, HandshakeReceives, resourceVars
<1>10. CASE HandshakeWaits \/ HandshakeFails
  BY <1>1, <1>3, <1>10 DEF HandshakeWaits, Attempt, HandshakeFails, Fail, resourceVars
<1>11. CASE ImportCipherKey \/ ImportAuthKey
  BY <1>1, <1>3, <1>11 DEF ImportCipherKey, ImportAuthKey, Fail
<1>12. ASSUME NEW d \in Datagram, Arrive(d) PROVE KnownLoss
  BY <1>1, <1>12 DEF Arrive, resourceVars
<1>13. CASE (TryLock /\ UNCHANGED sessionVars) \/ PushStep
  BY <1>1, <1>13 DEF PushStep, sessionVars, resourceVars
<1>14. CASE UNCHANGED allVars
  BY <1>1, <1>14 DEF allVars, sessionVars, resourceVars
<1> QED
  BY <1>4, <1>5, <1>6, <1>7, <1>8, <1>9, <1>10, <1>11, <1>12, <1>13, <1>14
  DEF SessionNext, SessionTask, StartSession, ReplaceSession, StopSession

\* A certificate is freed unset, or a TLS context lost, only by the two failures named.
THEOREM LossesKnown == SessionSpec => OnlyKnownLosses
<1>1. SessionSpec => [][ControlInv /\ ResourceInv /\ [SessionNext]_allVars]_allVars
  BY SessionInvariant, PTL DEF SessionSpec
<1> QED
  BY <1>1, SessionInvariant, LossStep, PTL DEF SessionSpec, OnlyKnownLosses

-----------------------------------------------------------------------------
\* What the lines read so far have left: an address has the line it came from, and a
\* port of the same line if it was a candidate.
LinesInv(e) ==
  /\ e \in Endpoint
  /\ e.looked_up = FALSE /\ e.resolves = FALSE /\ e.peer = ""
  /\ e.ip_of # "url"
  /\ e.ip_of = "" <=> e.ip = ""
  /\ e.ip_of \in {"udp", "udp2"} => e.port_of = e.ip_of
  /\ e.ip_of \in {"", "c"} => e.port_of \in {"", "m"}

\* An address and a port of the same line, unless the URL has given the address.
SameLine(e) ==
  /\ e.ip_of \in {"udp", "udp2"} => e.port_of = e.ip_of
  /\ e.ip_of = "c" => e.port_of \in {"", "m"}

\* Where the answer may lead: nowhere but to an address or a text that is not looked up,
\* unless the resolver was asked; to the device itself and to private addresses only as
\* the property says.
GoodTarget(e) ==
  /\ e \in Endpoint /\ e.ip # ""
  /\ e.ip \in {"name", "localhost"} => e.looked_up
  /\ e.ip = "self" => e.looked_up \/ (e.ip_of = "url" /\ publisher.url.base \notin PublicHost)
  /\ publisher.url.base \in PublicHost /\ e.resolves =>
       e.ip \in {"public", "misread"} \/ (e.looked_up /\ e.ip_of # "url")
  /\ SameLine(e)

TargetInv ==
  /\ start_pc = "answer" => LinesInv(target)
  /\ start_pc \in {"configure", "socket", "connect", "requests"} => GoodTarget(target)
  /\ start_pc = "requests" => target.peer = PeerAddress(target.ip)
  /\ start_pc \notin {"answer", "configure", "socket", "connect", "requests"} =>
       target = NoEndpoint

\* The loops of start() stay within their bounds, and so does the key store.
BoundInv ==
  /\ inbox \in Seq(Datagram) /\ Len(inbox) <= InboxSize
  /\ count \in Nat
  /\ start_pc = "answer" => count <= MaxLines
  /\ start_pc = "ice" => count <= MaxPolls
  /\ start_pc \in {"handshake", "cipher_key", "auth_key"} => count <= MaxAttempts
  /\ start_pc \notin {"answer", "ice", "handshake", "cipher_key", "auth_key"} => count = 0
  /\ records \in 0..MaxRecords
  /\ key_store <= KeySlots
  /\ lost \subseteq {"cert", "tls"}

SessionInv == ControlInv /\ ResourceInv /\ TargetInv /\ BoundInv

\* DTLS records in the socket.
DtlsIn(q) == Cardinality({i \in 1..Len(q) : q[i] = "dtls"})

\* How many steps start() has left at most.
Remaining ==
  CASE start_pc = "idle"       -> 0
    [] start_pc = "auth_key"   -> 1
    [] start_pc = "cipher_key" -> 2
    [] start_pc = "handshake"  -> 3 + (MaxAttempts - count) + (MaxRecords - records)
                                    + DtlsIn(inbox)
    [] start_pc = "ice"        -> 4 + (MaxPolls - count) + MaxAttempts + MaxRecords
    [] start_pc = "requests"   -> 5 + MaxPolls + MaxAttempts + MaxRecords
    [] start_pc = "connect"    -> 6 + MaxPolls + MaxAttempts + MaxRecords
    [] start_pc = "socket"     -> 7 + MaxPolls + MaxAttempts + MaxRecords
    [] start_pc = "configure"  -> 8 + MaxPolls + MaxAttempts + MaxRecords
    [] start_pc = "answer"     -> 9 + (MaxLines - count) + MaxPolls + MaxAttempts + MaxRecords
    [] start_pc = "post"       -> 10 + MaxLines + MaxPolls + MaxAttempts + MaxRecords
    [] start_pc = "cert"       -> 11 + MaxLines + MaxPolls + MaxAttempts + MaxRecords

\* start() comes nearer to its end with each of its steps, and nothing else takes it
\* back.
StartAdvances ==
  [][start_pc # "idle" =>
       /\ Remaining' <= Remaining
       /\ StartSession => Remaining' < Remaining]_allVars

\* One more line of the answer.
LEMMA LineRead ==
  ASSUME NEW e, LinesInv(e), NEW l \in Line
  PROVE  LinesInv(ReadLine(e, l))
<1>1. /\ e \in Endpoint /\ e.looked_up = FALSE /\ e.resolves = FALSE /\ e.peer = ""
      /\ l.kind \in {"udp", "udp2", "tcp", "c", "m"}
      /\ l.kind \in {"udp", "udp2", "c"} => l.ip \in Text
  BY DEF LinesInv, Line
<1> USE DEF LinesInv, Endpoint, Address, Text, Ip4
<1>2. CASE l.kind \in {"udp", "udp2"} /\ e.ip \in {"", "self"}
  <2>1. ReadLine(e, l) = [e EXCEPT !.ip = l.ip, !.ip_of = l.kind, !.port_of = l.kind]
    BY <1>2 DEF ReadLine
  <2> QED
    BY <1>1, <1>2, <2>1
<1>3. CASE l.kind = "c" /\ e.ip = ""
  <2>1. ReadLine(e, l) = [e EXCEPT !.ip = l.ip, !.ip_of = "c"]
    BY <1>3 DEF ReadLine
  <2> QED
    BY <1>1, <1>3, <2>1
<1>4. CASE l.kind = "m" /\ e.port_of = ""
  <2>1. ReadLine(e, l) = [e EXCEPT !.port_of = "m"]
    BY <1>4 DEF ReadLine
  <2> QED
    BY <1>1, <1>4, <2>1
<1>5. CASE /\ ~(l.kind \in {"udp", "udp2"} /\ e.ip \in {"", "self"})
           /\ ~(l.kind = "c" /\ e.ip = "")
           /\ ~(l.kind = "m" /\ e.port_of = "")
  BY <1>5 DEF ReadLine
<1> QED
  BY <1>2, <1>3, <1>4, <1>5

\* The end of the answer, look-up by look-up: the URL's host for an address of the device
\* itself, a public address for a private one, an address for a name.
LEMMA TargetFound ==
  ASSUME NEW e, LinesInv(e), NEW host \in HostsOf(publisher.url.base),
         NEW first \in Found, NEW second \in Found
  PROVE  GoodTarget(MediaTarget(e, host, first, second))
<1> DEFINE open == publisher.url.base \in PublicHost
           r1   == LookUp(host, first)
           r2   == LookUp(host, second)
           e1   == OrHost(e, host)
           e2   == Translate(e1, host, r1)
           e3   == ResolveName(e2, second)
           ok   == r1 = "public" /\ (e2.ip_of = "url" => r2 = "public")
<1>1. /\ open => host \in {"name", "public", "misread"}
      /\ ~open => host \in {"self", "private", "localhost"}
      /\ host \in Text
  BY DEF HostsOf, Text, Ip4
<1>2. r1 \in Text /\ (r1 = "localhost" => host = "localhost")
  BY <1>1 DEF LookUp, Found, Text, Ip4
<1>3. host = "name" => (r2 = "public" <=> second = "public")
  BY DEF LookUp, Ip4
<1>4. /\ e1 \in Endpoint /\ e1.ip # ""
      /\ e1.looked_up = FALSE
      /\ e1.ip_of = "url" => e1.ip = host
      /\ e1.ip = "self" => e1.ip_of = "url"
      /\ SameLine(e1)
  <2>1. host \in Address /\ host # ""
    BY <1>1 DEF Address, Text, Ip4
  <2>2. CASE e.ip \in {"", "self"}
    <3>1. e1 = [e EXCEPT !.ip = host, !.ip_of = "url"]
      BY <2>2 DEF OrHost
    <3> QED
      BY <2>1, <3>1 DEF LinesInv, SameLine, Endpoint
  <2>3. CASE e.ip \notin {"", "self"}
    <3>1. e1 = e
      BY <2>3 DEF OrHost
    <3> QED
      BY <2>3, <3>1 DEF LinesInv, SameLine
  <2> QED
    BY <2>2, <2>3
<1> HIDE DEF e1, r1, r2
<1>5. /\ e2 \in Endpoint /\ e2.ip # ""
      /\ e2.looked_up = FALSE
      /\ e2.ip_of = "url" => e2.ip \in {host, r1}
      /\ e2.ip = "self" => e2.ip_of = "url" /\ ~open
      /\ open /\ r1 = "public" => e2.ip \in {"public", "misread", "name"}
      /\ SameLine(e2)
  <2>1. e1.ip = "self" => ~open
    BY <1>1, <1>4
  <2>2. CASE IsPrivate(e1.ip) /\ ~IsPrivate(host) /\ ~IsPrivate(r1)
    <3>1. e2 = [e1 EXCEPT !.ip = r1, !.ip_of = "url"] /\ r1 # "self" /\ r1 # ""
      BY <2>2 DEF Translate, IsPrivate
    <3>2. /\ e2 \in Endpoint /\ e2.ip = r1 /\ e2.ip_of = "url"
          /\ e2.port_of = e1.port_of /\ e2.looked_up = FALSE
      BY <1>2, <1>4, <3>1 DEF Endpoint, Address
    <3> QED
      BY <3>1, <3>2 DEF SameLine
  <2>3. CASE ~(IsPrivate(e1.ip) /\ ~IsPrivate(host) /\ ~IsPrivate(r1))
    <3>1. e2 = e1
      BY <2>3 DEF Translate
    <3>2. open /\ r1 = "public" => e1.ip \in {"public", "misread", "name"}
      BY <1>1, <1>4, <2>3 DEF IsPrivate, Endpoint, Address, Text, Ip4
    <3> QED
      BY <1>4, <2>1, <3>1, <3>2
  <2> QED
    BY <2>2, <2>3
<1> HIDE DEF e2
<1>6. /\ e3 \in Endpoint /\ e3.ip # ""
      /\ e3.ip \in {"name", "localhost"} => e3.looked_up
      /\ e3.ip = "self" => e3.looked_up \/ (e3.ip_of = "url" /\ ~open)
      /\ e3.ip_of = e2.ip_of
      /\ SameLine(e3)
  <2>1. CASE e2.ip \in {"name", "localhost"}
    <3> DEFINE found == LookUp(e2.ip, second)
    <3>1. found \in Text
      BY <2>1 DEF LookUp, Found, Text, Ip4
    <3>2. e3 = [e2 EXCEPT !.ip = found, !.looked_up = TRUE]
      BY <2>1 DEF ResolveName
    <3> HIDE DEF found, e3
    <3>3. found \in Address /\ found # ""
      BY <3>1 DEF Address, Text, Ip4
    <3>4. /\ e3 \in Endpoint /\ e3.ip = found /\ e3.looked_up = TRUE
          /\ e3.ip_of = e2.ip_of /\ e3.port_of = e2.port_of
      BY <1>5, <3>2, <3>3 DEF Endpoint
    <3> QED
      BY <1>5, <3>3, <3>4 DEF SameLine
  <2>2. CASE e2.ip \notin {"name", "localhost"}
    <3>1. e3 = e2
      BY <2>2 DEF ResolveName
    <3> QED
      BY <1>5, <2>2, <3>1
  <2> QED
    BY <2>1, <2>2
<1>7. open /\ ok => e3.ip \in {"public", "misread"} \/ (e3.looked_up /\ e3.ip_of # "url")
  <2> SUFFICES ASSUME open, ok
               PROVE  e3.ip \in {"public", "misread"} \/ (e3.looked_up /\ e3.ip_of # "url")
    OBVIOUS
  <2>1. CASE e2.ip # "name"
    BY <1>5, <2>1 DEF ResolveName
  <2>2. CASE e2.ip = "name"
    <3>1. e3 = [e2 EXCEPT !.ip = LookUp(@, second), !.looked_up = TRUE]
      BY <2>2 DEF ResolveName
    <3>2. CASE e2.ip_of = "url"
      <4>1. host = "name" /\ r2 = "public"
        BY <1>5, <2>2, <3>2
      <4>2. second = "public"
        BY <1>3, <4>1
      <4> QED
        BY <1>5, <2>2, <3>1, <4>2 DEF LookUp, Endpoint, Ip4
    <3>3. CASE e2.ip_of # "url"
      BY <1>5, <3>1, <3>3 DEF Endpoint
    <3> QED
      BY <3>2, <3>3
  <2> QED
    BY <2>1, <2>2
<1> HIDE DEF e3
<1>8. MediaTarget(e, host, first, second) = [e3 EXCEPT !.resolves = ok]
  BY DEF MediaTarget, e3, e2, e1, r1, r2
<1> DEFINE t == [e3 EXCEPT !.resolves = ok]
<1>9. /\ t \in Endpoint /\ t.ip = e3.ip /\ t.ip_of = e3.ip_of /\ t.port_of = e3.port_of
       /\ t.looked_up = e3.looked_up
       /\ t.resolves = ok
  BY <1>6 DEF Endpoint
<1> HIDE DEF t, ok
<1>10. GoodTarget(t)
  BY <1>6, <1>7, <1>9 DEF GoodTarget, SameLine
<1> QED
  BY <1>8, <1>10 DEF t

\* stop() gives back no key that is not there.
LEMMA StoppedFewer == ASSUME NEW s \in Session PROVE Keys(Stopped(s)) <= Keys(s)
<1>1. Stopped(s).cipher_key = TRUE => s.cipher_key = TRUE
  BY StoppedMembers DEF Session
<1>2. Stopped(s).auth_key = TRUE => s.auth_key = TRUE
  BY StoppedMembers DEF Session
<1>3. /\ s.cipher_key \in BOOLEAN /\ s.auth_key \in BOOLEAN
      /\ Stopped(s).cipher_key \in BOOLEAN /\ Stopped(s).auth_key \in BOOLEAN
  BY StoppedMembers DEF Session
<1> QED
  BY <1>1, <1>2, <1>3 DEF Keys

LEMMA DestroyedBounds ==
  ASSUME ResourceInv, BoundInv, NEW s \in Session, DestroyAs(s), Keys(s) = Keys(session)
  PROVE  key_store' <= KeySlots /\ lost' \subseteq {"cert", "tls"}
<1>1. Stopped(s) \in Session
  BY StoppedMembers
<1>2. Keys(s) \in 0..2 /\ Keys(Stopped(s)) \in 0..2
  BY <1>1, KeyCount
<1>3. Keys(Stopped(s)) <= Keys(s)
  BY StoppedFewer
<1>4. key_store' = key_store - (Keys(s) - Keys(Stopped(s)))
  BY DEF DestroyAs
<1>5. key_store \in Nat /\ key_store <= KeySlots /\ KeySlots \in Nat
  BY StoreAssumption DEF ResourceInv, CountInv, BoundInv
<1>6. key_store' <= KeySlots
  BY <1>2, <1>3, <1>4, <1>5
<1>7. lost' \subseteq {"cert", "tls"}
  BY DEF DestroyAs, Remains, BoundInv
<1> QED
  BY <1>6, <1>7

LEMMA EndedStart ==
  ASSUME EndStart, key_store' <= KeySlots, lost' \subseteq {"cert", "tls"}
  PROVE  TargetInv' /\ BoundInv'
<1>1. TargetInv'
  BY DEF EndStart, TargetInv
<1>2. <<>> \in Seq(Datagram) /\ Len(<<>>) = 0
  OBVIOUS
<1>3. InboxSize \in Nat /\ MaxRecords \in Nat
  BY CountAssumption
<1>4. BoundInv'
  BY <1>2, <1>3 DEF EndStart, BoundInv
<1> QED
  BY <1>1, <1>4

LEMMA FailedBounds ==
  ASSUME ResourceInv, BoundInv, NEW s \in Session, FailAs(s), Keys(s) = Keys(session)
  PROVE  TargetInv' /\ BoundInv'
BY DestroyedBounds, EndedStart DEF FailAs

\* A set of numbers that is not empty has a least one.
LEMMA Least ==
  ASSUME NEW S \in SUBSET Nat, S # {}
  PROVE  Min(S) \in S /\ \A i \in S : Min(S) <= i
<1>1. PICK m \in S : \A i \in S : ~(<<i, m>> \in OpToRel(<, Nat))
  BY NatLessThanWellFounded, WFMin
<1>2. ASSUME NEW i \in S PROVE m <= i
  <2>1. <<i, m>> \in Nat \X Nat /\ <<i, m>>[1] = i /\ <<i, m>>[2] = m
    OBVIOUS
  <2>2. ~(i < m)
    BY <1>1, <2>1 DEF OpToRel
  <2> QED
    BY <2>2
<1> QED
  BY <1>2 DEF Min

\* Which datagram dtls_recv returns.
LEMMA FirstFound ==
  ASSUME inbox \in Seq(Datagram)
  PROVE  /\ FirstForDtls \in 0..Len(inbox)
         /\ FirstForDtls = 0 => \A i \in 1..Len(inbox) : inbox[i] # "dtls"
<1> DEFINE I == {i \in 1..Len(inbox) : inbox[i] \in {"dtls", "empty"}}
<1>1. FirstForDtls = IF I # {} THEN Min(I) ELSE 0
  BY DEF FirstForDtls, SelectInSeq
<1>2. Len(inbox) \in Nat
  OBVIOUS
<1>3. I \subseteq Nat
  OBVIOUS
<1>4. CASE I = {}
  BY <1>1, <1>2, <1>4
<1>5. CASE I # {}
  <2>1. Min(I) \in I
    BY <1>3, <1>5, Least
  <2> QED
    BY <1>1, <1>2, <1>5, <2>1
<1> QED
  BY <1>4, <1>5

-----------------------------------------------------------------------------
\* One case per stage of start().
LEMMA TargetStep ==
  ControlInv /\ ResourceInv /\ TargetInv /\ BoundInv /\ [SessionNext]_allVars
    => TargetInv' /\ BoundInv'
<1> SUFFICES ASSUME ControlInv, ResourceInv, TargetInv, BoundInv, [SessionNext]_allVars
             PROVE  TargetInv' /\ BoundInv'
  OBVIOUS
<1>0. /\ session \in Session
      /\ inbox \in Seq(Datagram) /\ Len(inbox) \in Nat /\ Len(inbox) <= InboxSize
      /\ count \in Nat /\ records \in Nat /\ key_store \in Nat
      /\ {MaxLines, MaxPolls, MaxAttempts, InboxSize, MaxRecords, KeySlots} \subseteq Nat
  BY CountAssumption, StoreAssumption DEF ResourceInv, FlagInv, BoundInv, CountInv
<1>a. /\ <<>> \in Seq(Datagram) /\ Len(<<>>) = 0 /\ Len(<<>>) <= InboxSize
      /\ 0 \in Nat /\ 0 <= MaxLines /\ 0 <= MaxPolls /\ 0 <= MaxAttempts
  BY <1>0
<1>b. ASSUME Fail PROVE TargetInv' /\ BoundInv'
  BY <1>0, <1>b, FailedBounds DEF Fail
<1>c. ASSUME UNCHANGED sessionVars, publisher.url.base' = publisher.url.base
      PROVE  TargetInv' /\ BoundInv'
  <2>1. UNCHANGED <<start_pc, target, inbox, count, records, key_store, lost>>
    BY <1>c DEF sessionVars, endVars, resourceVars
  <2>2. LinesInv(target) => LinesInv(target)'
    BY <2>1 DEF LinesInv
  <2>3. GoodTarget(target) => GoodTarget(target)'
    BY <1>c, <2>1 DEF GoodTarget, SameLine
  <2>4. (target.peer = PeerAddress(target.ip)) => (target.peer = PeerAddress(target.ip))'
    BY <2>1 DEF PeerAddress
  <2>5. TargetInv'
    BY <2>1, <2>2, <2>3, <2>4 DEF TargetInv
  <2> QED
    BY <2>1, <2>5 DEF BoundInv
<1>d. telemetry_pc \notin {"start", "connect"} => start_pc = "idle"
  BY DEF ResourceInv, PcInv
<1>e. ASSUME Destroy, UNCHANGED <<start_pc, endVars>>, start_pc = "idle"
      PROVE  TargetInv' /\ BoundInv'
  <2>1. key_store' <= KeySlots /\ lost' \subseteq {"cert", "tls"}
    <3>1. CASE Exists(publisher)
      BY <1>0, <1>e, <3>1, DestroyedBounds DEF Destroy
    <3>2. CASE ~Exists(publisher)
      BY <1>e, <3>2 DEF Destroy, resourceVars, BoundInv
    <3> QED
      BY <3>1, <3>2
  <2> QED
    BY <1>e, <2>1 DEF endVars, TargetInv, BoundInv
<1>1. CASE Apart
  BY <1>1, <1>c DEF Apart, HeartbeatAnswered, HeartbeatFailed, Lock, RotateToken, NextCycle
<1>2. CASE ReplaceSession \/ StopSession
  BY <1>2, <1>d, <1>e DEF ReplaceSession, StopSession, Replace, StopPublisher
<1>3. CASE ConstructSession
  <2>1. start_pc = "idle" /\ start_pc' = "cert" /\ UNCHANGED <<endVars, resourceVars>>
    BY <1>3, <1>d DEF ConstructSession, Construct
  <2> QED
    BY <2>1 DEF endVars, resourceVars, TargetInv, BoundInv
<1>4. CASE GenerateDtlsCert
  <2> DEFINE s == [session EXCEPT !.cert = "set"]
  <2>1. s \in Session /\ Keys(s) = Keys(session)
    BY <1>0 DEF Session, Keys
  <2> HIDE DEF s
  <2>2. CASE FailAs(s)
    BY <2>1, <2>2, FailedBounds
  <2>3. CASE start_pc = "cert" /\ start_pc' = "post" /\ UNCHANGED <<endVars, resourceVars>>
    BY <2>3 DEF endVars, resourceVars, TargetInv, BoundInv
  <2> QED
    BY <1>4, <1>b, <2>2, <2>3 DEF GenerateDtlsCert, GoOn, Starting, s
<1>5. CASE NegotiateSdp
  <2>1. CASE start_pc = "post" /\ start_pc' = "answer" /\ UNCHANGED <<endVars, resourceVars>>
    <3>1. LinesInv(NoEndpoint)
      BY DEF LinesInv, NoEndpoint, Endpoint, Address, Text, Ip4
    <3>2. target = NoEndpoint /\ count = 0
      BY <2>1 DEF TargetInv, BoundInv
    <3>3. TargetInv'
      BY <2>1, <3>1, <3>2 DEF endVars, TargetInv, LinesInv
    <3> QED
      BY <1>a, <2>1, <3>2, <3>3 DEF endVars, resourceVars, BoundInv
  <2> QED
    BY <1>5, <1>b, <2>1 DEF NegotiateSdp, GoOn, Starting
<1>6. CASE ParseSdpAnswer
  <2>1. start_pc = "answer" /\ LinesInv(target) /\ count <= MaxLines
    BY <1>6 DEF ParseSdpAnswer, Starting, TargetInv, BoundInv
  <2>2. ASSUME NEW l \in Line, count < MaxLines,
               target' = ReadLine(target, l), count' = count + 1,
               start_pc' = "answer", UNCHANGED <<inbox, records, resourceVars>>
        PROVE  TargetInv' /\ BoundInv'
    <3>1. LinesInv(target)'
      BY <2>1, <2>2, LineRead DEF LinesInv
    <3> QED
      BY <1>0, <2>2, <3>1 DEF resourceVars, TargetInv, BoundInv
  <2>3. ASSUME NEW host \in HostsOf(publisher.url.base),
               NEW first \in Found, NEW second \in Found,
               target' = MediaTarget(target, host, first, second),
               count' = 0, GoOn("configure"), UNCHANGED <<inbox, records, resourceVars>>
        PROVE  TargetInv' /\ BoundInv'
    <3>1. GoodTarget(target')
      BY <2>1, <2>3, TargetFound
    <3>2. publisher' = publisher /\ start_pc' = "configure"
      BY <2>3 DEF GoOn, vars
    <3>3. TargetInv'
      BY <3>1, <3>2 DEF GoodTarget, SameLine, TargetInv
    <3> QED
      BY <2>3, <3>2, <3>3 DEF resourceVars, BoundInv
  <2> QED
    BY <1>6, <1>b, <2>2, <2>3 DEF ParseSdpAnswer, GoOn
<1>7. CASE ConfigureDtlsSession
  <2>1. ASSUME NEW left \in {"none", "partial"}, FailAs([session EXCEPT !.tls = left])
        PROVE  TargetInv' /\ BoundInv'
    <3> DEFINE s == [session EXCEPT !.tls = left]
    <3>1. s \in Session /\ Keys(s) = Keys(session)
      BY <1>0 DEF Session, Keys
    <3>2. FailAs(s)
      BY <2>1
    <3> HIDE DEF s
    <3> QED
      BY <3>1, <3>2, FailedBounds
  <2>2. CASE /\ start_pc = "configure" /\ start_pc' = "socket"
             /\ UNCHANGED <<publisher, endVars, resourceVars>>
    BY <2>2 DEF endVars, resourceVars, TargetInv, BoundInv, GoodTarget, SameLine
  <2> QED
    BY <1>7, <2>1, <2>2 DEF ConfigureDtlsSession, GoOn, Starting, vars
<1>8. CASE CreateSocket
  <2>1. CASE /\ start_pc = "socket" /\ start_pc' = "connect" /\ OpenSocket
             /\ UNCHANGED <<endVars, resourceVars>>
    <3>1. publisher' = [publisher EXCEPT !.phase = "connecting"] /\ publisher \in Publisher
      BY <1>8, <2>1, StartingExists, NonePhase DEF CreateSocket, OpenSocket, ControlInv
    <3>2. publisher'.url = publisher.url
      BY <3>1 DEF Publisher
    <3> QED
      BY <2>1, <3>2 DEF endVars, resourceVars, TargetInv, BoundInv, GoodTarget, SameLine
  <2> QED
    BY <1>8, <1>b, <2>1 DEF CreateSocket, Starting
<1>9. CASE Connect
  <2>1. CASE /\ start_pc = "connect" /\ start_pc' = "requests"
             /\ target' = [target EXCEPT !.peer = PeerAddress(target.ip)]
             /\ UNCHANGED <<publisher, inbox, count, records, resourceVars>>
    <3>1. GoodTarget(target)
      BY <2>1 DEF TargetInv
    <3>2. PeerAddress(target.ip) \in Ip4
      BY DEF PeerAddress, Ip4
    <3>3. /\ target' \in Endpoint /\ target'.peer = PeerAddress(target.ip)
          /\ target'.ip = target.ip /\ target'.ip_of = target.ip_of
          /\ target'.port_of = target.port_of
          /\ target'.looked_up = target.looked_up /\ target'.resolves = target.resolves
      BY <2>1, <3>1, <3>2 DEF GoodTarget, Endpoint
    <3>4. GoodTarget(target)'
      BY <2>1, <3>1, <3>3 DEF GoodTarget, SameLine
    <3>5. (target.peer = PeerAddress(target.ip))'
      BY <3>3 DEF PeerAddress
    <3>6. TargetInv'
      BY <2>1, <3>4, <3>5 DEF TargetInv
    <3> QED
      BY <2>1, <3>6 DEF resourceVars, BoundInv
  <2> QED
    BY <1>9, <1>b, <2>1 DEF Connect, GoOn, Starting, vars
<1>20. CASE SendRequests
  <2>1. /\ start_pc = "requests" /\ start_pc' = "ice" /\ target' = NoEndpoint
        /\ UNCHANGED <<inbox, count, records, resourceVars>>
    BY <1>20 DEF SendRequests, GoOn, Starting
  <2> QED
    BY <1>0, <2>1 DEF resourceVars, TargetInv, BoundInv
<1>10. CASE DoIceBinding
  <2>1. start_pc = "ice" /\ target' = target /\ target = NoEndpoint /\ count <= MaxPolls
        /\ UNCHANGED <<records, resourceVars>>
    BY <1>10 DEF DoIceBinding, Starting, TargetInv, BoundInv
  <2>2. CASE /\ count < MaxPolls /\ count' = count + 1 /\ start_pc' = "ice"
             /\ inbox' = IF inbox = <<>> THEN inbox ELSE Tail(inbox)
    <3>1. inbox' \in Seq(Datagram) /\ Len(inbox') <= InboxSize
      BY <1>0, <2>2
    <3> QED
      BY <1>0, <2>1, <2>2, <3>1 DEF resourceVars, TargetInv, BoundInv
  <2>3. CASE start_pc' = "handshake" /\ inbox' = <<>> /\ count' = 0
    BY <1>0, <1>a, <2>1, <2>3 DEF resourceVars, TargetInv, BoundInv
  <2> QED
    BY <1>10, <2>2, <2>3 DEF DoIceBinding, GoOn
<1>11. CASE HandshakeWaits
  <2>1. CASE /\ start_pc = "handshake" /\ start_pc' = "handshake" /\ count # MaxAttempts
             /\ count' = count + 1 /\ inbox' = <<>>
             /\ UNCHANGED <<target, records, resourceVars>>
    BY <1>0, <1>a, <2>1 DEF resourceVars, TargetInv, BoundInv
  <2> QED
    BY <1>11, <1>b, <2>1 DEF HandshakeWaits, Attempt, GoOn, Starting
<1>12. CASE HandshakeFails
  BY <1>12, <1>b DEF HandshakeFails
<1>13. CASE HandshakeReceives
  <2>1. /\ start_pc = "handshake" /\ start_pc' \in {"handshake", "cipher_key"}
        /\ UNCHANGED <<target, count, records, resourceVars>>
    BY <1>13 DEF HandshakeReceives, GoOn, Starting
  <2>2. FirstForDtls \in 1..Len(inbox)
    <3>1. FirstForDtls # 0
      BY <1>13 DEF HandshakeReceives
    <3>2. FirstForDtls \in 0..Len(inbox)
      BY <1>0, FirstFound
    <3> QED
      BY <1>0, <3>1, <3>2
  <2>3. inbox' = SubSeq(inbox, FirstForDtls + 1, Len(inbox))
    BY <1>13 DEF HandshakeReceives
  <2>4. inbox' \in Seq(Datagram) /\ Len(inbox') <= InboxSize
    BY <1>0, <2>2, <2>3
  <2> QED
    BY <2>1, <2>4 DEF resourceVars, TargetInv, BoundInv
<1>14. CASE ImportCipherKey
  <2>1. CASE /\ start_pc = "cipher_key" /\ start_pc' = "auth_key"
             /\ key_store < KeySlots /\ key_store' = key_store + 1
             /\ UNCHANGED <<endVars, lost>>
    BY <1>0, <2>1 DEF endVars, TargetInv, BoundInv
  <2> QED
    BY <1>14, <1>b, <2>1 DEF ImportCipherKey, MayImport, GoOn, Starting
<1>15. CASE ImportAuthKey
  <2>1. CASE FailAs(session)
    BY <1>0, <2>1, FailedBounds
  <2>2. CASE EndStart /\ key_store < KeySlots /\ key_store' = key_store + 1 /\ lost' = lost
    BY <1>0, <2>2, EndedStart DEF BoundInv
  <2> QED
    BY <1>15, <2>1, <2>2 DEF ImportAuthKey, MayImport
<1>16. ASSUME NEW d \in Datagram, Arrive(d) PROVE TargetInv' /\ BoundInv'
  <2>1. /\ start_pc \in {"ice", "handshake"} /\ Len(inbox) < InboxSize
        /\ inbox' = Append(inbox, d)
        /\ UNCHANGED <<publisher, start_pc, target, count, resourceVars>>
    BY <1>16 DEF Arrive, vars
  <2>2. records' \in 0..MaxRecords
    BY <1>0, <1>16 DEF Arrive, BoundInv
  <2>3. inbox' \in Seq(Datagram) /\ Len(inbox') <= InboxSize
    BY <1>0, <2>1
  <2> QED
    BY <2>1, <2>2, <2>3 DEF resourceVars, TargetInv, BoundInv
<1>17. CASE TryLock /\ UNCHANGED sessionVars
  BY <1>17, <1>c DEF TryLock
<1>18. CASE PushStep
  <2>1. UNCHANGED sessionVars
    BY <1>18 DEF PushStep
  <2>2. CASE UNCHANGED publisher
    BY <1>c, <2>1, <2>2
  <2>3. CASE publisher.phase = "live" /\ publisher' = [publisher EXCEPT !.phase = "error"]
    <3>1. publisher \in Publisher
      BY <2>3, NonePhase DEF ControlInv
    <3>2. publisher'.url = publisher.url
      BY <2>3, <3>1 DEF Publisher
    <3> QED
      BY <1>c, <2>1, <3>2
  <2> QED
    BY <1>18, <2>2, <2>3 DEF PushStep, PushFrame
<1>19. CASE UNCHANGED allVars
  BY <1>19, <1>c DEF allVars, vars
<1> QED
  BY <1>1, <1>2, <1>3, <1>4, <1>5, <1>6, <1>7, <1>8, <1>9, <1>10, <1>11, <1>12, <1>13,
     <1>14, <1>15, <1>16, <1>17, <1>18, <1>19, <1>20
  DEF SessionNext, SessionTask, StartSession

LEMMA TargetInit == SessionInit => TargetInv /\ BoundInv
<1> SUFFICES ASSUME SessionInit PROVE TargetInv /\ BoundInv
  OBVIOUS
<1>1. TargetInv
  BY DEF SessionInit, TargetInv
<1>2. /\ <<>> \in Seq(Datagram) /\ Len(<<>>) = 0
      /\ {InboxSize, MaxRecords, KeySlots} \subseteq Nat
  BY CountAssumption, StoreAssumption
<1>3. BoundInv
  BY <1>2 DEF SessionInit, BoundInv
<1> QED
  BY <1>1, <1>3

LEMMA StartInvariant == SessionSpec => []SessionInv
<1>1. SessionInit => TargetInv /\ BoundInv
  BY TargetInit
<1> QED
  BY <1>1, SessionInvariant, TargetStep, PTL DEF SessionSpec, SessionInv

\* For answers of any number of lines in any order, whatever addresses and names they
\* bring, and whatever the two look-ups find or fail to find: the address the socket is
\* connected to, as inet_pton leaves it, is one of the device itself only for the causes
\* named, that of a server with a public name but for two exceptions, and has its port
\* from its own line.
THEOREM MediaAlwaysGoesToServer == SessionSpec => []MediaGoesToServer
<1>1. ASSUME SessionInv, start_pc = "requests" PROVE MediaGoesToServer
  <2>1. GoodTarget(target) /\ target.peer = PeerAddress(target.ip)
    BY <1>1 DEF SessionInv, TargetInv
  <2>2. /\ target.peer = "self" =>
             target.ip \in {"self", "misread"} \/ target.ip \in {"name", "localhost"}
        /\ target.ip = "public" => target.peer = "public"
    BY <2>1 DEF GoodTarget, PeerAddress, Endpoint, Address, Text, Ip4
  <2> QED
    BY <2>1, <2>2 DEF GoodTarget, SameLine, MediaGoesToServer
<1>2. SessionInv => MediaGoesToServer
  BY <1>1 DEF MediaGoesToServer
<1> QED
  BY <1>2, StartInvariant, PTL

\* Every variable keeps its type: above all the loops of start() their bounds and the
\* key store its size.
THEOREM SessionTypeCorrect == SessionSpec => []SessionTypeOK
<1>1. ASSUME SessionInv PROVE SessionTypeOK
  <2>1. TypeOK /\ start_pc \in StartPc /\ session \in Session
    BY <1>1 DEF SessionInv, ControlInv, ResourceInv, PcInv, FlagInv
  <2>2. target \in Endpoint
    <3>1. NoEndpoint \in Endpoint
      BY DEF NoEndpoint, Endpoint, Address, Text, Ip4
    <3> QED
      BY <1>1, <3>1 DEF SessionInv, TargetInv, LinesInv, GoodTarget
  <2>3. count \in 0..(MaxLines + MaxPolls + MaxAttempts)
    <3>1. MaxLines \in Nat /\ MaxPolls \in Nat /\ MaxAttempts \in Nat
      BY CountAssumption
    <3>2. /\ count \in Nat
          /\ count <= MaxLines \/ count <= MaxPolls \/ count <= MaxAttempts
      BY <1>1, <3>1 DEF SessionInv, BoundInv
    <3> QED
      BY <3>1, <3>2
  <2>4. key_store \in 0..KeySlots /\ auth_failures \in 0..KeySlots
    <3>1. Keys(session) \in 0..2
      BY <2>1, KeyCount
    <3>2. key_store \in Nat /\ auth_failures \in Nat /\ key_store <= KeySlots
      BY <1>1 DEF SessionInv, ResourceInv, CountInv, BoundInv
    <3>3. key_store = Keys(session) + auth_failures /\ KeySlots \in Nat
      BY <1>1, StoreAssumption DEF SessionInv, ResourceInv, KeysOwned
    <3> QED
      BY <3>1, <3>2, <3>3
  <2> QED
    BY <1>1, <2>1, <2>2, <2>3, <2>4 DEF SessionTypeOK, SessionInv, BoundInv
<1> QED
  BY <1>1, StartInvariant, PTL

-----------------------------------------------------------------------------
(***************************************************************************)
(* start() returns: every loop of it has its own bound, and what the       *)
(* server sends only takes it nearer to the end.                           *)
(***************************************************************************)
LEMMA DtlsCounted ==
  ASSUME NEW q \in Seq(Datagram)
  PROVE  IsFiniteSet({i \in 1..Len(q) : q[i] = "dtls"}) /\ DtlsIn(q) \in Nat
<1> DEFINE I == {i \in 1..Len(q) : q[i] = "dtls"}
<1>1. IsFiniteSet(1..Len(q))
  BY FS_Interval
<1>2. IsFiniteSet(I)
  BY <1>1, FS_Subset
<1>3. Cardinality(I) \in Nat
  BY <1>2, FS_CardinalityType
<1> QED
  BY <1>2, <1>3 DEF DtlsIn

\* A datagram that arrives.
LEMMA DtlsAppended ==
  ASSUME NEW q \in Seq(Datagram), NEW d \in Datagram
  PROVE  DtlsIn(Append(q, d)) = DtlsIn(q) + (IF d = "dtls" THEN 1 ELSE 0)
<1> DEFINE I == {i \in 1..Len(q) : q[i] = "dtls"}
           J == {i \in 1..Len(Append(q, d)) : Append(q, d)[i] = "dtls"}
<1>1. /\ Len(q) \in Nat /\ Len(Append(q, d)) = Len(q) + 1
      /\ \A i \in 1..Len(q) : Append(q, d)[i] = q[i]
      /\ Append(q, d)[Len(q) + 1] = d
  OBVIOUS
<1>2. 1..(Len(q) + 1) = (1..Len(q)) \cup {Len(q) + 1} /\ Len(q) + 1 \notin I
  BY <1>1
<1>3. J = I \cup (IF d = "dtls" THEN {Len(q) + 1} ELSE {})
  BY <1>1, <1>2
<1>4. IsFiniteSet(I) /\ Cardinality(I) \in Nat
  BY DtlsCounted DEF DtlsIn
<1> HIDE DEF I, J
<1>5. Cardinality(J) = Cardinality(I) + (IF d = "dtls" THEN 1 ELSE 0)
  <2>1. CASE d = "dtls"
    BY <1>2, <1>3, <1>4, <2>1, FS_AddElement
  <2>2. CASE d # "dtls"
    BY <1>3, <1>4, <2>2
  <2> QED
    BY <2>1, <2>2
<1> QED
  BY <1>5 DEF DtlsIn, I, J

\* A record that is taken, with what was before it.
LEMMA DtlsTaken ==
  ASSUME NEW q \in Seq(Datagram), NEW k \in 1..Len(q), q[k] = "dtls"
  PROVE  DtlsIn(SubSeq(q, k + 1, Len(q))) < DtlsIn(q)
<1> DEFINE r == SubSeq(q, k + 1, Len(q))
           I == {i \in 1..Len(q) : q[i] = "dtls"}
           J == {i \in 1..Len(r) : r[i] = "dtls"}
           f == [i \in J |-> i + k]
<1>1. Len(q) \in Nat /\ k \in Nat /\ k <= Len(q)
  OBVIOUS
<1>2. r \in Seq(Datagram) /\ Len(r) = Len(q) - k
  BY <1>1
<1>3. \A i \in 1..Len(r) : r[i] = q[i + k]
  BY <1>1, <1>2
<1> HIDE DEF r
<1>4. f \in Injection(J, I \ {k})
  <2>1. ASSUME NEW i \in J PROVE f[i] = i + k /\ f[i] \in I \ {k}
    <3>1. i \in 1..Len(r) /\ q[i + k] = "dtls"
      BY <1>3
    <3>2. i + k \in 1..Len(q) /\ i + k # k
      BY <1>1, <1>2, <3>1
    <3> QED
      BY <3>1, <3>2
  <2>2. f \in [J -> I \ {k}]
    BY <2>1
  <2>3. ASSUME NEW i \in J, NEW j \in J, f[i] = f[j] PROVE i = j
    BY <1>1, <2>1, <2>3
  <2> QED
    BY <2>2, <2>3 DEF Injection, IsInjective
<1>5. IsFiniteSet(I) /\ Cardinality(I) \in Nat /\ k \in I
  BY DtlsCounted DEF DtlsIn
<1>6. Cardinality(J) \in Nat
  BY <1>2, DtlsCounted DEF DtlsIn
<1> HIDE DEF I, J, f
<1>7. IsFiniteSet(I \ {k}) /\ Cardinality(I \ {k}) = Cardinality(I) - 1
  BY <1>5, FS_RemoveElement
<1>8. Cardinality(J) <= Cardinality(I \ {k})
  BY <1>4, <1>7, FS_Injection
<1>9. Cardinality(J) < Cardinality(I)
  BY <1>5, <1>6, <1>7, <1>8
<1> QED
  BY <1>9 DEF DtlsIn, I, J, r

\* Remaining, stage by stage: a later stage has less of it than any state of an earlier.
LEMMA RemainingAt ==
  ASSUME SessionInv
  PROVE  /\ start_pc = "idle" => Remaining = 0
         /\ start_pc = "auth_key" => Remaining = 1
         /\ start_pc = "cipher_key" => Remaining = 2
         /\ start_pc = "handshake" =>
              /\ Remaining = 3 + (MaxAttempts - count) + (MaxRecords - records)
                               + DtlsIn(inbox)
              /\ Remaining >= 3
         /\ start_pc = "ice" =>
              /\ Remaining = 4 + (MaxPolls - count) + MaxAttempts + MaxRecords
              /\ Remaining >= 4 + MaxAttempts + MaxRecords
         /\ start_pc = "requests" => Remaining = 5 + MaxPolls + MaxAttempts + MaxRecords
         /\ start_pc = "connect" => Remaining = 6 + MaxPolls + MaxAttempts + MaxRecords
         /\ start_pc = "socket" => Remaining = 7 + MaxPolls + MaxAttempts + MaxRecords
         /\ start_pc = "configure" => Remaining = 8 + MaxPolls + MaxAttempts + MaxRecords
         /\ start_pc = "answer" =>
              /\ Remaining = 9 + (MaxLines - count) + MaxPolls + MaxAttempts + MaxRecords
              /\ Remaining >= 9 + MaxPolls + MaxAttempts + MaxRecords
         /\ start_pc = "post" =>
              Remaining = 10 + MaxLines + MaxPolls + MaxAttempts + MaxRecords
         /\ start_pc = "cert" =>
              Remaining = 11 + MaxLines + MaxPolls + MaxAttempts + MaxRecords
<1>1. /\ MaxLines \in Nat /\ MaxPolls \in Nat /\ MaxAttempts \in Nat /\ MaxRecords \in Nat
      /\ count \in Nat /\ records \in 0..MaxRecords
      /\ start_pc = "answer" => count <= MaxLines
      /\ start_pc = "ice" => count <= MaxPolls
      /\ start_pc = "handshake" => count <= MaxAttempts
  BY CountAssumption DEF SessionInv, BoundInv
<1>2. DtlsIn(inbox) \in Nat
  BY DtlsCounted DEF SessionInv, BoundInv
<1>3. CASE start_pc \in {"idle", "auth_key", "cipher_key"}
  BY <1>3 DEF Remaining
<1>4. CASE start_pc = "handshake"
  <2>1. Remaining = 3 + (MaxAttempts - count) + (MaxRecords - records) + DtlsIn(inbox)
    BY <1>4 DEF Remaining
  <2> QED
    BY <1>1, <1>2, <1>4, <2>1
<1>5. CASE start_pc = "ice"
  <2>1. Remaining = 4 + (MaxPolls - count) + MaxAttempts + MaxRecords
    BY <1>5 DEF Remaining
  <2> QED
    BY <1>1, <1>5, <2>1
<1>6. CASE start_pc \in {"requests", "connect", "socket", "configure"}
  BY <1>1, <1>6 DEF Remaining
<1>7. CASE start_pc = "answer"
  <2>1. Remaining = 9 + (MaxLines - count) + MaxPolls + MaxAttempts + MaxRecords
    BY <1>7 DEF Remaining
  <2> QED
    BY <1>1, <1>7, <2>1
<1>8. CASE start_pc \in {"post", "cert"}
  BY <1>1, <1>8 DEF Remaining
<1> QED
  BY <1>3, <1>4, <1>5, <1>6, <1>7, <1>8

LEMMA RemainingNat == SessionInv => Remaining \in Nat
<1> SUFFICES ASSUME SessionInv PROVE Remaining \in Nat
  OBVIOUS
<1>1. /\ MaxLines \in Nat /\ MaxPolls \in Nat /\ MaxAttempts \in Nat /\ MaxRecords \in Nat
      /\ count \in Nat /\ records \in 0..MaxRecords
      /\ start_pc = "answer" => count <= MaxLines
      /\ start_pc = "ice" => count <= MaxPolls
      /\ start_pc = "handshake" => count <= MaxAttempts
      /\ start_pc \in StartPc
  BY CountAssumption DEF SessionInv, BoundInv, ResourceInv, PcInv
<1>2. DtlsIn(inbox) \in Nat
  BY DtlsCounted DEF SessionInv, BoundInv
<1>3. CASE start_pc \in {"idle", "auth_key", "cipher_key"}
  BY <1>3, RemainingAt
<1>4. CASE start_pc \in {"handshake", "ice", "answer"}
  BY <1>1, <1>2, <1>4, RemainingAt
<1>5. CASE start_pc \in {"requests", "connect", "socket", "configure", "post", "cert"}
  BY <1>1, <1>5, RemainingAt
<1> QED
  BY <1>1, <1>3, <1>4, <1>5 DEF StartPc

LEMMA RemainingPositive ==
  ASSUME SessionInv, start_pc # "idle"
  PROVE  Remaining \in Nat /\ Remaining > 0
<1>1. Remaining \in Nat
  BY RemainingNat
<1>2. /\ MaxLines \in Nat /\ MaxPolls \in Nat /\ MaxAttempts \in Nat /\ MaxRecords \in Nat
      /\ start_pc \in StartPc
  BY CountAssumption DEF SessionInv, ResourceInv, PcInv
<1>3. CASE start_pc \in {"auth_key", "cipher_key", "handshake"}
  BY <1>1, <1>3, RemainingAt
<1>4. CASE start_pc \in {"ice", "answer"}
  BY <1>1, <1>2, <1>4, RemainingAt
<1>5. CASE start_pc \in {"requests", "connect", "socket", "configure", "post", "cert"}
  BY <1>1, <1>2, <1>5, RemainingAt
<1> QED
  BY <1>1, <1>2, <1>3, <1>4, <1>5 DEF StartPc

LEMMA AdvanceStep ==
  SessionInv /\ SessionInv' /\ Remaining' \in Nat /\ [SessionNext]_allVars /\ start_pc # "idle"
    => /\ Remaining' <= Remaining
       /\ StartSession => Remaining' < Remaining
<1> SUFFICES ASSUME SessionInv, SessionInv', Remaining' \in Nat,
                    [SessionNext]_allVars, start_pc # "idle"
             PROVE  /\ Remaining' <= Remaining
                    /\ StartSession => Remaining' < Remaining
  OBVIOUS
<1>0. /\ MaxLines \in Nat /\ MaxPolls \in Nat /\ MaxAttempts \in Nat /\ MaxRecords \in Nat
      /\ count \in Nat /\ records \in 0..MaxRecords /\ records' \in 0..MaxRecords
      /\ inbox \in Seq(Datagram) /\ inbox' \in Seq(Datagram)
      /\ start_pc \in StartPc
  BY CountAssumption DEF SessionInv, BoundInv, ResourceInv, PcInv
<1>1. /\ DtlsIn(inbox) \in Nat /\ DtlsIn(inbox') \in Nat /\ DtlsIn(<<>>) = 0
  <2>1. {i \in 1..Len(<<>>) : <<>>[i] = "dtls"} = {}
    OBVIOUS
  <2>2. DtlsIn(<<>>) = 0
    BY <2>1, FS_EmptySet DEF DtlsIn
  <2> QED
    BY <1>0, <2>2, DtlsCounted
<1>2. Remaining \in Nat /\ Remaining > 0
  BY RemainingPositive
<1>3. ASSUME start_pc' = "idle" PROVE Remaining' < Remaining
  <2>1. Remaining' = 0
    BY <1>3 DEF Remaining
  <2> QED
    BY <1>2, <2>1
<1>4. ASSUME NEW s, FailAs(s) PROVE Remaining' < Remaining
  BY <1>3, <1>4 DEF FailAs, EndStart
<1>5. ASSUME UNCHANGED <<start_pc, count, records, inbox>>
      PROVE  Remaining' <= Remaining
  <2>1. Remaining' = Remaining
    BY <1>5 DEF Remaining, DtlsIn
  <2> QED
    BY <1>2, <2>1
<1>6. ASSUME StartSession PROVE Remaining' < Remaining
  <2>1. CASE ConstructSession
    <3>1. telemetry_pc = "construct"
      BY <2>1 DEF ConstructSession, Construct
    <3> QED
      BY <3>1 DEF SessionInv, ResourceInv, PcInv
  <2>2. CASE GenerateDtlsCert
    <3>1. CASE start_pc = "cert" /\ start_pc' = "post"
      <4>1. Remaining' = 10 + MaxLines + MaxPolls + MaxAttempts + MaxRecords
        BY <3>1 DEF Remaining
      <4>2. Remaining = 11 + MaxLines + MaxPolls + MaxAttempts + MaxRecords
        BY <3>1, RemainingAt
      <4> QED
        BY <1>0, <4>1, <4>2
    <3> QED
      BY <1>4, <2>2, <3>1 DEF GenerateDtlsCert, Starting, GoOn, Fail
  <2>3. CASE NegotiateSdp
    <3>1. CASE start_pc = "post" /\ start_pc' = "answer" /\ count' = count
      <4>1. count = 0
        BY <3>1 DEF SessionInv, BoundInv
      <4>2. Remaining' = 9 + (MaxLines - count) + MaxPolls + MaxAttempts + MaxRecords
        BY <3>1 DEF Remaining
      <4>3. Remaining = 10 + MaxLines + MaxPolls + MaxAttempts + MaxRecords
        BY <3>1, RemainingAt
      <4> QED
        BY <1>0, <4>1, <4>2, <4>3
    <3> QED
      BY <1>4, <2>3, <3>1 DEF NegotiateSdp, Starting, GoOn, Fail, endVars
  <2>4. CASE ParseSdpAnswer
    <3>1. CASE start_pc = "answer" /\ start_pc' = "answer" /\ count' = count + 1
      <4>1. Remaining' = 9 + (MaxLines - (count + 1)) + MaxPolls + MaxAttempts + MaxRecords
        BY <3>1 DEF Remaining
      <4>2. Remaining = 9 + (MaxLines - count) + MaxPolls + MaxAttempts + MaxRecords
        BY <3>1 DEF Remaining
      <4> QED
        BY <1>0, <4>1, <4>2
    <3>2. CASE start_pc = "answer" /\ start_pc' = "configure"
      <4>1. count <= MaxLines
        BY <3>2 DEF SessionInv, BoundInv
      <4>2. Remaining' = 8 + MaxPolls + MaxAttempts + MaxRecords
        BY <3>2 DEF Remaining
      <4>3. Remaining = 9 + (MaxLines - count) + MaxPolls + MaxAttempts + MaxRecords
        BY <3>2 DEF Remaining
      <4> QED
        BY <1>0, <4>1, <4>2, <4>3
    <3> QED
      BY <1>4, <2>4, <3>1, <3>2 DEF ParseSdpAnswer, Starting, GoOn, Fail
  <2>5. CASE ConfigureDtlsSession
    <3>1. CASE start_pc = "configure" /\ start_pc' = "socket"
      <4>1. Remaining' = 7 + MaxPolls + MaxAttempts + MaxRecords
        BY <3>1 DEF Remaining
      <4>2. Remaining = 8 + MaxPolls + MaxAttempts + MaxRecords
        BY <3>1, RemainingAt
      <4> QED
        BY <1>0, <4>1, <4>2
    <3> QED
      BY <1>4, <2>5, <3>1 DEF ConfigureDtlsSession, Starting, GoOn
  <2>6. CASE CreateSocket
    <3>1. CASE start_pc = "socket" /\ start_pc' = "connect"
      <4>1. Remaining' = 6 + MaxPolls + MaxAttempts + MaxRecords
        BY <3>1 DEF Remaining
      <4>2. Remaining = 7 + MaxPolls + MaxAttempts + MaxRecords
        BY <3>1, RemainingAt
      <4> QED
        BY <1>0, <4>1, <4>2
    <3> QED
      BY <1>4, <2>6, <3>1 DEF CreateSocket, Starting, Fail
  <2>7. CASE Connect
    <3>1. CASE start_pc = "connect" /\ start_pc' = "requests"
      <4>1. Remaining' = 5 + MaxPolls + MaxAttempts + MaxRecords
        BY <3>1 DEF Remaining
      <4>2. Remaining = 6 + MaxPolls + MaxAttempts + MaxRecords
        BY <3>1, RemainingAt
      <4> QED
        BY <1>0, <4>1, <4>2
    <3> QED
      BY <1>4, <2>7, <3>1 DEF Connect, Starting, GoOn, Fail
  <2>14. CASE SendRequests
    <3>1. start_pc = "requests" /\ start_pc' = "ice" /\ count' = count
      BY <2>14 DEF SendRequests, Starting, GoOn
    <3>2. count = 0
      BY <3>1 DEF SessionInv, BoundInv
    <3>3. Remaining' = 4 + (MaxPolls - count) + MaxAttempts + MaxRecords
      BY <3>1 DEF Remaining
    <3>4. Remaining = 5 + MaxPolls + MaxAttempts + MaxRecords
      BY <3>1, RemainingAt
    <3> QED
      BY <1>0, <3>2, <3>3, <3>4
  <2>8. CASE DoIceBinding
    <3>1. CASE start_pc = "ice" /\ start_pc' = "ice" /\ count' = count + 1
      <4>1. Remaining' = 4 + (MaxPolls - (count + 1)) + MaxAttempts + MaxRecords
        BY <3>1 DEF Remaining
      <4>2. Remaining = 4 + (MaxPolls - count) + MaxAttempts + MaxRecords
        BY <3>1 DEF Remaining
      <4> QED
        BY <1>0, <4>1, <4>2
    <3>2. CASE start_pc = "ice" /\ start_pc' = "handshake" /\ count' = 0 /\ inbox' = <<>>
      <4>0. Remaining' = 3 + (MaxAttempts - 0) + (MaxRecords - records') + DtlsIn(<<>>)
        BY <3>2 DEF Remaining
      <4>1. Remaining' = 3 + MaxAttempts + (MaxRecords - records')
        BY <1>0, <1>1, <4>0
      <4>2. Remaining >= 4 + MaxAttempts + MaxRecords
        BY <3>2, RemainingAt
      <4>3. \A r \in 0..MaxRecords :
              3 + MaxAttempts + (MaxRecords - r) < 4 + MaxAttempts + MaxRecords
        BY <1>0
      <4>4. 4 + MaxAttempts + MaxRecords \in Nat
        BY <1>0
      <4>5. Remaining' < 4 + MaxAttempts + MaxRecords
        BY <1>0, <4>1, <4>3
      <4> QED
        BY <1>2, <4>2, <4>4, <4>5
    <3> QED
      BY <2>8, <3>1, <3>2 DEF DoIceBinding, Starting, GoOn
  <2>9. CASE HandshakeWaits
    <3>1. CASE /\ start_pc = "handshake" /\ start_pc' = "handshake"
               /\ count' = count + 1 /\ inbox' = <<>> /\ records' = records
      <4>1. Remaining' = 3 + (MaxAttempts - (count + 1)) + (MaxRecords - records)
                           + DtlsIn(<<>>)
        BY <3>1 DEF Remaining
      <4>2. Remaining = 3 + (MaxAttempts - count) + (MaxRecords - records) + DtlsIn(inbox)
        BY <3>1, RemainingAt
      <4> QED
        BY <1>0, <1>1, <4>1, <4>2
    <3> QED
      BY <1>4, <2>9, <3>1 DEF HandshakeWaits, Attempt, Starting, GoOn, Fail
  <2>10. CASE HandshakeFails
    BY <1>4, <2>10 DEF HandshakeFails, Fail
  <2>11. CASE HandshakeReceives
    <3>1. CASE start_pc = "handshake" /\ start_pc' = "cipher_key"
      <4>1. Remaining' = 2
        BY <3>1 DEF Remaining
      <4>2. Remaining >= 3
        BY <3>1, RemainingAt
      <4> QED
        BY <1>2, <4>1, <4>2
    <3>2. CASE start_pc = "handshake" /\ start_pc' = "handshake"
      <4>1. FirstForDtls \in 1..Len(inbox)
        <5>1. FirstForDtls # 0
          BY <2>11 DEF HandshakeReceives
        <5>2. FirstForDtls \in 0..Len(inbox) /\ Len(inbox) \in Nat
          BY <1>0, FirstFound
        <5> QED
          BY <5>1, <5>2
      <4>2. /\ inbox[FirstForDtls] = "dtls"
            /\ inbox' = SubSeq(inbox, FirstForDtls + 1, Len(inbox))
            /\ UNCHANGED <<count, records>>
        BY <2>11 DEF HandshakeReceives
      <4>3. DtlsIn(inbox') < DtlsIn(inbox)
        BY <1>0, <4>1, <4>2, DtlsTaken
      <4>4. Remaining' = 3 + (MaxAttempts - count) + (MaxRecords - records) + DtlsIn(inbox')
        BY <3>2, <4>2 DEF Remaining
      <4>5. Remaining = 3 + (MaxAttempts - count) + (MaxRecords - records) + DtlsIn(inbox)
        BY <3>2, RemainingAt
      <4> QED
        BY <1>0, <1>1, <4>3, <4>4, <4>5
    <3> QED
      BY <2>11, <3>1, <3>2 DEF HandshakeReceives, Starting, GoOn
  <2>12. CASE ImportCipherKey
    <3>1. CASE start_pc = "cipher_key" /\ start_pc' = "auth_key"
      BY <3>1 DEF Remaining
    <3> QED
      BY <1>4, <2>12, <3>1 DEF ImportCipherKey, Starting, GoOn, Fail
  <2>13. CASE ImportAuthKey
    BY <1>3, <2>13 DEF ImportAuthKey, FailAs, EndStart
  <2> QED
    BY <1>6, <2>1, <2>2, <2>3, <2>4, <2>5, <2>6, <2>7, <2>8, <2>9, <2>10, <2>11, <2>12,
       <2>13, <2>14
    DEF StartSession
<1>7. ASSUME NEW d \in Datagram, Arrive(d) PROVE Remaining' <= Remaining
  <2>1. /\ start_pc \in {"ice", "handshake"} /\ UNCHANGED <<start_pc, count>>
        /\ inbox' = Append(inbox, d)
        /\ records' = records + (IF d = "dtls" THEN 1 ELSE 0)
    BY <1>0, <1>7 DEF Arrive
  <2>2. CASE start_pc = "ice"
    <3>1. Remaining' = Remaining
      BY <2>1, <2>2 DEF Remaining
    <3> QED
      BY <1>2, <3>1
  <2>3. CASE start_pc = "handshake"
    <3>1. DtlsIn(inbox') = DtlsIn(inbox) + (IF d = "dtls" THEN 1 ELSE 0)
      BY <1>0, <2>1, DtlsAppended
    <3>2. Remaining' = 3 + (MaxAttempts - count) + (MaxRecords - records') + DtlsIn(inbox')
      BY <2>1, <2>3 DEF Remaining
    <3>3. Remaining = 3 + (MaxAttempts - count) + (MaxRecords - records) + DtlsIn(inbox)
      BY <2>3, RemainingAt
    <3> QED
      BY <1>0, <1>1, <2>1, <3>1, <3>2, <3>3
  <2> QED
    BY <2>1, <2>2, <2>3
<1>8. ASSUME ~StartSession PROVE Remaining' <= Remaining
  <2>1. CASE Apart \/ (TryLock /\ UNCHANGED sessionVars) \/ PushStep
    BY <1>5, <2>1 DEF Apart, PushStep, sessionVars, endVars
  <2>2. CASE ReplaceSession \/ StopSession
    BY <1>5, <2>2 DEF ReplaceSession, StopSession, endVars
  <2>3. CASE UNCHANGED allVars
    BY <1>5, <2>3 DEF allVars, sessionVars, endVars
  <2> QED
    BY <1>7, <1>8, <2>1, <2>2, <2>3 DEF SessionNext, SessionTask
<1>9. Remaining' <= Remaining
  BY <1>2, <1>6, <1>8
<1> QED
  BY <1>6, <1>9

LEMMA RemainingInvariant == SessionSpec => [](SessionInv /\ Remaining \in Nat)
BY StartInvariant, RemainingNat, PTL

\* Whatever the server sends or leaves unsent, each step of start() takes it nearer to
\* its end, and what arrives meanwhile does not take it back: it returns after at most
\* eleven steps and one for each line, poll, attempt and record.
THEOREM StartAlwaysAdvances == SessionSpec => StartAdvances
<1> DEFINE Now == SessionInv /\ Remaining \in Nat
<1>1. SessionSpec => []Now /\ [][SessionNext]_allVars
  BY RemainingInvariant, PTL DEF SessionSpec
<1>2. Now /\ Now' /\ [SessionNext]_allVars =>
        [start_pc # "idle" => /\ Remaining' <= Remaining
                              /\ StartSession => Remaining' < Remaining]_allVars
  BY AdvanceStep
<1> HIDE DEF Now
<1> QED
  BY <1>1, <1>2, PTL DEF StartAdvances

MostSteps == 11 + MaxLines + MaxPolls + MaxAttempts + MaxRecords

\* The number of those steps is bounded by the bounds of the loops alone.
THEOREM StartAlwaysBounded == SessionSpec => [](Remaining <= MostSteps)
<1> DEFINE Now == SessionInv /\ Remaining \in Nat
<1>1. SessionSpec => []Now /\ [][SessionNext]_allVars
  BY RemainingInvariant, PTL DEF SessionSpec
<1>2. MostSteps \in Nat
  BY CountAssumption DEF MostSteps
<1>3. SessionInit => Remaining <= MostSteps
  BY <1>2 DEF SessionInit, Remaining
<1>4. Now /\ Now' /\ Remaining <= MostSteps /\ [SessionNext]_allVars
        => (Remaining <= MostSteps)'
  <2> SUFFICES ASSUME Now, Now', Remaining <= MostSteps, [SessionNext]_allVars
               PROVE  Remaining' <= MostSteps
    BY DEF MostSteps
  <2>1. CASE start_pc # "idle"
    <3>1. Remaining' <= Remaining
      BY <2>1, AdvanceStep
    <3> QED
      BY <1>2, <3>1
  <2>2. CASE start_pc' = "idle"
    BY <1>2, <2>2 DEF Remaining
  <2>3. CASE start_pc' = "cert"
    BY <1>2, <2>3 DEF Remaining, MostSteps
  <2>4. start_pc = "idle" => start_pc' \in {"idle", "cert"}
    <3>1. SUFFICES ASSUME start_pc = "idle" PROVE start_pc' \in {"idle", "cert"}
      OBVIOUS
    <3>2. CASE ConstructSession
      BY <3>2 DEF ConstructSession
    <3>3. CASE UNCHANGED start_pc
      BY <3>1, <3>3
    <3> QED
      BY <3>1, <3>2, <3>3
      DEF SessionNext, SessionTask, StartSession, Apart, ReplaceSession, StopSession,
          GenerateDtlsCert, NegotiateSdp, ParseSdpAnswer, ConfigureDtlsSession,
          CreateSocket, Connect, SendRequests, DoIceBinding, HandshakeWaits, HandshakeFails,
          HandshakeReceives, ImportCipherKey, ImportAuthKey, Starting, Arrive, PushStep,
          allVars, sessionVars
  <2> QED
    BY <2>1, <2>2, <2>3, <2>4
<1> HIDE DEF Now
<1> QED
  BY <1>1, <1>3, <1>4, PTL DEF SessionSpec

=============================================================================
