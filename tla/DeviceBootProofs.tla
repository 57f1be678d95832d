-------------------------- MODULE DeviceBootProofs --------------------------
(***************************************************************************)
(* For every sequence of resets, failed downloads and failed self-tests,   *)
(* with Device::start in one piece or from inside: the device keeps an     *)
(* image it can run, what it reports and commits is true, and, for every   *)
(* bound on waits, setbacks and queued events, connected_ follows the      *)
(* network, and start(), the self-test and the way back to the network     *)
(* take a bounded number of steps, of which the next can always be taken.  *)
(***************************************************************************)
EXTENDS DeviceBoot, TLAPS

\* What the bootloader has started can be run, and was not given up.
RunningInv ==
  boot_pc # "reset" =>
    /\ image[running] = "whole"
    /\ verdict[running] \in {"valid", "pending"}
    /\ boot_pc # "run" => ota_pc = "heartbeat" /\ status = "idle"

\* The slot that does not run is overwritten only by a committed image.
DownloadInv ==
  boot_pc = "run" /\ ota_pc \in {"download", "complete", "finish", "report"} =>
    verdict[running] = "valid"

\* A fresh image is the one selected; while a program runs it is the one just installed.
FreshInv ==
  \A s \in Slot : verdict[s] = "new" =>
    /\ latest = s
    /\ image[s] = "whole"
    /\ boot_pc # "reset" => s # running /\ boot_pc = "run" /\ ota_pc = "report"

\* Success is the end of an update, and of this run of the program.
SuccessInv ==
  boot_pc = "run" =>
    /\ status = "success" => ota_pc = "report"
    /\ ota_pc = "report" =>
         latest = Other(running) /\ image[latest] = "whole" /\ verdict[latest] = "new"

\* The checks are passed one after the other.
PassedInv ==
  /\ boot_pc \in {"start", "camera"} => passed = {}
  /\ boot_pc = "network" => passed = {"camera"}
  /\ boot_pc = "backend" => passed = {"camera", "network"}
  /\ boot_pc = "verdict" => passed = Check

UpdateInv ==
  /\ TypeOK
  /\ OneCommittedImage
  /\ RunningInv
  /\ DownloadInv
  /\ FreshInv
  /\ SuccessInv
  /\ PassedInv

-----------------------------------------------------------------------------
LEMMA TwoSlots ==
  ASSUME NEW s \in Slot
  PROVE  /\ Other(s) \in Slot
         /\ Other(s) # s
         /\ \A t \in Slot : t = s \/ t = Other(s)
<1>1. Other("ota_0") = "ota_1" /\ Other("ota_1") = "ota_0"
  BY DEF Other, Slot
<1> QED
  BY <1>1 DEF Slot

LEMMA UpdateInit == Init => UpdateInv
<1> SUFFICES ASSUME Init PROVE UpdateInv
  OBVIOUS
<1>1. TypeOK
  BY DEF Init, TypeOK, Slot, BootPc
<1>2. OneCommittedImage
  BY DEF Init, OneCommittedImage, Slot
<1> QED
  BY <1>1, <1>2
  DEF Init, UpdateInv, RunningInv, DownloadInv, FreshInv, SuccessInv, PassedInv, Slot

\* The bootloader finds an image, and a fresh one above all.
LEMMA BootloaderStep ==
  ASSUME UpdateInv, Bootloader
  PROVE  UpdateInv'
<1>1. latest \in Slot /\ image \in [Slot -> {"none", "partial", "whole"}]
      /\ verdict \in [Slot -> {"none", "new", "pending", "valid", "bad"}]
  BY DEF UpdateInv, TypeOK
<1>2. running' \in Slot /\ Bootable(running')
  <2>1. CASE Bootable(latest)
    BY <1>1, <2>1 DEF Bootloader
  <2>2. CASE ~Bootable(latest)
    <3>1. running' = Other(latest) /\ Other(latest) \in Slot
      BY <1>1, <2>2, TwoSlots DEF Bootloader
    <3>2. Bootable(Other(latest))
      BY <1>1, <2>2, TwoSlots DEF UpdateInv, OneCommittedImage, Bootable
    <3> QED
      BY <3>1, <3>2
  <2> QED
    BY <2>1, <2>2
<1>3. \A s \in Slot : /\ verdict[s] = "pending" => verdict'[s] = "bad"
                      /\ s = running' /\ verdict[s] = "new" => verdict'[s] = "pending"
                      /\ verdict[s] # "pending" /\ ~(s = running' /\ verdict[s] = "new")
                           => verdict'[s] = verdict[s]
  BY <1>1 DEF Bootloader
<1>4. verdict' \in [Slot -> {"none", "new", "pending", "valid", "bad"}]
  BY <1>1 DEF Bootloader
<1>5. /\ boot_pc' = "start" /\ passed' = {} /\ ota_pc' = "heartbeat" /\ status' = "idle"
      /\ received' = FALSE /\ UNCHANGED <<image, latest>>
  BY DEF Bootloader
<1>6. TypeOK'
  BY <1>1, <1>2, <1>4, <1>5 DEF UpdateInv, TypeOK, BootPc
<1>7. OneCommittedImage'
  <2>1. PICK s \in Slot : image[s] = "whole" /\ verdict[s] = "valid"
    BY DEF UpdateInv, OneCommittedImage
  <2>2. image'[s] = "whole" /\ verdict'[s] = "valid"
    BY <1>3, <1>5, <2>1
  <2> QED
    BY <2>2 DEF OneCommittedImage
<1>8. RunningInv'
  BY <1>2, <1>3, <1>5 DEF RunningInv, Bootable
<1>9. \A s \in Slot : verdict'[s] # "new"
  <2> SUFFICES ASSUME NEW s \in Slot, verdict[s] = "new" PROVE verdict'[s] # "new"
    BY <1>3
  <2>1. Bootable(latest) /\ s = latest
    BY DEF UpdateInv, FreshInv, Bootable
  <2>2. s = running'
    BY <2>1 DEF Bootloader
  <2> QED
    BY <1>3, <2>2
<1> QED
  BY <1>5, <1>6, <1>7, <1>8, <1>9
  DEF UpdateInv, DownloadInv, FreshInv, SuccessInv, PassedInv

\* A step after which the flash is as before, and the program goes on or is reset.
LEMMA FlashKept ==
  ASSUME UpdateInv, boot_pc # "reset", UNCHANGED <<flashVars, running>>,
         boot_pc' \in BootPc, passed' \in SUBSET Check, PassedInv',
         \/ boot_pc' = "reset" /\ UNCHANGED otaVars
         \/ boot_pc # "run" /\ UNCHANGED otaVars
  PROVE  UpdateInv'
<1>1. TypeOK'
  BY DEF UpdateInv, TypeOK, flashVars, otaVars
<1>2. OneCommittedImage'
  BY DEF UpdateInv, OneCommittedImage, flashVars
<1>3. boot_pc # "run" => \A s \in Slot : verdict[s] # "new"
  BY DEF UpdateInv, FreshInv
<1>4. RunningInv' /\ FreshInv'
  BY <1>3 DEF UpdateInv, RunningInv, FreshInv, flashVars, otaVars
<1>5. DownloadInv' /\ SuccessInv'
  BY DEF UpdateInv, RunningInv, DownloadInv, SuccessInv, flashVars, otaVars
<1> QED
  BY <1>1, <1>2, <1>4, <1>5 DEF UpdateInv

\* A step of the update that leaves the flash as it is.
LEMMA UpdateKept ==
  ASSUME UpdateInv, boot_pc = "run", ota_pc # "report", UNCHANGED <<flashVars, bootVars>>,
         ota_pc' \in {"heartbeat", "check", "begin", "perform", "download",
                      "complete", "finish"},
         ota_pc \in {"download", "complete", "finish"}
           \/ ota_pc' \notin {"download", "complete", "finish"},
         status' \in {"idle", "downloading", "installing", "failed"},
         received' \in BOOLEAN
  PROVE  UpdateInv'
<1>1. TypeOK'
  BY DEF UpdateInv, TypeOK, flashVars, bootVars
<1>2. OneCommittedImage'
  BY DEF UpdateInv, OneCommittedImage, flashVars
<1>3. \A s \in Slot : verdict[s] # "new"
  BY DEF UpdateInv, FreshInv
<1>4. RunningInv' /\ FreshInv' /\ PassedInv'
  BY <1>3 DEF UpdateInv, RunningInv, FreshInv, PassedInv, flashVars, bootVars
<1>5. DownloadInv' /\ SuccessInv'
  BY DEF UpdateInv, DownloadInv, SuccessInv, flashVars, bootVars
<1> QED
  BY <1>1, <1>2, <1>4, <1>5 DEF UpdateInv

LEMMA UpdateStep == UpdateInv /\ [Next]_vars => UpdateInv'
<1> SUFFICES ASSUME UpdateInv, [Next]_vars PROVE UpdateInv'
  OBVIOUS
<1>0. /\ running \in Slot /\ latest \in Slot
      /\ image \in [Slot -> {"none", "partial", "whole"}]
      /\ verdict \in [Slot -> {"none", "new", "pending", "valid", "bad"}]
      /\ status \in {"idle", "downloading", "installing", "success", "failed"}
      /\ received \in BOOLEAN /\ passed \in SUBSET Check
      /\ Other(running) \in Slot /\ Other(running) # running
      /\ \A t \in Slot : t = running \/ t = Other(running)
  BY TwoSlots DEF UpdateInv, TypeOK
<1>1. CASE Bootloader
  BY <1>1, BootloaderStep
<1>2. CASE Reset \/ StorageMode \/ StartFails \/ StartReachesSelfTest
  BY <1>0, <1>2, FlashKept
  DEF Reset, StorageMode, StartFails, StartReachesSelfTest, BootPc, Check, UpdateInv,
      PassedInv
<1>3. ASSUME NEW c \in Check, SelfTestCheck(c) PROVE UpdateInv'
  <2>1. boot_pc' \in BootPc /\ passed' \in SUBSET Check /\ PassedInv' /\ boot_pc # "reset"
        /\ boot_pc # "run"
    BY <1>0, <1>3 DEF SelfTestCheck, NextCheck, BootPc, Check, UpdateInv, PassedInv
  <2> QED
    BY <1>3, <2>1, FlashKept DEF SelfTestCheck
<1>4. CASE SelfTestPassed
  <2>1. /\ boot_pc = "verdict" /\ boot_pc' = "run" /\ ota_pc = "heartbeat"
        /\ status = "idle" /\ image[running] = "whole"
    BY <1>4 DEF SelfTestPassed, UpdateInv, RunningInv
  <2>2. verdict' = [verdict EXCEPT ![running] = "valid"]
    BY <1>4 DEF SelfTestPassed
  <2>3. \A s \in Slot : verdict[s] # "new"
    BY <2>1 DEF UpdateInv, FreshInv
  <2>4. /\ verdict'[running] = "valid"
        /\ \A s \in Slot : verdict'[s] # "new"
        /\ verdict' \in [Slot -> {"none", "new", "pending", "valid", "bad"}]
    BY <1>0, <2>2, <2>3
  <2>5. TypeOK' /\ OneCommittedImage'
    BY <1>0, <1>4, <2>1, <2>4
    DEF SelfTestPassed, UpdateInv, TypeOK, OneCommittedImage, BootPc, otaVars
  <2> QED
    BY <1>4, <2>1, <2>4, <2>5
    DEF SelfTestPassed, UpdateInv, RunningInv, DownloadInv, FreshInv, SuccessInv,
        PassedInv, otaVars
<1>5. CASE SelfTestFailed
  <2>1. boot_pc = "failed" /\ ota_pc = "heartbeat" /\ status = "idle"
    BY <1>5 DEF SelfTestFailed, UpdateInv, RunningInv
  <2>2. \A s \in Slot : verdict[s] # "new"
    BY <2>1 DEF UpdateInv, FreshInv
  <2>3. CASE RollbackPossible
    <3>1. /\ verdict' = [verdict EXCEPT ![running] = "bad"] /\ boot_pc' = "reset"
          /\ UNCHANGED <<image, latest, running, passed, otaVars>>
      BY <1>5, <2>3 DEF SelfTestFailed
    <3>2. image[Other(running)] = "whole" /\ verdict[Other(running)] = "valid"
      BY <1>0, <2>2, <2>3 DEF RollbackPossible, Bootable
    <3>3. /\ verdict'[Other(running)] = "valid"
          /\ \A s \in Slot : verdict'[s] # "new"
          /\ verdict' \in [Slot -> {"none", "new", "pending", "valid", "bad"}]
      BY <1>0, <2>2, <3>1, <3>2
    <3>4. TypeOK' /\ OneCommittedImage'
      BY <1>0, <3>1, <3>2, <3>3
      DEF UpdateInv, TypeOK, OneCommittedImage, BootPc, otaVars
    <3> QED
      BY <3>1, <3>3, <3>4
      DEF UpdateInv, RunningInv, DownloadInv, FreshInv, SuccessInv, PassedInv
  <2>4. CASE ~RollbackPossible
    BY <1>0, <1>5, <2>1, <2>4, FlashKept
    DEF SelfTestFailed, UpdateInv, PassedInv, BootPc, flashVars
  <2> QED
    BY <2>3, <2>4
<1>6. CASE UpdateOffered \/ CheckForUpdate \/ Begin
  BY <1>0, <1>6, UpdateKept
  DEF UpdateOffered, CheckForUpdate, Begin, OtaStep, ApplyFails, UpdateInv, SuccessInv
<1>7. CASE PerformFirst
  <2>1. /\ boot_pc = "run" /\ ota_pc = "perform" /\ status # "success"
        /\ UNCHANGED <<bootVars, verdict, latest, received>>
    BY <1>7 DEF PerformFirst, OtaStep, UpdateInv, SuccessInv
  <2>2. CASE ApplyFails /\ UNCHANGED image
    BY <1>0, <2>1, <2>2, UpdateKept DEF ApplyFails, flashVars
  <2>3. CASE /\ verdict[running] # "pending"
             /\ image' = [image EXCEPT ![Other(running)] = "partial"]
             /\ ota_pc' = "download"
             /\ UNCHANGED status
    <3>1. image[running] = "whole" /\ verdict[running] = "valid"
      BY <2>1, <2>3 DEF UpdateInv, RunningInv
    <3>2. \A s \in Slot : verdict[s] # "new"
      BY <2>1 DEF UpdateInv, FreshInv
    <3>3. image'[running] = "whole" /\ image' \in [Slot -> {"none", "partial", "whole"}]
      BY <1>0, <2>3, <3>1
    <3>4. TypeOK' /\ OneCommittedImage'
      BY <1>0, <2>1, <2>3, <3>1, <3>3
      DEF UpdateInv, TypeOK, OneCommittedImage, bootVars
    <3> QED
      BY <2>1, <2>3, <3>1, <3>2, <3>3, <3>4
      DEF UpdateInv, RunningInv, DownloadInv, FreshInv, SuccessInv, PassedInv, bootVars
  <2> QED
    BY <1>7, <2>2, <2>3 DEF PerformFirst
<1>8. CASE PerformRest \/ CheckComplete
  BY <1>0, <1>8, UpdateKept
  DEF PerformRest, CheckComplete, OtaStep, ApplyFails, UpdateInv, SuccessInv
<1>9. CASE Finish
  <2>1. /\ boot_pc = "run" /\ ota_pc = "finish" /\ UNCHANGED <<bootVars, received>>
    BY <1>9 DEF Finish, OtaStep
  <2>2. CASE ApplyFails /\ UNCHANGED flashVars
    BY <1>0, <2>1, <2>2, UpdateKept DEF ApplyFails
  <2>3. CASE Install(Other(running)) /\ status' = "success" /\ ota_pc' = "report"
    <3>1. image[running] = "whole" /\ verdict[running] = "valid"
      BY <2>1 DEF UpdateInv, RunningInv, DownloadInv
    <3>2. \A s \in Slot : verdict[s] # "new"
      BY <2>1 DEF UpdateInv, FreshInv
    <3>3. /\ image'[running] = "whole" /\ verdict'[running] = "valid"
          /\ image'[Other(running)] = "whole" /\ verdict'[Other(running)] = "new"
          /\ latest' = Other(running)
          /\ image' \in [Slot -> {"none", "partial", "whole"}]
          /\ verdict' \in [Slot -> {"none", "new", "pending", "valid", "bad"}]
      BY <1>0, <2>3, <3>1 DEF Install
    <3>4. UNCHANGED <<running, boot_pc, passed, received>>
      BY <2>1 DEF bootVars
    <3>5. TypeOK' /\ OneCommittedImage'
      BY <1>0, <2>1, <2>3, <3>3, <3>4 DEF UpdateInv, TypeOK, OneCommittedImage
    <3>6. FreshInv'
      BY <1>0, <2>1, <2>3, <3>3, <3>4 DEF FreshInv
    <3> QED
      BY <2>1, <2>3, <3>3, <3>4, <3>5, <3>6
      DEF UpdateInv, RunningInv, DownloadInv, SuccessInv, PassedInv
  <2> QED
    BY <1>9, <2>2, <2>3 DEF Finish
<1>10. CASE ReportAndRestart
  BY <1>0, <1>10, FlashKept DEF ReportAndRestart, BootPc, UpdateInv, PassedInv
<1>11. CASE UNCHANGED vars
  BY <1>11
  DEF vars, flashVars, bootVars, otaVars, UpdateInv, TypeOK, OneCommittedImage,
      RunningInv, DownloadInv, FreshInv, SuccessInv, PassedInv
<1> QED
  BY <1>1, <1>2, <1>3, <1>4, <1>5, <1>6, <1>7, <1>8, <1>9, <1>10, <1>11
  DEF Next, MainTask, TelemetryTask, Update

LEMMA UpdateInvariant == Spec => []UpdateInv
<1> QED
  BY UpdateInit, UpdateStep, PTL DEF Spec

\* The only step that commits an image comes after the three checks.
LEMMA CommitStep ==
  ASSUME UpdateInv, [Next]_vars, NEW s \in Slot, verdict[s] # "valid", verdict'[s] = "valid"
  PROVE  passed = Check
<1>0. running \in Slot /\ verdict \in [Slot -> {"none", "new", "pending", "valid", "bad"}]
  BY DEF UpdateInv, TypeOK
<1>1. CASE Bootloader
  BY <1>0, <1>1 DEF Bootloader
<1>2. CASE SelfTestPassed
  BY <1>2 DEF SelfTestPassed, UpdateInv, PassedInv
<1>3. CASE SelfTestFailed
  BY <1>0, <1>3 DEF SelfTestFailed
<1>4. CASE Finish
  BY <1>0, <1>4 DEF Finish, Install, flashVars
<1>5. CASE UNCHANGED verdict
  BY <1>5
<1> QED
  BY <1>1, <1>2, <1>3, <1>4, <1>5
  DEF Next, MainTask, TelemetryTask, Update, Reset, StorageMode, StartFails,
      StartReachesSelfTest, SelfTestCheck, UpdateOffered, CheckForUpdate, Begin,
      PerformFirst, PerformRest, CheckComplete, ReportAndRestart, OtaStep, vars, flashVars

-----------------------------------------------------------------------------
\* Every step of start(), of the network and of the self-test from inside is one of
\* FirmwareUpdate's or is not seen by it.
LEMMA BootStepSimulates == [BootNext]_bootVarsAll => [Next]_vars
<1> SUFFICES ASSUME [BootNext]_bootVarsAll PROVE [Next]_vars
  OBVIOUS
<1> USE DEF Next, MainTask, TelemetryTask
<1>1. CASE Boot \/ PowerLoss
  BY <1>1 DEF Boot, PowerLoss
<1>2. CASE MainAppTask
  <2>1. CASE SelectMode \/ HandleStorageMode \/ ReadFactoryData \/ InitNvs
    BY <2>1
    DEF SelectMode, HandleStorageMode, EnableTinyUsb, ReadFactoryData, InitNvs, Stops,
        GoTo, PowerLoss
  <2>2. CASE InitWifi \/ InitEthernet \/ MountCard
    BY <2>2 DEF InitWifi, InitEthernet, MountCard, Stops, GoTo, PowerLoss
  <2>3. ASSUME NEW s, Initialise(s) PROVE [Next]_vars
    BY <2>3 DEF Initialise, Stops, GoTo
  <2>4. CASE BeginSelfTest \/ WaitForNetwork \/ Decide
    BY <2>4 DEF BeginSelfTest, WaitForNetwork, Decide
  <2>5. CASE TestCamera \/ TestNetwork \/ TestBackend
    BY <2>5 DEF TestCamera, TestNetwork, TestBackend, Check
  <2> QED
    BY <1>2, <2>1, <2>2, <2>3, <2>4, <2>5 DEF MainAppTask, InitCamera
<1>3. CASE LinkUp \/ AddressAssigned \/ LinkDown \/ AddressLost
  BY <1>3 DEF LinkUp, AddressAssigned, LinkDown, AddressLost, NetworkStep
<1>4. CASE HandleEvent \/ TelemetryBegins
  BY <1>4 DEF HandleEvent, TelemetryBegins
<1>5. CASE Offered \/ Updating
  BY <1>5 DEF Offered, Updating
<1>6. CASE UNCHANGED bootVarsAll
  BY <1>6 DEF bootVarsAll
<1> QED
  BY <1>1, <1>2, <1>3, <1>4, <1>5, <1>6 DEF BootNext

\* Device::start from inside, with the network, implements FirmwareUpdate, but for its
\* fairness: whatever the network and the SD card do, the image's fate is one
\* FirmwareUpdate describes.
THEOREM BootRefinesUpdate == BootSpec => Init /\ [][Next]_vars
<1>1. BootInit => Init
  BY DEF BootInit
<1> QED
  BY <1>1, BootStepSimulates, PTL DEF BootSpec

LEMMA BootUpdateInvariant == BootSpec => []UpdateInv
<1> QED
  BY BootRefinesUpdate, UpdateInit, UpdateStep, PTL

\* Whatever resets, failed downloads and failed self-tests happen, the device keeps a
\* committed image: it cannot brick itself.
THEOREM NeverBricked == BootSpec => []OneCommittedImage
<1>1. UpdateInv => OneCommittedImage
  BY DEF UpdateInv
<1> QED
  BY <1>1, BootUpdateInvariant, PTL

\* A reported success is one: the next reset boots the new image.
THEOREM SuccessIsTrue == BootSpec => []SuccessIsInstalled
<1>1. UpdateInv => SuccessIsInstalled
  BY DEF UpdateInv, SuccessInv, SuccessIsInstalled
<1> QED
  BY <1>1, BootUpdateInvariant, PTL

\* An image is committed only after camera, network and backend were found working since
\* the last reset.
THEOREM OnlyTestedCommitted == BootSpec => CommittedIsTested
<1> DEFINE Committed ==
      \A s \in Slot : verdict[s] # "valid" /\ verdict'[s] = "valid" => passed = Check
<1>1. UpdateInv /\ [Next]_vars => [Committed]_vars
  BY CommitStep
<1>2. BootSpec => [][Committed]_vars
  BY <1>1, BootRefinesUpdate, BootUpdateInvariant, PTL
<1> QED
  BY <1>2 DEF CommittedIsTested

-----------------------------------------------------------------------------
Early == {"mode", "factory", "nvs", "network"}

\* Before the network is started nothing is posted.
EarlyInv ==
  /\ stage \in Early => link = "off"
  /\ link = "off" => events = <<>> /\ connected = FALSE

\* After a lost Wi-Fi link nothing happens until its handler connects anew.
WifiInv ==
  network = "wifi" =>
    \A i \in 1..Len(events) :
      events[i] = "disconnected" => i = Len(events) /\ link = "down"

LinkInv == BootTypeOK /\ EarlyInv /\ WifiInv /\ ConnectedFollows

LEMMA LinkInit == BootInit => LinkInv
<1> SUFFICES ASSUME BootInit PROVE LinkInv
  OBVIOUS
<1>1. TypeOK
  BY UpdateInit DEF BootInit, UpdateInv
<1>2. MaxWaits \in Nat /\ MaxSetbacks \in Nat /\ EventQueue \in Nat
  BY BootAssumption
<1>3. <<>> \in Seq(Event) /\ Len(<<>>) = 0
  OBVIOUS
<1>4. events \in Seq(Event) /\ Len(events) = 0
  BY <1>3 DEF BootInit
<1>5. BootTypeOK
  <2>1. setbacks \in 0..MaxSetbacks /\ waits \in 0..MaxWaits /\ Len(events) <= EventQueue
    BY <1>2, <1>4 DEF BootInit
  <2>2. stage \in Stage /\ link \in Link
    BY DEF BootInit, Stage, Link
  <2> QED
    BY <1>1, <1>4, <2>1, <2>2 DEF BootInit, BootTypeOK
<1> QED
  BY <1>4, <1>5 DEF BootInit, LinkInv, EarlyInv, WifiInv, ConnectedFollows

\* What the last event says is what the link is.
LEMMA PostedLast ==
  ASSUME NEW q \in Seq(Event), NEW e \in Event
  PROVE  /\ Append(q, e) \in Seq(Event)
         /\ Len(Append(q, e)) = Len(q) + 1
         /\ Append(q, e) # <<>>
         /\ Last(Append(q, e)) = e
         /\ \A i \in 1..Len(q) : Append(q, e)[i] = q[i]
         /\ Append(q, e)[Len(q) + 1] = e
BY DEF Last

LEMMA HandledFirst ==
  ASSUME NEW q \in Seq(Event), q # <<>>
  PROVE  /\ Tail(q) \in Seq(Event)
         /\ Len(Tail(q)) = Len(q) - 1
         /\ Len(q) \in Nat \ {0}
         /\ Head(q) = q[1] /\ Head(q) \in Event
         /\ \A i \in 1..Len(Tail(q)) : Tail(q)[i] = q[i + 1]
         /\ Tail(q) # <<>> => Last(Tail(q)) = Last(q)
         /\ Tail(q) = <<>> => Len(q) = 1 /\ Last(q) = Head(q)
<1>1. Len(q) \in Nat \ {0} /\ Tail(q) \in Seq(Event) /\ Len(Tail(q)) = Len(q) - 1
      /\ Head(q) = q[1] /\ Head(q) \in Event
  OBVIOUS
<1>2. \A i \in 1..Len(Tail(q)) : Tail(q)[i] = q[i + 1]
  OBVIOUS
<1>3. Tail(q) # <<>> => Last(Tail(q)) = Last(q)
  <2> SUFFICES ASSUME Tail(q) # <<>> PROVE Tail(q)[Len(Tail(q))] = q[Len(q)]
    BY DEF Last
  <2>1. Len(Tail(q)) \in 1..Len(Tail(q)) /\ Len(Tail(q)) + 1 = Len(q)
    BY <1>1
  <2> QED
    BY <1>2, <2>1
<1>4. Tail(q) = <<>> => Len(q) = 1 /\ Last(q) = Head(q)
  <2>0. \A t : t = <<>> => Len(t) = 0
    OBVIOUS
  <2>1. Tail(q) = <<>> => Len(Tail(q)) = 0
    BY ONLY <2>0
  <2>2. Len(q) = 1 => q[Len(q)] = Head(q)
    BY <1>1
  <2> QED
    BY <1>1, <2>1, <2>2 DEF Last
<1> QED
  BY <1>1, <1>2, <1>3, <1>4

\* A step that the network does not see.
LEMMA NetworkKept ==
  ASSUME LinkInv, TypeOK', UNCHANGED <<network, networkVars>>,
         stage' \in Stage, stage' \in Early => stage \in Early,
         waits' \in 0..MaxWaits, waited' \in BOOLEAN, online' \in BOOLEAN
  PROVE  LinkInv'
<1>1. BootTypeOK'
  BY DEF LinkInv, BootTypeOK, networkVars, linkVars
<1>2. EarlyInv' /\ WifiInv' /\ ConnectedFollows'
  BY DEF LinkInv, EarlyInv, WifiInv, ConnectedFollows, networkVars, linkVars
<1> QED
  BY <1>1, <1>2 DEF LinkInv

\* A step of the network: only the link and what is posted change.
LEMMA NetworkTypes ==
  ASSUME LinkInv, TypeOK', UNCHANGED <<network, stage, waitVars>>,
         link # "off", link' \in Link \ {"off"}, connected' \in BOOLEAN, refused' \in BOOLEAN,
         setbacks' \in 0..MaxSetbacks,
         events' \in Seq(Event), Len(events') <= EventQueue
  PROVE  BootTypeOK' /\ EarlyInv'
BY DEF LinkInv, BootTypeOK, EarlyInv, waitVars

LEMMA LinkStep == LinkInv /\ TypeOK' /\ [BootNext]_bootVarsAll => LinkInv'
<1> SUFFICES ASSUME LinkInv, TypeOK', [BootNext]_bootVarsAll PROVE LinkInv'
  OBVIOUS
<1>0. /\ network \in {"wifi", "ethernet"} /\ stage \in Stage /\ link \in Link
      /\ connected \in BOOLEAN /\ refused \in BOOLEAN
      /\ setbacks \in 0..MaxSetbacks /\ waits \in 0..MaxWaits
      /\ waited \in BOOLEAN /\ online \in BOOLEAN
      /\ events \in Seq(Event) /\ Len(events) <= EventQueue
  BY DEF LinkInv, BootTypeOK
<1>1. MaxWaits \in Nat /\ MaxSetbacks \in Nat /\ EventQueue \in Nat
  BY BootAssumption
<1>2. CASE Boot
  <2>1. <<>> \in Seq(Event) /\ Len(<<>>) = 0
    OBVIOUS
  <2>2. events' = <<>> /\ events' \in Seq(Event) /\ Len(events') = 0
    BY <1>2, <2>1 DEF Boot
  <2>3. setbacks' \in 0..MaxSetbacks /\ waits' \in 0..MaxWaits
    BY <1>1, <1>2 DEF Boot
  <2>4. stage' \in Stage /\ link' \in Link /\ Len(events') <= EventQueue
    BY <1>1, <1>2, <2>2 DEF Boot, Stage, Link
  <2>5. BootTypeOK'
    BY <1>0, <1>2, <2>2, <2>3, <2>4 DEF Boot, BootTypeOK
  <2> QED
    BY <1>2, <2>2, <2>5 DEF Boot, LinkInv, EarlyInv, WifiInv, ConnectedFollows
<1>3. ASSUME UNCHANGED <<network, networkVars, waitVars>>,
             stage' = stage
               \/ (stage \in Early \ {"network"} /\ stage' \in Early \cup {"usb"})
               \/ stage' \in Stage \ Early
      PROVE  LinkInv'
  <2>1. stage' \in Stage /\ (stage' \in Early => stage \in Early)
    BY <1>0, <1>3 DEF Early, Stage
  <2>2. waits' \in 0..MaxWaits /\ waited' \in BOOLEAN /\ online' \in BOOLEAN
    BY <1>0, <1>3 DEF waitVars
  <2> QED
    BY <1>3, <2>1, <2>2, NetworkKept
<1>4. ASSUME UNCHANGED deviceVars PROVE LinkInv'
  <2>1. stage' = stage /\ UNCHANGED <<network, networkVars, waitVars>>
    BY <1>4 DEF deviceVars
  <2>2. waits' \in 0..MaxWaits /\ waited' \in BOOLEAN /\ online' \in BOOLEAN
    BY <1>0, <2>1 DEF waitVars
  <2> QED
    BY <1>0, <2>1, <2>2, NetworkKept
<1>5. CASE MainAppTask /\ ~InitWifi /\ ~InitEthernet
  <2>1. CASE SelectMode
    BY <1>3, <2>1 DEF SelectMode, GoTo, At, Early, Stage
  <2>2. CASE HandleStorageMode
    BY <1>3, <2>2 DEF HandleStorageMode, EnableTinyUsb, Early
  <2>3. CASE ReadFactoryData
    BY <1>4, <1>3, <2>3 DEF ReadFactoryData, Stops, GoTo, At, Early, Stage
  <2>4. CASE InitNvs
    BY <1>4, <1>3, <2>4 DEF InitNvs, PowerLoss, GoTo, At, Early, Stage
  <2>5. CASE MountCard
    BY <1>3, <2>5 DEF MountCard, GoTo, At, Early, Stage
  <2>6. ASSUME NEW s \in {"camera", "encoder", "server", "tasks"}, Initialise(s)
        PROVE  LinkInv'
    <3>1. CASE Stops
      BY <1>4, <3>1 DEF Stops
    <3>2. CASE GoTo(AfterStage[s]) /\ UNCHANGED <<network, networkVars, waitVars>>
      <4>1. At(s)
        BY <2>6 DEF Initialise
      <4> QED
        BY <1>3, <2>6, <3>2, <4>1 DEF GoTo, AfterStage, Early, Stage
    <3> QED
      BY <2>6, <3>1, <3>2 DEF Initialise
  <2>7. CASE BeginSelfTest \/ TestCamera \/ TestNetwork \/ TestBackend \/ Decide
    BY <1>4, <2>7 DEF BeginSelfTest, TestCamera, TestNetwork, TestBackend, Decide
  <2>8. CASE WaitForNetwork
    <3>1. UNCHANGED <<network, stage, networkVars, online>>
      BY <2>8 DEF WaitForNetwork
    <3>2. CASE waited' = TRUE /\ UNCHANGED waits
      BY <1>0, <3>1, <3>2, NetworkKept
    <3>3. CASE waits # MaxWaits /\ waits' = waits + 1 /\ UNCHANGED waited
      <4>1. waits' \in 0..MaxWaits
        BY <1>0, <1>1, <3>3
      <4> QED
        BY <1>0, <3>1, <3>3, <4>1, NetworkKept
    <3> QED
      BY <2>8, <3>2, <3>3 DEF WaitForNetwork
  <2> QED
    BY <1>5, <2>1, <2>2, <2>3, <2>4, <2>5, <2>6, <2>7, <2>8
    DEF MainAppTask, InitCamera
<1>6. CASE InitWifi \/ InitEthernet
  <2>1. At("network")
    BY <1>6 DEF InitWifi, InitEthernet
  <2>2. /\ link = "off" /\ events = <<>> /\ connected = FALSE
    BY <2>1 DEF At, Early, LinkInv, EarlyInv
  <2>3. CASE PowerLoss \/ Stops
    BY <1>4, <2>3 DEF PowerLoss, Stops
  <2>4. CASE /\ link' \in {"joining", "down"} /\ refused' \in BOOLEAN
             /\ stage' = "card" /\ TypeOK'
             /\ UNCHANGED <<network, events, setbacks, connected, waitVars>>
    <3>1. BootTypeOK'
      BY <1>0, <2>4 DEF BootTypeOK, Stage, Link, waitVars
    <3>2. EarlyInv' /\ ConnectedFollows'
      BY <2>2, <2>4 DEF Early, EarlyInv, ConnectedFollows
    <3>3. \A t : t = <<>> => Len(t) = 0
      OBVIOUS
    <3>4. WifiInv'
      BY <2>2, <2>4, <3>3 DEF WifiInv
    <3> QED
      BY <3>1, <3>2, <3>4 DEF LinkInv
  <2> QED
    BY <1>0, <1>6, <2>3, <2>4 DEF InitWifi, InitEthernet, Connect, GoTo
<1>7. CASE LinkUp
  <2>1. /\ link \in {"joining", "down"} /\ link' = "up"
        /\ network = "wifi" => link = "joining"
        /\ UNCHANGED <<network, stage, waitVars, events, setbacks, connected, refused>>
    BY <1>7 DEF LinkUp, NetworkStep
  <2>2. BootTypeOK' /\ EarlyInv'
    BY <1>0, <2>1, NetworkTypes DEF Link
  <2> QED
    BY <2>1, <2>2 DEF LinkInv, WifiInv, ConnectedFollows
<1>8. CASE AddressAssigned
  <2>1. /\ link \in {"up", "expired"} /\ link' = "address"
        /\ events' = Append(events, "got_ip") /\ Len(events) < EventQueue
        /\ UNCHANGED <<network, stage, waitVars, setbacks, connected, refused>>
    BY <1>8 DEF AddressAssigned, NetworkStep, Post
  <2>2. /\ events' \in Seq(Event) /\ Len(events') = Len(events) + 1
        /\ events' # <<>> /\ Last(events') = "got_ip"
        /\ \A i \in 1..Len(events) : events'[i] = events[i]
        /\ events'[Len(events) + 1] = "got_ip"
    BY <1>0, <2>1, PostedLast DEF Event
  <2>3. Len(events) \in Nat
    BY <1>0
  <2>4. BootTypeOK' /\ EarlyInv'
    BY <1>0, <1>1, <2>1, <2>2, <2>3, NetworkTypes DEF Link
  <2>5. WifiInv'
    BY <2>1, <2>2, <2>3 DEF LinkInv, WifiInv
  <2> QED
    BY <2>1, <2>2, <2>4, <2>5 DEF LinkInv, ConnectedFollows
<1>9. CASE LinkDown
  <2>1. /\ link \in {"joining", "up", "expired", "address"} /\ link' = "down"
        /\ events' = Append(events, "disconnected") /\ Len(events) < EventQueue
        /\ setbacks' \in 0..MaxSetbacks
        /\ UNCHANGED <<network, stage, waitVars, connected, refused>>
    BY <1>0, <1>1, <1>9 DEF LinkDown, NetworkStep, Post, Setback
  <2>2. /\ events' \in Seq(Event) /\ Len(events') = Len(events) + 1
        /\ events' # <<>> /\ Last(events') = "disconnected"
        /\ \A i \in 1..Len(events) : events'[i] = events[i]
    BY <1>0, <2>1, PostedLast DEF Event
  <2>3. Len(events) \in Nat
    BY <1>0
  <2>4. BootTypeOK' /\ EarlyInv'
    BY <1>0, <1>1, <2>1, <2>2, <2>3, NetworkTypes DEF Link
  <2>5. WifiInv'
    BY <2>1, <2>2, <2>3 DEF LinkInv, WifiInv
  <2> QED
    BY <2>1, <2>2, <2>4, <2>5 DEF LinkInv, ConnectedFollows
<1>10. CASE AddressLost
  <2>1. /\ link = "address" /\ link' = "expired" /\ setbacks' \in 0..MaxSetbacks
        /\ UNCHANGED <<network, stage, waitVars, events, connected, refused>>
    BY <1>0, <1>1, <1>10 DEF AddressLost, NetworkStep, Setback
  <2>2. BootTypeOK' /\ EarlyInv'
    BY <1>0, <2>1, NetworkTypes DEF Link
  <2> QED
    BY <2>1, <2>2 DEF LinkInv, WifiInv, ConnectedFollows
<1>11. CASE HandleEvent
  <2>1. /\ events # <<>> /\ events' = Tail(events)
        /\ connected' = (Head(events) = "got_ip")
        /\ UNCHANGED <<network, stage, waitVars, setbacks>>
        /\ IF network = "wifi" /\ Head(events) = "disconnected"
           THEN link' \in {"joining", "down"} /\ refused' \in BOOLEAN
           ELSE UNCHANGED <<link, refused>>
    BY <1>11 DEF HandleEvent, Follow, Connect
  <2>2. /\ events' \in Seq(Event) /\ Len(events') = Len(events) - 1
        /\ Len(events) \in Nat \ {0}
        /\ Head(events) = events[1] /\ Head(events) \in Event
        /\ \A i \in 1..Len(events') : events'[i] = events[i + 1]
        /\ events' # <<>> => Last(events') = Last(events)
        /\ events' = <<>> => Len(events) = 1 /\ Last(events) = Head(events)
    BY <1>0, <2>1, HandledFirst
  <2>3. link # "off"
    BY <2>1 DEF LinkInv, EarlyInv
  <2>4. link' \in Link /\ link' # "off" /\ connected' \in BOOLEAN /\ refused' \in BOOLEAN
    BY <1>0, <2>1, <2>3 DEF Link
  <2>5. BootTypeOK' /\ EarlyInv'
    BY <1>0, <1>1, <2>1, <2>2, <2>3, <2>4, NetworkTypes
  <2>6. CASE network = "wifi" /\ Head(events) = "disconnected"
    <3>1. Len(events) = 1 /\ Len(events') = 0
      BY <2>2, <2>6 DEF LinkInv, WifiInv
    <3>2. events' = <<>>
      BY <2>2, <3>1
    <3>3. WifiInv'
      BY <3>1 DEF WifiInv
    <3>4. connected' = FALSE /\ link' \notin {"address", "expired"}
      BY <2>1, <2>6
    <3>5. ConnectedFollows'
      BY <3>2, <3>4 DEF ConnectedFollows
    <3> QED
      BY <2>5, <3>3, <3>5 DEF LinkInv
  <2>7. CASE ~(network = "wifi" /\ Head(events) = "disconnected")
    <3>1. UNCHANGED <<link, network>>
      BY <2>1, <2>7
    <3>2. WifiInv'
      <4> SUFFICES ASSUME network = "wifi", NEW i \in 1..Len(events'),
                          events'[i] = "disconnected"
                   PROVE  i = Len(events') /\ link = "down"
        BY <3>1 DEF WifiInv
      <4>1. i + 1 \in 1..Len(events) /\ events[i + 1] = "disconnected"
        BY <2>2
      <4> QED
        BY <2>2, <4>1 DEF LinkInv, WifiInv
    <3>3. ConnectedFollows'
      <4>1. ConnectedFollows
        BY DEF LinkInv
      <4>2. CASE events' = <<>>
        BY <2>1, <2>2, <3>1, <4>1, <4>2 DEF ConnectedFollows
      <4>3. CASE events' # <<>>
        BY <2>1, <2>2, <3>1, <4>1, <4>3 DEF ConnectedFollows
      <4> QED
        BY <4>2, <4>3
    <3> QED
      BY <2>5, <3>2, <3>3 DEF LinkInv
  <2> QED
    BY <2>6, <2>7
<1>12. CASE TelemetryBegins
  BY <1>0, <1>12, NetworkKept DEF TelemetryBegins
<1>13. CASE Offered \/ Updating
  BY <1>4, <1>13 DEF Offered, Updating
<1>14. CASE PowerLoss \/ UNCHANGED bootVarsAll
  BY <1>4, <1>14 DEF PowerLoss, bootVarsAll
<1> QED
  BY <1>2, <1>5, <1>6, <1>7, <1>8, <1>9, <1>10, <1>11, <1>12, <1>13, <1>14
  DEF BootNext, MainAppTask

LEMMA LinkInvariant == BootSpec => []LinkInv
<1>1. UpdateInv => TypeOK
  BY DEF UpdateInv
<1> QED
  BY <1>1, LinkInit, LinkStep, BootUpdateInvariant, PTL DEF BootSpec

\* Counters, stages and the event queue stay within their bounds, whatever these are.
THEOREM BootTypeCorrect == BootSpec => []BootTypeOK
<1>1. LinkInv => BootTypeOK
  BY DEF LinkInv
<1> QED
  BY <1>1, LinkInvariant, PTL

\* However long the queue of events, connected_ follows the network.
THEOREM ConnectedAlwaysFollows == BootSpec => []ConnectedFollows
<1>1. LinkInv => ConnectedFollows
  BY DEF LinkInv
<1> QED
  BY <1>1, LinkInvariant, PTL

-----------------------------------------------------------------------------
(***************************************************************************)
(* The verdict on a fresh image.                                           *)
(***************************************************************************)
\* While a program runs, what is pending is the image it runs, and the tasks run a
\* committed one only: a failed self-test that cannot be rolled back was of a committed
\* image.
PendingIsTested ==
  /\ boot_pc = "run" => verdict[running] = "valid"
  /\ \A s \in Slot : verdict[s] = "pending" => boot_pc = "reset" \/ s = running

LEMMA PendingStep == UpdateInv /\ PendingIsTested /\ [Next]_vars => PendingIsTested'
<1> SUFFICES ASSUME UpdateInv, PendingIsTested, [Next]_vars PROVE PendingIsTested'
  OBVIOUS
<1>0. /\ running \in Slot /\ boot_pc \in BootPc
      /\ verdict \in [Slot -> {"none", "new", "pending", "valid", "bad"}]
  BY DEF UpdateInv, TypeOK
<1>1. CASE Bootloader
  BY <1>0, <1>1 DEF Bootloader, PendingIsTested
<1>2. CASE SelfTestFailed
  <2>1. /\ boot_pc = "failed" /\ image[running] = "whole"
        /\ verdict[running] \in {"valid", "pending"}
    BY <1>2 DEF SelfTestFailed, UpdateInv, RunningInv
  <2>2. CASE RollbackPossible
    BY <1>0, <1>2, <2>2 DEF SelfTestFailed, PendingIsTested
  <2>3. CASE ~RollbackPossible
    <3>1. PICK s \in Slot : image[s] = "whole" /\ verdict[s] = "valid"
      BY DEF UpdateInv, OneCommittedImage
    <3>2. s = running
      BY <1>0, <2>3, <3>1, TwoSlots DEF RollbackPossible, Bootable
    <3> QED
      BY <1>0, <1>2, <2>1, <2>3, <3>1, <3>2 DEF SelfTestFailed, PendingIsTested
  <2> QED
    BY <2>2, <2>3
<1>3. CASE SelfTestPassed
  BY <1>0, <1>3 DEF SelfTestPassed, PendingIsTested
<1>4. CASE Finish
  <2>1. running' = running /\ boot_pc' = boot_pc /\ boot_pc = "run"
    BY <1>4 DEF Finish, OtaStep, bootVars
  <2>2. CASE UNCHANGED verdict
    BY <2>1, <2>2 DEF PendingIsTested
  <2>3. CASE verdict' = [verdict EXCEPT ![Other(running)] = "new"]
    BY <1>0, <2>1, <2>3, TwoSlots DEF PendingIsTested
  <2> QED
    BY <1>4, <2>2, <2>3 DEF Finish, Install, flashVars
<1>5. ASSUME UNCHANGED <<verdict, running>>, boot_pc' = "run" => boot_pc = "run",
             boot_pc = "reset" => boot_pc' = "reset"
      PROVE  PendingIsTested'
  BY <1>5 DEF PendingIsTested
<1>6. CASE Reset \/ StorageMode \/ StartFails \/ StartReachesSelfTest
  BY <1>5, <1>6 DEF Reset, StorageMode, StartFails, StartReachesSelfTest, flashVars
<1>7. ASSUME NEW c \in Check, SelfTestCheck(c) PROVE PendingIsTested'
  <2>1. boot_pc # "reset" /\ boot_pc' # "run"
    BY <1>7 DEF SelfTestCheck, Check, NextCheck
  <2> QED
    BY <1>5, <1>7, <2>1 DEF SelfTestCheck, flashVars
<1>8. CASE UpdateOffered \/ CheckForUpdate \/ Begin \/ PerformFirst \/ PerformRest
            \/ CheckComplete
  <2>1. UNCHANGED <<verdict, bootVars>>
    BY <1>8 DEF UpdateOffered, CheckForUpdate, Begin, PerformFirst, PerformRest,
                CheckComplete, OtaStep, flashVars
  <2> QED
    BY <1>5, <2>1 DEF bootVars
<1>9. CASE ReportAndRestart \/ UNCHANGED vars
  BY <1>5, <1>9 DEF ReportAndRestart, vars, flashVars, bootVars
<1> QED
  BY <1>1, <1>2, <1>3, <1>4, <1>6, <1>7, <1>8, <1>9
  DEF Next, MainTask, TelemetryTask, Update

\* Whatever fails and whenever the device is reset: no task runs on an image without a
\* verdict, and a pending image is the one under test.
THEOREM PendingAlwaysTested == BootSpec => []PendingIsTested
<1>1. Init => PendingIsTested
  BY DEF Init, PendingIsTested, Slot
<1> QED
  BY <1>1, PendingStep, BootRefinesUpdate, BootUpdateInvariant, PTL

\* An installed image is the one the bootloader takes next, and nothing but the restart
\* that ends the update comes before.
InstalledIsNext ==
  \A s \in Slot : verdict[s] = "new" =>
    /\ latest = s /\ Bootable(s)
    /\ boot_pc = "reset" \/ (boot_pc = "run" /\ ota_pc = "report")

\* Between the selection of an image and its first boot there is no step that could take
\* it back, however many resets and later offers come.
THEOREM InstalledAlwaysNext == BootSpec => []InstalledIsNext
<1>1. UpdateInv => InstalledIsNext
  BY DEF UpdateInv, FreshInv, InstalledIsNext, Bootable
<1> QED
  BY <1>1, BootUpdateInvariant, PTL

StageLeft ==
  CASE stage = "mode"    -> 10
    [] stage = "factory" -> 9
    [] stage = "nvs"     -> 8
    [] stage = "network" -> 7
    [] stage = "card"    -> 6
    [] stage = "camera"  -> 5
    [] stage = "encoder" -> 4
    [] stage = "server"  -> 3
    [] stage = "tasks"   -> 2
    [] stage = "done"    -> 1
    [] stage = "usb"     -> 0

\* Steps of main_app_task that are left, at most.
BootLeft ==
  CASE boot_pc = "start"   -> StageLeft + MaxWaits + 5
    [] boot_pc = "camera"  -> MaxWaits + 5
    [] boot_pc = "network" -> IF waited THEN 3 ELSE (MaxWaits - waits) + 4
    [] boot_pc = "backend" -> 2
    [] boot_pc \in {"verdict", "failed"} -> 1
    [] boot_pc = "storage" -> IF stage = "mode" THEN 1 ELSE 0
    [] boot_pc \in {"run", "stopped", "reset"} -> 0

\* Each step of start() and of the self-test brings them nearer to their end; only the
\* next boot begins them again.
BootAdvances ==
  [][/\ MainAppTask => BootLeft' < BootLeft
     /\ BootLeft' > BootLeft => Boot]_bootVarsAll

\* There is always a next step, until the tasks run, or start() has failed, or the host
\* has the card; and the number of steps is bounded.
BootMovable ==
  /\ BootLeft <= MaxWaits + 15
  /\ boot_pc = "start" => stage # "usb"
  /\ boot_pc = "storage" => stage \in {"mode", "usb"}
  /\ BootLeft = 0 <=> \/ boot_pc \in {"run", "stopped", "reset"}
                      \/ boot_pc = "storage" /\ stage = "usb"

LEMMA BootLeftBounded ==
  ASSUME BootTypeOK
  PROVE  /\ StageLeft \in 0..10 /\ BootLeft \in Nat /\ BootLeft <= MaxWaits + 15
         /\ waits \in Nat /\ waits <= MaxWaits /\ MaxWaits \in Nat
<1>1. /\ MaxWaits \in Nat /\ waits \in Nat /\ waits <= MaxWaits
      /\ stage \in Stage /\ boot_pc \in BootPc
  BY BootAssumption DEF BootTypeOK, TypeOK
<1>2. StageLeft \in 0..10
  BY <1>1 DEF StageLeft, Stage
<1>3. BootLeft \in Nat /\ BootLeft <= MaxWaits + 15
  BY <1>1, <1>2 DEF BootLeft, BootPc, Check
<1> QED
  BY <1>1, <1>2, <1>3

LEMMA BootFewer ==
  ASSUME BootTypeOK, BootTypeOK', MainAppTask
  PROVE  BootLeft' < BootLeft
<1>1. /\ MaxWaits \in Nat /\ waits \in Nat /\ waits <= MaxWaits
      /\ waits' \in Nat /\ waits' <= MaxWaits
  BY BootLeftBounded, BootAssumption DEF BootTypeOK
<1>2. ASSUME At(stage), stage \in Stage \ {"usb"},
             boot_pc' \in {"storage", "stopped", "reset"}
      PROVE  BootLeft' < BootLeft
  <2>1. BootLeft' <= 1
    BY <1>1, <1>2 DEF BootLeft
  <2>2. StageLeft \in 0..10
    BY BootLeftBounded
  <2> QED
    BY <1>1, <1>2, <2>1, <2>2 DEF At, BootLeft
<1>3. ASSUME boot_pc = "start", boot_pc' = "start", StageLeft' < StageLeft
      PROVE  BootLeft' < BootLeft
  <2>1. StageLeft \in 0..10 /\ StageLeft' \in 0..10
    BY BootLeftBounded DEF BootTypeOK, StageLeft, Stage
  <2> QED
    BY <1>1, <1>3, <2>1 DEF BootLeft
<1>4. CASE SelectMode \/ ReadFactoryData \/ InitNvs
  BY <1>2, <1>3, <1>4
  DEF SelectMode, ReadFactoryData, InitNvs, Stops, StorageMode, StartFails, PowerLoss, Reset,
      GoTo, At, StageLeft, Stage, vars, bootVars
<1>5. CASE HandleStorageMode
  BY <1>5 DEF HandleStorageMode, EnableTinyUsb, Reset, vars, bootVars, BootLeft
<1>6. CASE InitWifi \/ InitEthernet \/ MountCard
  BY <1>2, <1>3, <1>6
  DEF InitWifi, InitEthernet, MountCard, Stops, StartFails, PowerLoss, Reset, GoTo, At,
      StageLeft, Stage, vars, bootVars
<1>7. ASSUME NEW s \in {"camera", "encoder", "server", "tasks"}, Initialise(s)
      PROVE  BootLeft' < BootLeft
  <2>1. boot_pc = "start" /\ stage = s
    BY <1>7 DEF Initialise, At
  <2>2. CASE Stops
    BY <1>2, <2>1, <2>2 DEF Stops, StartFails, At, Stage
  <2>3. CASE GoTo(AfterStage[s])
    <3>1. boot_pc' = "start" /\ stage' = AfterStage[s]
      BY <2>1, <2>3 DEF GoTo, vars, bootVars
    <3>2. StageLeft' < StageLeft
      BY <2>1, <3>1 DEF AfterStage, StageLeft
    <3> QED
      BY <1>3, <2>1, <3>1, <3>2
  <2> QED
    BY <1>7, <2>2, <2>3 DEF Initialise
<1>8. CASE BeginSelfTest
  BY <1>1, <1>8 DEF BeginSelfTest, At, StartReachesSelfTest, BootLeft, StageLeft
<1>9. CASE TestCamera
  <2>1. boot_pc = "camera" /\ boot_pc' \in {"network", "failed"}
        /\ UNCHANGED <<waits, waited>>
    BY <1>9 DEF TestCamera, SelfTestCheck, NextCheck, Check, deviceVars, waitVars
  <2> QED
    BY <1>1, <2>1 DEF BootLeft
<1>10. CASE WaitForNetwork
  <2>1. boot_pc = "network" /\ boot_pc' = "network" /\ ~waited
        /\ \/ waited' = TRUE
           \/ waits' = waits + 1 /\ waited' = waited
    BY <1>10 DEF WaitForNetwork, vars, bootVars
  <2> QED
    BY <1>1, <2>1 DEF BootLeft
<1>11. CASE TestNetwork \/ TestBackend
  <2>1. \/ boot_pc = "network" /\ waited /\ boot_pc' \in {"backend", "failed"}
        \/ boot_pc = "backend" /\ boot_pc' \in {"verdict", "failed"}
    BY <1>11 DEF TestNetwork, TestBackend, SelfTestCheck, NextCheck, Check
  <2> QED
    BY <2>1 DEF BootLeft
<1>12. CASE Decide
  BY <1>12 DEF Decide, SelfTestPassed, SelfTestFailed, BootLeft
<1> QED
  BY <1>4, <1>5, <1>6, <1>7, <1>8, <1>9, <1>10, <1>11, <1>12 DEF MainAppTask, InitCamera

\* Network, handlers and telemetry_task do not add to it, and a reset ends it.
LEMMA BootNotMore ==
  ASSUME BootTypeOK, BootTypeOK', [BootNext]_bootVarsAll, ~MainAppTask, ~Boot
  PROVE  BootLeft' <= BootLeft
<1>1. BootLeft \in Nat
  BY BootLeftBounded
<1>2. ASSUME UNCHANGED <<boot_pc, stage, waits, waited>> PROVE BootLeft' <= BootLeft
  <2>1. StageLeft' = StageLeft
    BY <1>2 DEF StageLeft
  <2>2. BootLeft' = BootLeft
    BY <1>2, <2>1 DEF BootLeft
  <2> QED
    BY <1>1, <2>2
<1>3. ASSUME boot_pc' \in {"run", "reset"} PROVE BootLeft' <= BootLeft
  <2>1. BootLeft' = 0
    BY <1>3 DEF BootLeft
  <2> QED
    BY <1>1, <2>1
<1>4. CASE PowerLoss
  BY <1>3, <1>4 DEF PowerLoss, Reset
<1>5. CASE LinkUp \/ AddressAssigned \/ LinkDown \/ AddressLost \/ HandleEvent
           \/ TelemetryBegins
  BY <1>2, <1>5
  DEF LinkUp, AddressAssigned, LinkDown, AddressLost, NetworkStep, HandleEvent,
      TelemetryBegins, vars, bootVars, waitVars
<1>6. CASE Offered \/ Updating
  <2>1. UpdateOffered \/ Update
    BY <1>6 DEF Offered, Updating
  <2>2. boot_pc' \in {"run", "reset"}
    BY <2>1
    DEF Update, UpdateOffered, CheckForUpdate, Begin, PerformFirst, PerformRest,
        CheckComplete, Finish, ReportAndRestart, OtaStep, bootVars
  <2> QED
    BY <1>3, <2>2
<1>7. CASE UNCHANGED bootVarsAll
  BY <1>2, <1>7 DEF bootVarsAll, vars, bootVars, deviceVars, waitVars
<1> QED
  BY <1>4, <1>5, <1>6, <1>7 DEF BootNext

\* From a boot it takes at most MaxWaits + 15 steps to the running tasks or to one of
\* the ends of start(); nothing but another boot prolongs that.
THEOREM BootAlwaysAdvances == BootSpec => BootAdvances
<1> DEFINE Now == BootTypeOK /\ BootLeft \in Nat
<1>1. BootSpec => []Now
  BY BootTypeCorrect, BootLeftBounded, PTL
<1>2. Now /\ Now' /\ [BootNext]_bootVarsAll =>
        [/\ MainAppTask => BootLeft' < BootLeft
         /\ BootLeft' > BootLeft => Boot]_bootVarsAll
  <2> SUFFICES ASSUME Now, Now', [BootNext]_bootVarsAll
               PROVE  /\ MainAppTask => BootLeft' < BootLeft
                      /\ BootLeft' > BootLeft => Boot
    OBVIOUS
  <2>1. BootLeft \in Nat /\ BootLeft' \in Nat
    OBVIOUS
  <2>2. CASE MainAppTask
    BY <2>1, <2>2, BootFewer
  <2>3. CASE ~MainAppTask
    BY <2>1, <2>3, BootNotMore
  <2> QED
    BY <2>2, <2>3
<1> HIDE DEF Now
<1> QED
  BY <1>1, <1>2, PTL DEF BootSpec, BootAdvances

LEMMA StageStep ==
  ASSUME BootTypeOK, [BootNext]_bootVarsAll,
         boot_pc = "start" => stage # "usb",
         boot_pc = "storage" => stage \in {"mode", "usb"}
  PROVE  /\ boot_pc' = "start" => stage' # "usb"
         /\ boot_pc' = "storage" => stage' \in {"mode", "usb"}
<1>1. ASSUME UNCHANGED <<boot_pc, stage>> \/ boot_pc' \notin {"start", "storage"}
      PROVE  /\ boot_pc' = "start" => stage' # "usb"
             /\ boot_pc' = "storage" => stage' \in {"mode", "usb"}
  BY <1>1
<1>2. CASE Boot
  BY <1>2 DEF Boot, Bootloader
<1>3. CASE SelectMode \/ HandleStorageMode \/ ReadFactoryData \/ InitNvs
  BY <1>3
  DEF SelectMode, HandleStorageMode, EnableTinyUsb, ReadFactoryData, InitNvs, Stops,
      StorageMode, StartFails, PowerLoss, Reset, GoTo, At, vars, bootVars
<1>4. CASE InitWifi \/ InitEthernet \/ MountCard
  BY <1>4
  DEF InitWifi, InitEthernet, MountCard, Stops, StartFails, PowerLoss, Reset, GoTo, At,
      vars, bootVars
<1>5. ASSUME NEW s \in {"camera", "encoder", "server", "tasks"}, Initialise(s)
      PROVE  /\ boot_pc' = "start" => stage' # "usb"
             /\ boot_pc' = "storage" => stage' \in {"mode", "usb"}
  BY <1>5 DEF Initialise, AfterStage, Stops, StartFails, GoTo, At, vars, bootVars
<1>6. CASE BeginSelfTest \/ TestCamera \/ TestNetwork \/ TestBackend \/ Decide
  <2>1. boot_pc' \notin {"start", "storage"}
    BY <1>6
    DEF BeginSelfTest, StartReachesSelfTest, TestCamera, TestNetwork, TestBackend,
        SelfTestCheck, NextCheck, Check, Decide, SelfTestPassed, SelfTestFailed
  <2> QED
    BY <1>1, <2>1
<1>7. CASE \/ WaitForNetwork \/ LinkUp \/ AddressAssigned \/ LinkDown \/ AddressLost
           \/ HandleEvent \/ TelemetryBegins \/ UNCHANGED bootVarsAll
  <2>1. UNCHANGED <<boot_pc, stage>>
    BY <1>7
    DEF WaitForNetwork, LinkUp, AddressAssigned, LinkDown, AddressLost, NetworkStep,
        HandleEvent, TelemetryBegins, bootVarsAll, vars, bootVars, deviceVars
  <2> QED
    BY <1>1, <2>1
<1>8. CASE PowerLoss \/ Offered \/ Updating
  <2>1. boot_pc' \in {"run", "reset"}
    BY <1>8
    DEF PowerLoss, Reset, Offered, Updating, Update, UpdateOffered, CheckForUpdate, Begin,
        PerformFirst, PerformRest, CheckComplete, Finish, ReportAndRestart, OtaStep, bootVars
  <2> QED
    BY <1>1, <2>1
<1> QED
  BY <1>2, <1>3, <1>4, <1>5, <1>6, <1>7, <1>8 DEF BootNext, MainAppTask, InitCamera

\* main_app_task is never at a stage from which nothing goes on, for any number of
\* waits.
THEOREM BootAlwaysMovable == BootSpec => []BootMovable
<1> DEFINE StageInv == /\ boot_pc = "start" => stage # "usb"
                       /\ boot_pc = "storage" => stage \in {"mode", "usb"}
<1>1. BootInit => StageInv
  BY DEF BootInit, Init
<1>2. BootTypeOK /\ StageInv /\ [BootNext]_bootVarsAll => StageInv'
  BY StageStep
<1>3. BootTypeOK /\ StageInv => BootMovable
  <2> SUFFICES ASSUME BootTypeOK, StageInv PROVE BootMovable
    OBVIOUS
  <2>1. /\ StageLeft \in 0..10 /\ BootLeft <= MaxWaits + 15
        /\ waits \in Nat /\ waits <= MaxWaits /\ MaxWaits \in Nat
    BY BootLeftBounded
  <2>2. boot_pc \in BootPc
    BY DEF BootTypeOK, TypeOK
  <2>3. BootLeft = 0 <=> \/ boot_pc \in {"run", "stopped", "reset"}
                         \/ boot_pc = "storage" /\ stage = "usb"
    BY <2>1, <2>2 DEF BootLeft, BootPc, Check
  <2> QED
    BY <2>1, <2>3 DEF BootMovable
<1> HIDE DEF StageInv
<1> QED
  BY <1>1, <1>2, <1>3, BootTypeCorrect, PTL DEF BootSpec

-----------------------------------------------------------------------------
(***************************************************************************)
(* The way back to the network.                                            *)
(***************************************************************************)
LinkLeft ==
  CASE link \in {"off", "joining"} -> 3
    [] link = "down"               -> IF network = "wifi" /\ events = <<>> THEN 0 ELSE 3
    [] link \in {"up", "expired"}  -> 2
    [] link = "address"            -> 0

\* Steps that are left, at most, until the network stays as it is.
NetworkLeft == 5 * (MaxSetbacks - setbacks) + (Len(events) + LinkLeft)

DriverStep == LinkUp \/ AddressAssigned \/ LinkDown \/ AddressLost

\* Drivers and handlers cannot keep each other busy: each of their steps uses up
\* something that only a setback gives back, and setbacks are counted.
NetworkAdvances ==
  [][/\ DriverStep \/ HandleEvent => NetworkLeft' < NetworkLeft
     /\ NetworkLeft' > NetworkLeft => Boot /\ NetworkLeft' = 5 * MaxSetbacks + 3]_bootVarsAll

\* When nothing is queued, connected_ is set or the next step towards it is the
\* driver's, which the handlers have asked for; only a refused esp_wifi_connect leaves
\* the device without either.
ConnectionPending ==
  link # "off" /\ events = <<>> =>
    \/ connected
    \/ link = "up"
    \/ link = IF network = "wifi" THEN "joining" ELSE "down"
    \/ refused /\ network = "wifi"

LEMMA NetworkLeftNat ==
  ASSUME LinkInv
  PROVE  /\ LinkLeft \in 0..3 /\ NetworkLeft \in Nat
         /\ MaxSetbacks \in Nat /\ setbacks \in Nat /\ setbacks <= MaxSetbacks
         /\ Len(events) \in Nat
<1>1. /\ MaxSetbacks \in Nat /\ setbacks \in Nat /\ setbacks <= MaxSetbacks
      /\ Len(events) \in Nat /\ link \in Link
  BY BootAssumption DEF LinkInv, BootTypeOK
<1>2. LinkLeft \in 0..3
  BY <1>1 DEF LinkLeft, Link
<1>3. NetworkLeft \in Nat
  BY <1>1, <1>2 DEF NetworkLeft
<1> QED
  BY <1>1, <1>2, <1>3

\* What the terms lose is lost by their sum.
LEMMA LessSum ==
  ASSUME NEW m \in Int, NEW s \in Int, NEW t \in Int, NEW a \in Int, NEW b \in Int,
         5 * s + b < 5 * t + a
  PROVE  5 * (m - t) + b < 5 * (m - s) + a
OBVIOUS

LEMMA NetworkLess ==
  ASSUME LinkInv, LinkLeft' \in 0..3, Len(events') \in Nat, setbacks' \in Nat,
         5 * setbacks + (Len(events') + LinkLeft')
           < 5 * setbacks' + (Len(events) + LinkLeft)
  PROVE  NetworkLeft' < NetworkLeft
<1> DEFINE a == Len(events) + LinkLeft
           b == Len(events') + LinkLeft'
<1>1. a \in Int /\ MaxSetbacks \in Int /\ setbacks \in Int
  BY NetworkLeftNat
<1>2. b \in Int /\ setbacks' \in Int
  OBVIOUS
<1>3. 5 * setbacks + b < 5 * setbacks' + a
  OBVIOUS
<1>4. /\ NetworkLeft = 5 * (MaxSetbacks - setbacks) + a
      /\ NetworkLeft' = 5 * (MaxSetbacks - setbacks') + b
  BY DEF NetworkLeft
<1> HIDE DEF a, b
<1> QED
  BY <1>1, <1>2, <1>3, <1>4, LessSum

LEMMA NetworkFewer ==
  ASSUME LinkInv, LinkInv', NetworkLeft' \in Nat, LinkLeft' \in 0..3,
         DriverStep \/ HandleEvent
  PROVE  NetworkLeft' < NetworkLeft
<1>0. /\ LinkLeft \in 0..3 /\ setbacks \in Nat /\ Len(events) \in Nat
      /\ events \in Seq(Event) /\ network \in {"wifi", "ethernet"} /\ link \in Link
  BY NetworkLeftNat DEF LinkInv, BootTypeOK
<1>1. CASE LinkUp
  <2>1. /\ network = "wifi" => link = "joining"
        /\ link \in {"joining", "down"} /\ link' = "up"
        /\ UNCHANGED <<events, setbacks, network>>
    BY <1>0, <1>1 DEF LinkUp, NetworkStep
  <2>2. LinkLeft = 3 /\ LinkLeft' = 2
    BY <2>1 DEF LinkLeft
  <2> QED
    BY <1>0, <2>1, <2>2, NetworkLess
<1>2. CASE AddressAssigned
  <2>1. /\ link \in {"up", "expired"} /\ link' = "address"
        /\ events' = Append(events, "got_ip") /\ UNCHANGED setbacks
    BY <1>2 DEF AddressAssigned, Post
  <2>2. LinkLeft = 2 /\ LinkLeft' = 0
    BY <2>1 DEF LinkLeft
  <2>3. Len(events') = Len(events) + 1
    BY <1>0, <2>1, PostedLast DEF Event
  <2> QED
    BY <1>0, <2>1, <2>2, <2>3, NetworkLess
<1>3. CASE LinkDown
  <2>1. events' = Append(events, "disconnected") /\ setbacks' = setbacks + 1
    BY <1>3 DEF LinkDown, Post, Setback
  <2>2. Len(events') = Len(events) + 1
    BY <1>0, <2>1, PostedLast DEF Event
  <2> QED
    BY <1>0, <2>1, <2>2, NetworkLess
<1>4. CASE AddressLost
  <2>1. UNCHANGED events /\ setbacks' = setbacks + 1
    BY <1>4 DEF AddressLost, Setback
  <2> QED
    BY <1>0, <2>1, NetworkLess
<1>5. CASE HandleEvent
  <2>1. /\ events # <<>> /\ events' = Tail(events) /\ UNCHANGED <<setbacks, network>>
        /\ IF network = "wifi" /\ Head(events) = "disconnected"
           THEN link' \in {"joining", "down"} ELSE link' = link
    BY <1>5 DEF HandleEvent, Connect
  <2>2. /\ Len(events') = Len(events) - 1 /\ Len(events) \in Nat \ {0}
        /\ Head(events) = events[1]
        /\ events' = <<>> => Len(events) = 1 /\ Last(events) = Head(events)
    BY <1>0, <2>1, HandledFirst
  <2>3. LinkLeft' <= LinkLeft
    <3>1. CASE network = "wifi" /\ Head(events) = "disconnected"
      <4>1. link = "down"
        BY <2>2, <3>1 DEF LinkInv, WifiInv
      <4>2. LinkLeft = 3
        BY <2>1, <4>1 DEF LinkLeft
      <4> QED
        BY <4>2
    <3>2. CASE ~(network = "wifi" /\ Head(events) = "disconnected")
      <4>1. link' = link /\ network' = network
        BY <2>1, <3>2
      <4>2. CASE link = "down"
        <5>1. LinkLeft = 3
          BY <2>1, <4>2 DEF LinkLeft
        <5> QED
          BY <5>1
      <4>3. CASE link # "down"
        <5>1. LinkLeft' = LinkLeft
          BY <4>1, <4>3 DEF LinkLeft
        <5> QED
          BY <1>0, <5>1
      <4> QED
        BY <4>2, <4>3
    <3> QED
      BY <3>1, <3>2
  <2> QED
    BY <1>0, <2>1, <2>2, <2>3, NetworkLess
<1> QED
  BY <1>1, <1>2, <1>3, <1>4, <1>5 DEF DriverStep

\* No other step but a boot touches it, and starting the network does not add to it.
LEMMA NetworkNotMore ==
  ASSUME LinkInv, LinkLeft' \in 0..3, [BootNext]_bootVarsAll,
         ~DriverStep, ~HandleEvent, ~Boot
  PROVE  NetworkLeft' <= NetworkLeft
<1>0. /\ LinkLeft \in 0..3 /\ NetworkLeft \in Nat /\ setbacks \in Nat /\ MaxSetbacks \in Nat
      /\ Len(events) \in Nat
  BY NetworkLeftNat
<1>1. ASSUME UNCHANGED <<events, setbacks>>, LinkLeft' <= LinkLeft
      PROVE  NetworkLeft' <= NetworkLeft
  BY <1>0, <1>1 DEF NetworkLeft
<1>2. ASSUME UNCHANGED <<network, linkVars>> PROVE NetworkLeft' <= NetworkLeft
  <2>1. LinkLeft' = LinkLeft
    BY <1>2 DEF LinkLeft, linkVars
  <2> QED
    BY <1>0, <1>1, <1>2, <2>1 DEF linkVars
<1>3. CASE InitWifi \/ InitEthernet
  <2>1. CASE UNCHANGED <<events, setbacks>>
    <3>1. link = "off"
      BY <1>3 DEF InitWifi, InitEthernet, At, LinkInv, EarlyInv, Early
    <3>2. LinkLeft = 3
      BY <3>1 DEF LinkLeft
    <3> QED
      BY <1>1, <2>1, <3>2
  <2> QED
    BY <1>3, <2>1
    DEF InitWifi, InitEthernet, Stops, PowerLoss, deviceVars, networkVars, linkVars
<1>4. CASE SelectMode \/ HandleStorageMode \/ ReadFactoryData \/ InitNvs \/ MountCard
  BY <1>2, <1>4
  DEF SelectMode, HandleStorageMode, ReadFactoryData, InitNvs, MountCard, Stops, PowerLoss,
      deviceVars, networkVars
<1>5. ASSUME NEW s, Initialise(s) PROVE NetworkLeft' <= NetworkLeft
  BY <1>2, <1>5 DEF Initialise, Stops, deviceVars, networkVars
<1>6. CASE \/ BeginSelfTest \/ TestCamera \/ TestNetwork \/ TestBackend \/ Decide
           \/ WaitForNetwork \/ TelemetryBegins \/ Offered \/ Updating \/ PowerLoss
           \/ UNCHANGED bootVarsAll
  BY <1>2, <1>6
  DEF BeginSelfTest, TestCamera, TestNetwork, TestBackend, Decide, WaitForNetwork,
      TelemetryBegins, Offered, Updating, PowerLoss, bootVarsAll, deviceVars, networkVars
<1> QED
  BY <1>3, <1>4, <1>5, <1>6 DEF BootNext, MainAppTask, InitCamera, DriverStep

LEMMA BootRestores == Boot => NetworkLeft' = 5 * MaxSetbacks + 3
<1> SUFFICES ASSUME Boot PROVE NetworkLeft' = 5 * MaxSetbacks + 3
  OBVIOUS
<1>1. setbacks' = 0 /\ events' = <<>> /\ link' = "off"
  BY DEF Boot
<1>2. \A t : t = <<>> => Len(t) = 0
  OBVIOUS
<1>3. LinkLeft' = 3 /\ Len(events') = 0
  BY <1>1, <1>2 DEF LinkLeft
<1> QED
  BY <1>1, <1>3, BootAssumption DEF NetworkLeft


\* For any queue and any number of setbacks: between two boots drivers and handlers take
\* at most 5 * MaxSetbacks + 3 steps, and then the network stays as it is.
THEOREM NetworkAlwaysAdvances == BootSpec => NetworkAdvances
<1> DEFINE Now == LinkInv /\ NetworkLeft \in Nat /\ LinkLeft \in 0..3
<1>1. BootSpec => []Now
  BY LinkInvariant, NetworkLeftNat, PTL
<1>2. Now /\ Now' /\ [BootNext]_bootVarsAll =>
        [/\ DriverStep \/ HandleEvent => NetworkLeft' < NetworkLeft
         /\ NetworkLeft' > NetworkLeft => Boot /\ NetworkLeft' = 5 * MaxSetbacks + 3]_bootVarsAll
  <2> SUFFICES ASSUME Now, Now', [BootNext]_bootVarsAll
               PROVE  /\ DriverStep \/ HandleEvent => NetworkLeft' < NetworkLeft
                      /\ NetworkLeft' > NetworkLeft => Boot /\ NetworkLeft' = 5 * MaxSetbacks + 3
    OBVIOUS
  <2>1. NetworkLeft \in Nat /\ NetworkLeft' \in Nat
    OBVIOUS
  <2>2. CASE DriverStep \/ HandleEvent
    BY <2>1, <2>2, NetworkFewer
  <2>3. CASE ~(DriverStep \/ HandleEvent) /\ ~Boot
    BY <2>1, <2>3, NetworkNotMore
  <2>4. ASSUME Boot PROVE NetworkLeft' = 5 * MaxSetbacks + 3
    BY <2>4, BootRestores
  <2>5. CASE Boot /\ (DriverStep \/ HandleEvent)
    BY <2>1, <2>2, <2>4, <2>5
  <2>6. CASE Boot /\ ~(DriverStep \/ HandleEvent)
    BY <2>4, <2>6
  <2> QED
    BY <2>2, <2>3, <2>5, <2>6
<1> HIDE DEF Now
<1> QED
  BY <1>1, <1>2, PTL DEF BootSpec, NetworkAdvances

\* Without a link and without an event that says so, the last attempt was refused.
AttemptInv ==
  /\ network = "wifi" /\ link = "down" /\ events = <<>> => refused
  /\ network = "ethernet" => link # "joining"

LEMMA AttemptStep == LinkInv /\ AttemptInv /\ [BootNext]_bootVarsAll => AttemptInv'
<1> SUFFICES ASSUME LinkInv, AttemptInv, [BootNext]_bootVarsAll PROVE AttemptInv'
  OBVIOUS
<1>0. network \in {"wifi", "ethernet"} /\ events \in Seq(Event)
  BY DEF LinkInv, BootTypeOK
<1>1. ASSUME UNCHANGED <<network, networkVars>> PROVE AttemptInv'
  BY <1>1 DEF AttemptInv, networkVars, linkVars
<1>2. CASE Boot
  BY <1>2 DEF Boot, AttemptInv
<1>3. CASE InitWifi \/ InitEthernet
  <2>1. CASE Stops \/ PowerLoss
    BY <1>1, <2>1 DEF Stops, PowerLoss, deviceVars
  <2>2. CASE network = "wifi" /\ Connect /\ UNCHANGED network
    BY <2>2 DEF Connect, AttemptInv
  <2>3. CASE network = "ethernet" /\ link' = "down" /\ UNCHANGED network
    BY <2>3 DEF AttemptInv
  <2> QED
    BY <1>3, <2>1, <2>2, <2>3 DEF InitWifi, InitEthernet
<1>4. CASE SelectMode \/ HandleStorageMode \/ ReadFactoryData \/ InitNvs \/ MountCard
  BY <1>1, <1>4
  DEF SelectMode, HandleStorageMode, ReadFactoryData, InitNvs, MountCard, Stops, PowerLoss,
      deviceVars
<1>5. ASSUME NEW s, Initialise(s) PROVE AttemptInv'
  BY <1>1, <1>5 DEF Initialise, Stops, deviceVars
<1>6. CASE \/ BeginSelfTest \/ TestCamera \/ TestNetwork \/ TestBackend \/ Decide
           \/ WaitForNetwork \/ TelemetryBegins \/ Offered \/ Updating \/ PowerLoss
           \/ UNCHANGED bootVarsAll
  BY <1>1, <1>6
  DEF BeginSelfTest, TestCamera, TestNetwork, TestBackend, Decide, WaitForNetwork,
      TelemetryBegins, Offered, Updating, PowerLoss, bootVarsAll, deviceVars
<1>7. CASE LinkUp \/ AddressAssigned \/ AddressLost
  BY <1>7 DEF LinkUp, AddressAssigned, AddressLost, AttemptInv, NetworkStep
<1>8. CASE LinkDown
  <2>1. events' = Append(events, "disconnected") /\ link' = "down"
    BY <1>8 DEF LinkDown, Post
  <2>2. events' # <<>>
    BY <1>0, <2>1, PostedLast DEF Event
  <2> QED
    BY <2>1, <2>2 DEF AttemptInv
<1>9. CASE HandleEvent
  <2>1. /\ events # <<>> /\ events' = Tail(events) /\ UNCHANGED network
        /\ IF network = "wifi" /\ Head(events) = "disconnected"
           THEN Connect ELSE UNCHANGED <<link, refused>>
    BY <1>9 DEF HandleEvent
  <2>2. CASE network = "wifi" /\ Head(events) = "disconnected"
    BY <2>1, <2>2 DEF Connect, AttemptInv
  <2>3. CASE network = "wifi" /\ Head(events) # "disconnected"
    <3>1. events' = <<>> => Last(events) = Head(events)
      BY <1>0, <2>1, HandledFirst
    <3>2. Head(events) = "got_ip"
      BY <1>0, <2>1, <2>3, HandledFirst DEF Event
    <3>3. events' = <<>> => link # "down"
      BY <2>1, <3>1, <3>2 DEF LinkInv, ConnectedFollows
    <3> QED
      BY <2>1, <2>3, <3>3 DEF AttemptInv
  <2>4. CASE network = "ethernet"
    BY <2>1, <2>4 DEF AttemptInv
  <2> QED
    BY <1>0, <2>2, <2>3, <2>4
<1> QED
  BY <1>2, <1>3, <1>4, <1>5, <1>6, <1>7, <1>8, <1>9
  DEF BootNext, MainAppTask, InitCamera

\* However often the link was lost: a started network is connected, about to be, or was
\* given up by a refused esp_wifi_connect.
THEOREM ConnectionAlwaysPending == BootSpec => []ConnectionPending
<1>1. BootInit => AttemptInv
  BY DEF BootInit, AttemptInv
<1>2. LinkInv /\ AttemptInv => ConnectionPending
  BY DEF LinkInv, BootTypeOK, AttemptInv, ConnectionPending, ConnectedFollows, Link
<1> QED
  BY <1>1, <1>2, AttemptStep, LinkInvariant, PTL DEF BootSpec

=============================================================================
