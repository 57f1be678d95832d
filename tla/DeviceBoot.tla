----------------------------- MODULE DeviceBoot -----------------------------
(***************************************************************************)
(* FirmwareUpdate from inside: the stages of Device::start with the SD     *)
(* card (components/vigo_storage), and the network (components/vigo_net)   *)
(* on which the self-test and telemetry_task wait.                         *)
(*                                                                         *)
(* The event loop, the Wi-Fi co-processor and the Ethernet driver are      *)
(* outside this repository: they post events in the order in which things  *)
(* happen, and the handlers run in one task, one event at a time.          *)
(***************************************************************************)
EXTENDS FirmwareUpdate, Sequences, SequencesExt

CONSTANTS MaxWaits,     \* seconds the self-test waits for the network
          MaxSetbacks,  \* what may go wrong in the network after one reset
          EventQueue    \* events the loop can hold

ASSUME BootAssumption == {MaxWaits, MaxSetbacks, EventQueue} \subseteq Nat \ {0}

VARIABLES
  network,    \* network_type in the factory partition
  stage,      \* start(): what it does next
  link,       \* the network, as the driver sees it
  events,     \* posted, not handled yet
  connected,  \* NetworkManager::connected_
  setbacks,   \* lost links, lost addresses and failed attempts since the reset
  refused,    \* history: the last esp_wifi_connect returned an error
  waits,      \* run_system_self_test: retries
  waited,     \* its loop has been left
  online      \* telemetry_task has left its own loop

linkVars    == <<link, events, setbacks>>
networkVars == <<linkVars, connected, refused>>
waitVars    == <<waits, waited, online>>
deviceVars  == <<network, stage, networkVars, waitVars>>

Stage == {"mode", "factory", "nvs", "network", "card", "camera", "encoder", "server",
          "tasks", "done", "usb"}

\* "expired": the address is lost, the link is not.
Link == {"off", "down", "joining", "up", "expired", "address"}

Event == {"disconnected", "got_ip"}

BootTypeOK ==
  /\ TypeOK
  /\ network \in {"wifi", "ethernet"}
  /\ stage \in Stage
  /\ link \in Link
  /\ events \in Seq(Event) /\ Len(events) <= EventQueue
  /\ connected \in BOOLEAN
  /\ setbacks \in 0..MaxSetbacks
  /\ refused \in BOOLEAN
  /\ waits \in 0..MaxWaits
  /\ waited \in BOOLEAN
  /\ online \in BOOLEAN

BootInit ==
  /\ Init
  /\ network \in {"wifi", "ethernet"}
  /\ stage = "mode"
  /\ link = "off"
  /\ events = <<>>
  /\ connected = FALSE
  /\ setbacks = 0
  /\ refused = FALSE
  /\ waits = 0
  /\ waited = FALSE
  /\ online = FALSE

\* The program starts from its initial values.
Boot ==
  /\ Bootloader
  /\ stage' = "mode"
  /\ link' = "off"
  /\ events' = <<>>
  /\ connected' = FALSE
  /\ setbacks' = 0
  /\ refused' = FALSE
  /\ waits' = 0
  /\ waited' = FALSE
  /\ online' = FALSE
  /\ UNCHANGED network

PowerLoss == Reset /\ UNCHANGED deviceVars

-----------------------------------------------------------------------------
(***************************************************************************)
(* Device::start                                                           *)
(***************************************************************************)
At(s) == boot_pc = "start" /\ stage = s

GoTo(s) == stage' = s /\ UNCHANGED vars

Stops == StartFails /\ UNCHANGED deviceVars

\* The button is held: mass storage, the network is never brought up.
SelectMode ==
  /\ At("mode")
  /\ \/ StorageMode /\ UNCHANGED stage
     \/ GoTo("factory")
  /\ UNCHANGED <<network, networkVars, waitVars>>

\* SdCard::enable_tinyUSB: the card is initialised for the host's block access and the
\* USB stack installed; whatever fails aborts, a missing card for one.
EnableTinyUsb ==
  \/ stage' = "usb" /\ UNCHANGED vars
  \/ Reset /\ UNCHANGED stage

\* init_storage aborts too when it fails.
HandleStorageMode ==
  /\ boot_pc = "storage"
  /\ stage = "mode"
  /\ EnableTinyUsb
  /\ UNCHANGED <<network, networkVars, waitVars>>

\* The seven entries of the factory partition, the Wi-Fi's also for Ethernet.
ReadFactoryData ==
  /\ At("factory")
  /\ \/ Stops
     \/ GoTo("nvs") /\ UNCHANGED <<network, networkVars, waitVars>>

\* A partition without free pages, or of another version, is erased and tried again;
\* any other error aborts.
InitNvs ==
  /\ At("nvs")
  /\ \/ PowerLoss
     \/ GoTo("network") /\ UNCHANGED <<network, networkVars, waitVars>>

\* esp_wifi_connect: the co-processor begins to associate, or refuses.
Connect ==
  \/ link' = "joining" /\ refused' = FALSE
  \/ link' = "down" /\ refused' = TRUE

\* init_wifi: the co-processor, the driver, the handlers, a scan; its last call is
\* esp_wifi_connect, whose result is not looked at.
InitWifi ==
  /\ At("network")
  /\ network = "wifi"
  /\ \/ Stops
     \/ PowerLoss
     \/ /\ GoTo("card")
        /\ Connect
        /\ UNCHANGED <<network, events, setbacks, connected, waitVars>>

InitEthernet ==
  /\ At("network")
  /\ network = "ethernet"
  /\ \/ Stops
     \/ PowerLoss
     \/ /\ GoTo("card")
        /\ link' = "down"
        /\ UNCHANGED <<network, events, setbacks, connected, refused, waitVars>>

\* The results are not looked at: without power control storage_ stays empty and is
\* mounted all the same, which may end in a panic.
MountCard ==
  /\ At("card")
  /\ \/ GoTo("camera")
     \/ Reset /\ UNCHANGED stage
  /\ UNCHANGED <<network, networkVars, waitVars>>

AfterStage == [s \in {"camera", "encoder", "server", "tasks"} |->
                 CASE s = "camera" -> "encoder" [] s = "encoder" -> "server"
                   [] s = "server" -> "tasks"   [] s = "tasks" -> "done"]

\* Encoder, stream server; then the clients, queue, semaphores and callbacks.
Initialise(s) ==
  /\ At(s)
  /\ \/ Stops
     \/ /\ GoTo(AfterStage[s])
        /\ UNCHANGED <<network, networkVars, waitVars>>

\* HardwareCamera::init: each of its driver calls may fail but for the second LDO's,
\* which is only logged.
InitCamera == Initialise("camera")

BeginSelfTest ==
  /\ At("done")
  /\ StartReachesSelfTest
  /\ UNCHANGED deviceVars

-----------------------------------------------------------------------------
(***************************************************************************)
(* run_system_self_test                                                    *)
(***************************************************************************)
TestCamera == SelfTestCheck("camera") /\ UNCHANGED deviceVars

WaitForNetwork ==
  /\ boot_pc = "network"
  /\ ~waited
  /\ IF connected \/ waits = MaxWaits
     THEN waited' = TRUE /\ UNCHANGED waits
     ELSE waits' = waits + 1 /\ UNCHANGED waited
  /\ UNCHANGED <<vars, network, stage, networkVars, online>>

\* After the loop connected_ is read once more.
TestNetwork ==
  /\ waited
  /\ SelfTestCheck("network")
  /\ "network" \in passed' <=> connected
  /\ UNCHANGED deviceVars

\* post_json_with_response: whatever connected_ says, an answer of the 2xx class comes
\* through a network that has an address.
MayBeAnswered == link = "address"

\* send_heartbeat fails without such an answer, or when it is no JSON.
TestBackend ==
  /\ SelfTestCheck("backend")
  /\ "backend" \in passed' => MayBeAnswered
  /\ UNCHANGED deviceVars

Decide == (SelfTestPassed \/ SelfTestFailed) /\ UNCHANGED deviceVars

MainAppTask ==
  \/ SelectMode \/ HandleStorageMode \/ ReadFactoryData \/ InitNvs
  \/ InitWifi \/ InitEthernet \/ MountCard
  \/ InitCamera \/ \E s \in {"encoder", "server", "tasks"} : Initialise(s)
  \/ BeginSelfTest \/ TestCamera \/ WaitForNetwork \/ TestNetwork \/ TestBackend
  \/ Decide

-----------------------------------------------------------------------------
(***************************************************************************)
(* The network and its event handlers                                      *)
(***************************************************************************)
Post(e) == Len(events) < EventQueue /\ events' = Append(events, e)

\* Bound: after MaxSetbacks of them the network stays.
Setback == setbacks < MaxSetbacks /\ setbacks' = setbacks + 1

NetworkStep ==
  /\ boot_pc # "reset"
  /\ UNCHANGED <<vars, network, stage, connected, refused, waitVars>>

\* The access point accepts, or a cable is plugged in.  Of these events the handlers
\* only log.
LinkUp ==
  /\ link = IF network = "wifi" THEN "joining" ELSE "down"
  /\ link' = "up"
  /\ UNCHANGED <<events, setbacks>>
  /\ NetworkStep

AddressAssigned ==
  /\ link \in {"up", "expired"}
  /\ link' = "address"
  /\ Post("got_ip")
  /\ UNCHANGED setbacks
  /\ NetworkStep

\* The attempt fails, or the link goes down.
LinkDown ==
  /\ link \in {"joining", "up", "expired", "address"}
  /\ link' = "down"
  /\ Post("disconnected")
  /\ Setback
  /\ NetworkStep

\* A lease that is not renewed: no handler is registered for that event.
AddressLost ==
  /\ link = "address"
  /\ link' = "expired"
  /\ Setback
  /\ UNCHANGED events
  /\ NetworkStep

\* Slip: connected_ is set by the first address and never cleared again.
FollowGains(flag, e) == flag \/ e = "got_ip"

\* What a handler makes of connected_.
Follow(flag, e) == e = "got_ip"

\* Slip: the handler only notes that the connection is lost.
HandleEventPassively ==
  /\ boot_pc # "reset"
  /\ events # <<>>
  /\ events' = Tail(events)
  /\ connected' = Follow(connected, Head(events))
  /\ UNCHANGED <<vars, network, stage, link, setbacks, refused, waitVars>>

\* eth_event_handler and wifi_event_handler; the latter connects anew.
HandleEvent ==
  /\ boot_pc # "reset"
  /\ events # <<>>
  /\ events' = Tail(events)
  /\ connected' = Follow(connected, Head(events))
  /\ IF network = "wifi" /\ Head(events) = "disconnected"
     THEN Connect
     ELSE UNCHANGED <<link, refused>>
  /\ UNCHANGED <<vars, network, stage, setbacks, waitVars>>

-----------------------------------------------------------------------------
(***************************************************************************)
(* telemetry_task                                                          *)
(***************************************************************************)
TelemetryBegins ==
  /\ boot_pc = "run"
  /\ ~online
  /\ connected
  /\ online' = TRUE
  /\ UNCHANGED <<vars, network, stage, networkVars, waits, waited>>

\* An offer has come through the network.
Offered == online /\ MayBeAnswered /\ UpdateOffered /\ UNCHANGED deviceVars

Updating == online /\ Update /\ UNCHANGED deviceVars

-----------------------------------------------------------------------------
BootNext ==
  \/ Boot \/ PowerLoss \/ MainAppTask
  \/ LinkUp \/ AddressAssigned \/ LinkDown \/ AddressLost \/ HandleEvent
  \/ TelemetryBegins \/ Offered \/ Updating

bootVarsAll == <<vars, deviceVars>>

\* Tasks and handlers go on.  The network answers in the end: an attempt ends, a cable
\* is plugged in, an address is assigned.
BootSpec ==
  /\ BootInit
  /\ [][BootNext]_bootVarsAll
  /\ WF_bootVarsAll(Boot)
  /\ WF_bootVarsAll(MainAppTask)
  /\ WF_bootVarsAll(HandleEvent)
  /\ WF_bootVarsAll(LinkUp)
  /\ WF_bootVarsAll(AddressAssigned)
  /\ WF_bootVarsAll(TelemetryBegins)
  /\ WF_bootVarsAll(Updating)

-----------------------------------------------------------------------------
\* However events queue up while the network comes and goes, connected_ is on its way
\* to what the link is: when the last event is handled it tells whether there is an
\* address, or was one that was lost alone.
ConnectedFollows ==
  (IF events = <<>> THEN connected ELSE Last(events) = "got_ip")
    <=> link \in {"address", "expired"}

\* A device that runs gets its connection, after whatever the network did before: each
\* lost link and each failed attempt is followed by a new attempt, and both poll loops
\* of connected_ are left.  Only a refused esp_wifi_connect ends the chain for good.
OnlineAgain ==
  boot_pc = "run" ~> (online /\ connected) \/ refused \/ boot_pc # "run"

=============================================================================
