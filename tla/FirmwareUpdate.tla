--------------------------- MODULE FirmwareUpdate ---------------------------
(***************************************************************************)
(* From one firmware image to the next: Device::start with its self-test   *)
(* (main/main.cpp), the update handling of telemetry_task and              *)
(* FirmwareUpdater::apply_update (components/vigo_ota).                    *)
(*                                                                         *)
(* ESP-IDF's bootloader and its OTA calls are outside this repository.     *)
(* They are modelled as the code and sdkconfig.defaults rely on them       *)
(* (CONFIG_BOOTLOADER_APP_ROLLBACK_ENABLE, partitions.csv with two OTA     *)
(* slots and no factory image): a fresh image is booted once as pending;   *)
(* if it is still pending at the next reset it is given up.                *)
(***************************************************************************)
EXTENDS Naturals

Slot == {"ota_0", "ota_1"}

Other(s) == CHOOSE t \in Slot : t # s

VARIABLES
  image,     \* per slot: what is in flash
  verdict,   \* per slot: its state in otadata
  latest,    \* slot that was selected last
  running,   \* slot of the running image, while a program runs
  boot_pc,   \* main_app_task, or what became of it
  passed,    \* history: self-test checks passed since the last reset
  ota_pc,    \* telemetry_task: where it is in its update handling
  status,    \* FirmwareUpdater::status_
  received   \* all bytes of the download have arrived

flashVars == <<image, verdict, latest>>
bootVars  == <<running, boot_pc, passed>>
otaVars   == <<ota_pc, status, received>>
vars == <<flashVars, bootVars, otaVars>>

Check == {"camera", "network", "backend"}

BootPc ==
  {"reset", "start", "run", "storage", "stopped", "verdict", "failed"} \cup Check

TypeOK ==
  /\ image \in [Slot -> {"none", "partial", "whole"}]
  /\ verdict \in [Slot -> {"none", "new", "pending", "valid", "bad"}]
  /\ latest \in Slot
  /\ running \in Slot
  /\ boot_pc \in BootPc
  /\ passed \subseteq Check
  /\ ota_pc \in {"heartbeat", "check", "begin", "perform", "download",
                 "complete", "finish", "report"}
  /\ status \in {"idle", "downloading", "installing", "success", "failed"}
  /\ received \in BOOLEAN

\* A device as it leaves production: one committed image.
Init ==
  /\ image = [s \in Slot |-> IF s = "ota_0" THEN "whole" ELSE "none"]
  /\ verdict = [s \in Slot |-> IF s = "ota_0" THEN "valid" ELSE "none"]
  /\ latest = "ota_0"
  /\ running = "ota_0"
  /\ boot_pc = "reset"
  /\ passed = {}
  /\ ota_pc = "heartbeat"
  /\ status = "idle"
  /\ received = FALSE

-----------------------------------------------------------------------------
(***************************************************************************)
(* The bootloader and the OTA library                                      *)
(***************************************************************************)
Bootable(s) == image[s] = "whole" /\ verdict[s] \in {"new", "valid"}

\* A pending image was not committed before the reset: it is given up.  The slot
\* selected last is booted if it may be, else the other one.
Bootloader ==
  /\ boot_pc = "reset"
  /\ running' = IF Bootable(latest) THEN latest ELSE Other(latest)
  /\ verdict' = [s \in Slot |-> CASE verdict[s] = "pending" -> "bad"
                                  [] s = running' /\ verdict[s] = "new" -> "pending"
                                  [] OTHER -> verdict[s]]
  /\ boot_pc' = "start"
  /\ passed' = {}
  /\ ota_pc' = "heartbeat"
  /\ status' = "idle"
  /\ received' = FALSE
  /\ UNCHANGED <<image, latest>>

\* Power loss, panic, watchdog or the restart after a lost WHIP keep-alive.
Reset ==
  /\ boot_pc # "reset"
  /\ boot_pc' = "reset"
  /\ UNCHANGED <<flashVars, running, passed, otaVars>>

\* esp_ota_check_rollback_is_possible
RollbackPossible == Bootable(Other(running))

-----------------------------------------------------------------------------
(***************************************************************************)
(* main_app_task: Device::start and what app_main does with its result     *)
(***************************************************************************)
\* The mode switch selects mass storage: nothing else is started or tested.
StorageMode ==
  /\ boot_pc = "start"
  /\ boot_pc' = "storage"
  /\ UNCHANGED <<flashVars, running, passed, otaVars>>

\* Factory data, network, camera, encoder, stream server, queue or semaphores: start()
\* returns the error and app_main deletes its task.
StartFails ==
  /\ boot_pc = "start"
  /\ boot_pc' = "stopped"
  /\ UNCHANGED <<flashVars, running, passed, otaVars>>

StartReachesSelfTest ==
  /\ boot_pc = "start"
  /\ boot_pc' = "camera"
  /\ UNCHANGED <<flashVars, running, passed, otaVars>>

NextCheck == [c \in Check |-> CASE c = "camera"  -> "network"
                                [] c = "network" -> "backend"
                                [] c = "backend" -> "verdict"]

\* Slip: the loop that waits for the network falls through when it has waited enough.
CheckTimesOut(c) ==
  /\ boot_pc = c
  /\ \/ passed' = passed \cup {c} /\ boot_pc' = NextCheck[c]
     \/ UNCHANGED passed /\ boot_pc' = IF c = "network" THEN NextCheck[c] ELSE "failed"
  /\ UNCHANGED <<flashVars, running, otaVars>>

\* run_system_self_test: a frame, a connection within 15 s, a heartbeat.
SelfTestCheck(c) ==
  /\ boot_pc = c
  /\ \/ passed' = passed \cup {c} /\ boot_pc' = NextCheck[c]
     \/ UNCHANGED passed /\ boot_pc' = "failed"
  /\ UNCHANGED <<flashVars, running, otaVars>>

\* esp_ota_mark_app_valid_cancel_rollback, then run() starts the tasks.
SelfTestPassed ==
  /\ boot_pc = "verdict"
  /\ verdict' = [verdict EXCEPT ![running] = "valid"]
  /\ boot_pc' = "run"
  /\ UNCHANGED <<image, latest, running, passed, otaVars>>

\* Slip: the image is marked and the device restarted whatever the other slot holds.
SelfTestFailedBlindly ==
  /\ boot_pc = "failed"
  /\ verdict' = [verdict EXCEPT ![running] = "bad"]
  /\ boot_pc' = "reset"
  /\ UNCHANGED <<image, latest, running, passed, otaVars>>

\* esp_ota_mark_app_invalid_rollback_and_reboot returns when there is nothing to roll
\* back to; start() ignores that and succeeds.
SelfTestFailed ==
  /\ boot_pc = "failed"
  /\ IF RollbackPossible
     THEN verdict' = [verdict EXCEPT ![running] = "bad"] /\ boot_pc' = "reset"
     ELSE UNCHANGED verdict /\ boot_pc' = "run"
  /\ UNCHANGED <<image, latest, running, passed, otaVars>>

-----------------------------------------------------------------------------
(***************************************************************************)
(* telemetry_task: one heartbeat with its update, apply_update included    *)
(***************************************************************************)
OtaStep(from) == boot_pc = "run" /\ ota_pc = from /\ UNCHANGED bootVars

\* The heartbeat's answer offers a version.
UpdateOffered ==
  /\ OtaStep("heartbeat")
  /\ status \in {"idle", "failed"}
  /\ ota_pc' = "check"
  /\ UNCHANGED <<flashVars, status, received>>

CheckForUpdate ==
  /\ OtaStep("check")
  /\ ota_pc' \in {"begin", "heartbeat"}
  /\ UNCHANGED <<flashVars, status, received>>

\* Slip: a status that to_status_string has no word for.
ApplyFailsUnnamed == ota_pc' = "heartbeat" /\ status' = "error"

ApplyFails == ota_pc' = "heartbeat" /\ status' = "failed"

\* esp_https_ota_begin opens the connection.
Begin ==
  /\ OtaStep("begin")
  /\ \/ ApplyFails
     \/ ota_pc' = "perform" /\ status' = "downloading"
  /\ received' = FALSE
  /\ UNCHANGED flashVars

\* The first esp_https_ota_perform erases the slot that does not run; it refuses to
\* while the running image is still pending.
PerformFirst ==
  /\ OtaStep("perform")
  /\ \/ ApplyFails /\ UNCHANGED image
     \/ /\ verdict[running] # "pending"
        /\ image' = [image EXCEPT ![Other(running)] = "partial"]
        /\ ota_pc' = "download"
        /\ UNCHANGED status
  /\ UNCHANGED <<verdict, latest, received>>

\* The rest of the loop; it may also end well on a connection closed too early.
PerformRest ==
  /\ OtaStep("download")
  /\ received' \in BOOLEAN
  /\ \/ ApplyFails
     \/ ota_pc' = "complete" /\ status' = "installing"
  /\ UNCHANGED flashVars

CheckComplete ==
  /\ OtaStep("complete")
  /\ IF received THEN ota_pc' = "finish" /\ UNCHANGED status ELSE ApplyFails
  /\ UNCHANGED <<flashVars, received>>

Install(s) ==
  /\ image' = [image EXCEPT ![s] = "whole"]
  /\ verdict' = [verdict EXCEPT ![s] = "new"]
  /\ latest' = s

\* Slip: the result of esp_https_ota_finish is not looked at.
FinishUnchecked ==
  /\ OtaStep("finish")
  /\ Install(Other(running)) \/ UNCHANGED flashVars
  /\ status' = "success"
  /\ ota_pc' = "report"
  /\ UNCHANGED received

\* esp_https_ota_finish verifies the image and selects its slot for the next boot.
Finish ==
  /\ OtaStep("finish")
  /\ \/ Install(Other(running)) /\ status' = "success" /\ ota_pc' = "report"
     \/ ApplyFails /\ UNCHANGED flashVars
  /\ UNCHANGED received

\* Slip: the device reports and waits for the next heartbeat.
ReportOnly ==
  /\ boot_pc = "run"
  /\ ota_pc = "report"
  /\ ota_pc' = "heartbeat"
  /\ UNCHANGED <<flashVars, bootVars, status, received>>

\* One more heartbeat, whatever comes of it, then esp_restart.
ReportAndRestart ==
  /\ boot_pc = "run"
  /\ ota_pc = "report"
  /\ boot_pc' = "reset"
  /\ UNCHANGED <<flashVars, running, passed, otaVars>>

-----------------------------------------------------------------------------
MainTask ==
  \/ StorageMode \/ StartFails \/ StartReachesSelfTest
  \/ \E c \in Check : SelfTestCheck(c)
  \/ SelfTestPassed \/ SelfTestFailed

Update ==
  \/ CheckForUpdate \/ Begin \/ PerformFirst \/ PerformRest
  \/ CheckComplete \/ Finish \/ ReportAndRestart

TelemetryTask == UpdateOffered \/ Update

Next == Bootloader \/ Reset \/ MainTask \/ TelemetryTask

\* The bootloader, start() and an update that has begun go on by themselves; resets
\* and offers of the backend need not happen.
Spec == /\ Init
        /\ [][Next]_vars
        /\ WF_vars(Bootloader)
        /\ WF_vars(MainTask)
        /\ WF_vars(Update)

-----------------------------------------------------------------------------
\* Whatever resets, failed downloads and failed self-tests happen, some slot holds a
\* whole image that once passed its self-test, or was shipped, and was not given up:
\* the device cannot brick itself.
OneCommittedImage == \E s \in Slot : image[s] = "whole" /\ verdict[s] = "valid"

\* The success that is reported to the backend is true: the next reset boots the new
\* image.
SuccessIsInstalled ==
  boot_pc = "run" /\ status = "success" =>
    latest = Other(running) /\ image[latest] = "whole" /\ verdict[latest] = "new"

\* An image is committed only after all three checks passed since the last reset.
CommittedIsTested ==
  [][\A s \in Slot :
       verdict[s] # "valid" /\ verdict'[s] = "valid" => passed = Check]_vars

\* An installed image is booted, even when power fails before success is reported.
InstalledIsBooted ==
  \A s \in Slot : verdict[s] = "new" ~> verdict[s] # "new"

\* README.md, "Automated Validation Lifecycle": on boot the self-test is invoked; it
\* commits the image or, if it fails or the system crashes before completion, the
\* bootloader rolls back.  Either way a pending image does not stay pending, unless
\* the user has chosen storage mode.
VerdictIsReached ==
  \A s \in Slot :
    verdict[s] = "pending" ~> verdict[s] # "pending" \/ boot_pc = "storage"

=============================================================================
