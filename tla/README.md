# Verification of the VIGO firmware

TLA+ models of the VIGO (Video Intelligence Guard Outpost) firmware, the runs of
the model checker TLC over them, and proofs checked by TLAPS. Paths are relative
to the repository.

## 1. The system

One ESP32-P4 program. `app_main` starts `main_app_task`, which runs
`Device::start()` and then `Device::run()` (main/main.cpp). `run()` creates five
tasks that never end; the camera, the scaler (PPA), the HTTP server and the
network stack add interrupts and tasks of their own.

| Component | State it keeps | Operations | Talks to |
|---|---|---|---|
| Hardware camera (`camera.cpp`) | DMA buffers, `frame_ready_que`, `last_trans`, `has_last_transaction` | `init`, `capture`, frame interrupt | `camera_task`, `TelemetryCollector` (both call `capture`) |
| Detection pipeline (`motion_detector.cpp`, `surveillance_pipeline.cpp`, callbacks in `main.cpp`) | `detection_buffer_`, two semaphores, `is_processing_`, `ppa_used_for_current_frame_`, two half-size pictures, `motion_queue_` | hand-off in `camera_task`, `detection_task`, `process_frame_async`, PPA interrupt, `worker_loop`, `motion_upload_task` | camera, pedestrian detector, telemetry collector, backend |
| Pedestrian detector (`pedestrian_detector.cpp`) | `inference_frame_`, `ppa_sem_` | `detect` | PPA, motion worker |
| Snapshots (`main.cpp`, `vigo_telemetry.cpp`) | `request_telemetry_snapshot_`, `latest_frame_`, `has_latest_frame_` | copy in `camera_task`, wait and take in `telemetry_task`, `collect` | camera, backend |
| Local stream server (`stream_server.cpp`, `stream_page.template.h`) | `clients_`, `clients_mutex_`; in the browser the WebSocket and its callbacks | `start`, `stop`, `push_frame`, `ws_handler`; the page's `connect()` | `camera_task`, the task of esp_http_server, browsers |
| Firmware update (`main.cpp`, `vigo_ota.cpp`) | `status_`, two slots and otadata in flash | `start` with `run_system_self_test`, `check_for_update`, `apply_update` | bootloader, backend |
| WHIP publisher (`vigo_whip.cpp`, `main.cpp`) | `whip_publisher_`, `active_whip_url_`, socket, certificate, TLS contexts, SRTP keys, `remote_ip_`, `remote_port_`, `seq_num_`, `roc`, `last_seq`, `has_error_` | `start` (certificate, offer and answer, DTLS configuration, socket, ICE binding, handshake, keys), `stop`, `push_frame`, `srtp_protect` | `telemetry_task` (control), `camera_task` (media), the WHIP server |
| Network manager (`net.cpp`) | `connected_` | `init_wifi`, `init_ethernet`, event handlers, `HttpClient` | the event loop, self-test, `telemetry_task` |
| Boot (`Device::start`) | mode, stage | button, factory data, NVS, network, SD card, camera, encoder, server, tasks | every component above |
| Backend client (`vigo_backend.cpp`) | none | heartbeat, motion event, offline | HTTP |
| SD card and USB storage (`vigo_storage`), factory data | drivers | `mount`, `enable_tinyUSB`, read | stages of boot |
| Encoder, audio recorder, LED | drivers, files | sequential I/O | |

What is hard to test here: the semaphores, the interrupt and the task
notification that carry one frame through four contexts; two tasks inside a
`capture()` without a lock; two tasks and an HTTP server around one mutex; socket numbers that
stand for one browser now and another later; resets at any step of an update; a
network that comes and goes while two tasks poll one flag; a publisher whose
start takes eleven stages, most of which may fail, and which is replaced while
frames are pushed; 16-bit numbers that wrap. `PROJECT.json` lists each of these
hazards at its line with the properties that watch it.

What makes each component correct:

- detection: one right to use the buffer; evidence shows what triggered it; no
  frame and no payload is lost or freed twice;
- camera and snapshots: each DMA buffer in one place, none overwritten while it
  is read; a demand is answered with a recent frame;
- stream server: one entry per socket, first a keyframe, nobody skipped, never a
  stand-still; a page that shows "Live" is served;
- update: always a bootable committed image, true reports, a verdict for each
  new image;
- network: `connected_` follows the link, a running device gets back on line;
- WHIP control: only a started publisher is used, its socket, keys and contexts
  are not lost, `start()` returns, the media goes to the server, errors lead to
  a restart;
- WHIP media: indices never repeat and the server derives the same ones;
  fragments are whole and fit.

## 2. Modules

`camera_task` is one loop that serves detection, snapshots, WHIP and the
viewers in turn. Each of these parts shares variables with a different partner
and none with each other, so each module takes the slice of the loop that
touches its variables; the remaining parts of the loop are stuttering steps of
that module.

| Module | Models | State and steps |
|---|---|---|
| `DetectionPipeline` | the detection pipeline | semaphores are 0 or 1, a task notification is a counter that the worker clears, a picture is the scene it shows, or `NoScene` while it is being written. `camera_pc`, `detection_pc`, `worker_pc` stand between the accesses to shared state. `DetectionMayRun` is the fixed-priority scheduler of core 0, where both `detection_task` (4) and the worker (5) are pinned |
| `FrameHandoff` | abstract: what that pipeline promises | one slot, free, filling, full or busy |
| `DetectionPipelineProofs` | | proofs about `DetectionPipeline` |
| `PedestrianPpa` | `PedestrianDetector::detect`, the step `Detect` of `DetectionPipeline` from inside | who is writing `inference_frame_` (PPA, CPU), what will result if nobody interferes, the token in `ppa_sem_`; a transaction that timed out goes on. The history variable `clean` says that a call began with nothing left over and did not time out |
| `PedestrianPpaProofs` | | proofs about `PedestrianPpa` |
| `CameraBuffers` | `HardwareCamera` | `capture()` split at its accesses to shared members, for any set of tasks; the controller takes buffers from its queue, else its private one. The history `overlapped` says that a task has called `capture()` while another was inside |
| `TelemetrySnapshot` | `camera_task` and `telemetry_task` around the camera; extends `CameraBuffers` | the request flag, the mutex-protected copy, the wait and its timeout, the fall-back to `capture()` |
| `TelemetrySnapshotProofs` | | proofs about `TelemetrySnapshot` and `CameraBuffers` |
| `StreamServer` | `push_frame`, `ws_handler` and the server task | the walk over `clients_` step by step; each send is queued to the server task and waited for |
| `ViewerSession` | `StreamServer` with `start()` and the viewers; extends it | `owner` says whose session a socket number stands for, which the code does not know; a page is closed, in its handshake or live; `hello` is its one message, `dropped` the history of failed sends |
| `MCViewerSession` | `ViewerSession` for TLC | permutes browsers and sockets |
| `ViewerSessionProofs` | | proofs about `ViewerSession` and `StreamServer` |
| `FirmwareUpdate` | boot, self-test, update | a reset is possible everywhere and keeps only flash; every library call may fail; `start()` is one step |
| `DeviceBoot` | `FirmwareUpdate` with `start()` stage by stage and the network; extends it | `stage` is what `start()` does next; `link` is the network as the driver sees it, `events` what the loop has not handled yet; the two loops that poll `connected_` are `WaitForNetwork` and `TelemetryBegins` |
| `DeviceBootProofs` | | proofs about `DeviceBoot` and `FirmwareUpdate` |
| `WhipControl` | life cycle of `whip_publisher_` | a URL is a base, the query other than the token, and the token; a publisher is new, connecting, live or errored; `start()` is three steps |
| `WhipSdp` | the loop of `parse_sdp_answer`, the look-ups after it, and `inet_pton` in `do_ice_binding` | operators: what one line makes of the address and the port, each with the line it came from, what the look-ups make of them and what is connected to. An address is an IPv4 address (the device's own, private, another), a name, `localhost`, or `misread`: an IPv6 address or a name that begins with a digit, which the code takes for an IPv4 address |
| `WhipSession` | `WhipControl` with `start()` and `stop()` from inside; extends it and `WhipSdp` | `start_pc` is the stage (the answer is read one line per step into `target`), `session` the members that stand for resources, `inbox` the socket's datagrams, `key_store` the keys of this component; `lost` and `auth_failures` are histories |
| `WhipSessionProofs` | | proofs about `WhipSession` and `WhipControl` |
| `RtpStream` | media path of a connected publisher, with the receiving server | the frame's bytes are counted; one packet is on its way at a time; the server follows RFC 3711 (index) and RFC 6184 (fragments) |
| `RtpStreamProofs` | | proofs about `RtpStream` |

`DeviceBoot`, `WhipSession` and `ViewerSession` do not restate the module they
extend: each of their steps is a step of it with its own variables added, or
leaves its variables alone. So what holds of the small module for every
behaviour holds of the detailed one, which the proofs use, and `ControlSpec`
checks with the fairness included.

Operators introduced by a comment "Slip: ..." are not part of any
specification. Each is a plausible mistake in the operator that follows it and
serves to show that a property would notice: `PROJECT.json`, "mutants".

### Outside the repository

FreeRTOS (semaphores, queues, priorities), the PPA and CSI drivers,
esp_http_server, the bootloader with `CONFIG_BOOTLOADER_APP_ROLLBACK_ENABLE`
(sdkconfig.defaults) and two OTA slots without a factory image
(partitions.csv), mbedTLS and the WHIP server are modelled by what the code
relies on:

- `httpd_ws_send_data` queues the send as work for the server's only task and
  blocks until it has run; that task also runs the handlers;
- a fresh image is booted as pending, and given up if it is still pending at the
  next reset; `esp_ota_mark_app_invalid_rollback_and_reboot` returns when the
  other slot cannot be booted; an update is refused while the running image is
  pending;
- the event loop hands events to the handlers one at a time and in the order in
  which the driver posted them; `esp_wifi_connect` begins an attempt or returns
  an error; an attempt ends in a link or in a "disconnected" event;
- a key import of the PSA may fail for any reason, and does when its store, of a
  fixed number of slots, is full;
- a look-up finds an IPv4 address of any kind or none, each time anew;
- `mbedtls_ssl_handshake` asks for a datagram through `dtls_recv`, takes a DTLS
  record or fails on it, and ends with the keys exported or not;
- the CSI controller refuses a buffer when its queue is full, and reports only
  frames that it wrote into a queued buffer.

## 3. Runs

| Run | Question | Instance | Outcome |
|---|---|---|---|
| DetectionPipeline | is the hand-off right under every interleaving the priorities allow? | two scenes, queue of 2: 28,629 states | holds |
| DetectionLayout | do identical frames stay quiet? | the same | violated, finding |
| PedestrianPpa | does the network see the frame it was given? | two scenes, PPA and callback registered or not: 1,520 states | holds |
| TelemetrySnapshot | are buffers conserved and demands answered? | two buffers, controller queue of 3: 256,812 states | holds |
| SharedCapture | is the frame under the encoder out of the controller's reach? | 3 buffers and a queue of 5, the code's values | violated, finding |
| StreamServer | is the list of viewers right, and who is in it served, whatever comes and goes? | three sockets, two browsers and others: 956,106 states up to symmetry | holds |
| StreamDeadlock | can the camera and the server wait for each other? | the same | violated, finding |
| FirmwareUpdate | can a device be bricked, is what is reported and committed true, does it get on line? | two slots, as in the code; two waits, two setbacks per boot, three events: 160,288 states | holds |
| FirmwareVerdict | does a pending image get its verdict? | `FirmwareUpdate` alone | violated, finding |
| WhipControl | who uses, starts, replaces and frees the publisher, and what does it leave behind? | two endpoints (one with a public name), two tokens, three key slots, three lines, two polls, attempts, datagrams and records: 292,080 states | holds |
| WhipQuery | is only the token ignored? | one endpoint, two queries | violated, finding |
| RtpStream | are numbers, indices and fragments right? | modulus 8, MAX_PAYLOAD 4, frames of 3, 4, 5 and 8 bytes, 18 packets: 449,954 states | holds |

Each passing run also checks the type invariant of its module. What the
properties say is stated above each of them in the modules.

**Bounds.** Two scenes are enough to tell the frame that triggered from
another. A motion queue of 2 becomes full, empty and half full. With two
buffers the camera already starves (one written, one saved), and a queue of 3
is the same one larger than needed as the code's 5 over 3. Three sockets give
a first, middle and last entry to erase, and two browsers with others take each
other's socket numbers. `MaxWaits` (15 in the code) and `MaxPolls` and
`MaxAttempts` in `start()` are loops whose rounds differ in nothing but their
number; 2 has a first, another and the last one. `MaxSetbacks` 2 lets a link be
lost again while the first loss is still queued; `EventQueue` 3 holds all that
can be pending then. Three key slots: the second
import may fail at any time and each failure keeps a slot, so that a publisher finds
room for both keys, then for one, then for none. Answers of up to three
lines (`MaxLines`) put each kind of candidate before and after each other line; the
proof is for any number.
`MaxAge` in `TelemetrySnapshot` stops
counting at the second cycle, past what the property allows. In `RtpStream`
the modulus 8 keeps the half and the quarter that `srtp_protect` compares with
apart and 18 packets wrap twice; `MaxPayload` 4 leaves two bytes per fragment,
so that 3 and 4 are single packets, the second a full one, 5 is the shortest
fragmented frame and 8 has four fragments with a short last one; fewer than half
the numbers may be lost in a row (`MayLose`), which is what RFC 3711 itself needs.

**Deadlock.** TLC checks for it except in two passing runs. `RtpStream` stops
at `MaxPackets` and at `esp_restart`. `StreamServer` really can stop: that is
the finding of StreamDeadlock.

**Fairness.** `DetectionPipeline`: the four tasks are endless loops that the
scheduler runs when they are ready and no higher one is, and the PPA completes
a transaction; the code has no answer if it does not. `PedestrianPpa` asks
nothing of the PPA: only the worker goes on and the 100 ms pass. `FirmwareUpdate` and
`DeviceBoot`: the bootloader, `start()`, both poll loops, the event handlers and
a begun update go on, for each is a task or the loop's own; resets, failures and
offers of the backend are never required. `OnlineAgain` also assumes that the
network answers in the end (`LinkUp`, `AddressAssigned`) and that it is lost a
finite number of times per boot (`MaxSetbacks`). `ViewerSession` has no fairness:
only safety is checked. `WhipSession`: both tasks go on; nothing is asked of the
WHIP server, which may answer with anything or stay silent, so that `start()`
returns by its own bounds alone; only the DTLS records it may send during one
`start()` are finite (`MaxRecords`), since a handshake takes a few flights. `WhipControl`: both tasks go on, and
`telemetry_task` gets `whip_mutex_` because `camera_task` waits for a frame
between two pushes (`SF_vars(Lock)`). `ErrorIsReplaced` also assumes that the
backend keeps asking for a stream.

## 4. Findings

1. **Two layouts compared as one** (motion_detector.cpp:357). The PPA leaves
   interleaved YUV420 in the picture that the CPU fall-back leaves as plain gray.
   A single failed PPA start makes the next comparisons meaningless; tests/unit/main/test_main.cpp:51
   expects identical frames to be quiet.
2. **A buffer recycled under the encoder** (vigo_telemetry.cpp:75). After 200 ms
   without a copy `telemetry_task` calls `capture()` itself, which returns the
   buffer of `camera_task` to the controller, against camera.cpp:319-321.
   When the two calls also overlap, buffers can be queued twice or lost:
   `BuffersConservedApart` keeps the two apart. A lock around `capture()` alone would
   conserve the buffers and leave the encoder's frame unprotected. Checked with the
   constants of SharedCapture, the invariant `~Starved` (TelemetrySnapshotProofs) fails:
   overlapping calls can lose all three buffers one after the other, and from then on
   every `capture()` times out (`StarvationIsFinal`).
3. **The viewer's deadlock** (stream_server.cpp:306). `push_frame` waits for the
   server task with `clients_mutex_` held, `ws_handler` waits on the server task
   for `clients_mutex_`. It needs one handshake or message while a frame is being
   sent to another viewer, and stops `camera_task`. It is the only stand-still of the
   two (`WaitsAlwaysServed`), and nothing ends it (`StandStillIsFinal`).
4. **No verdict after a failed start** (main.cpp:793). Errors of `start()`
   before the self-test end `main_app_task` without a reboot; README.md:119-126
   promises a test at every boot and a roll-back on failure. The next reset
   does roll back: `OneCommittedImage` holds. It is the only way, next to storage
   mode, in which an image stays pending: start and self-test end after a bounded
   number of steps (`BootAlwaysAdvances`, `BootAlwaysMovable`), and the tasks never run
   on a pending image (`PendingAlwaysTested`).
5. **More than the token is ignored** (main.cpp:82), against the comment in the
   line before.

Seen while modelling, without a run of their own, and in several cases the exception
that a property names:

- Pedestrian detector: a transaction that is finished after the 100 ms leaves
  its token in `ppa_sem_`. The next call takes it at once and reads
  `inference_frame_` before its own transaction has written it, and leaves its
  own token in turn: the detector stays one transaction behind until one
  finishes while the token is still there. `SeesItsFrame` and `LeavesQuiet` say
  that only a timeout starts this.
- Network: a lost DHCP address has no handler, so `connected_` stays true
  (`AddressLost`, the state "expired" in `ConnectedFollows`). A refused
  `esp_wifi_connect` (net.cpp:270, 293) ends the chain of attempts for good
  (`refused` in `OnlineAgain`).
- Viewers: entries of `clients_` outlive their session, and a socket number that
  is used again inherits one with its ready flag. `LiveIsServed` shows that this
  costs no page its pictures. What does is a failed send whose session stays
  open (stream_server.cpp:308): the page shows "Live" and stands still.
  `STREAM_MAX_CLIENTS` is never read; the server's sockets are the limit, and
  when they run out it closes the sessions that were silent longest, which are
  the viewers'. Of a WebSocket message longer than its buffer nothing is read
  (stream_server.cpp:273).
- WHIP: with three calls failing something is left behind or freed unset: the
  second key import (vigo_whip.cpp:1200, `auth_failures` in `KeysOwned`), the
  configuration of the TLS contexts (781) and `psa_crypto_init` (386, both
  `OnlyKnownLosses`). A refused import inside `srtp_kdf` is only logged
  (vigo_whip.cpp:83). The limit of the handshake counts calls, not time: the
  five seconds of its comment can be minutes, with `whip_mutex_` held. ICE
  binding and the drain after it throw away whatever else has arrived, binding
  requests and the first flight of the handshake among them; the peer has to
  repeat them. A public `c=` line makes the candidates after it ignored. The result
  of `inet_pton` (vigo_whip.cpp:895) is not looked at: an IPv6 address that comes
  first (a later IPv4 candidate is then ignored), a name that is not found or one
  that begins with a digit, as the `.local` names of browsers may, connects the socket
  to 0.0.0.0. So does a look-up that answers 0.0.0.0 (546). `start()` then fails
  only at the end of the handshake. `MediaGoesToServer` names these exceptions.
- Boot: a device on Ethernet does not start without the Wi-Fi entries of the
  factory data; `mount()` is called on a `storage_` that may be empty
  (main.cpp:273).

## 5. Proofs

Checked by `tlapm`, for every value of the constants that satisfies the
ASSUMEs of the modules: values that stand for "none" (`NoScene`, `NoBuffer`, `NoFd`,
`NoBase`, `NoToken`, `Other`, `Nobody`) are no members of the sets they complete;
queues and bounds are not empty; the camera has finitely many buffers and the
controller's queue holds them all; the modulus is divisible by 4 and greater
than 4, `MaxPayload` is greater than 2, frames are not empty; the key store has a
slot. The real values satisfy them.

Liveness under fairness is out of the prover's reach, but its safety core is not:
a number of steps that are left, which each step of those concerned lowers and
which no other step raises unless a new round begins, and a next step that can
always be taken. What fairness adds is that it is taken. What only a theorem
states was checked by TLC on the instance of its module's run before. These theorems end in
`Advances` and in `Movable`, `Pending` or `Served`; the numbers hold for every
value of the bounds that TLC needs small.

**DetectionPipelineProofs.**

- `TypeCorrect`: the type invariant.
- `OneHolderAlways`: `OneHolder` is not inductive. If `detection_task` could
  find `is_processing_` set, the frame and with it the right to the buffer would
  be dropped. `ClaimSucceeds` rules that out: while `detection_task` is about to
  claim, the worker is blocked and the flag is clear, because
  `detection_task` runs only when the worker, of higher priority on the same
  core, is blocked. `HolderInv` is the conjunction of both.
- `EvidenceAlwaysMatches`: needs `FrameIntact` (the buffer holds a whole
  picture whenever it is not idle or being copied) and `GrayFresh` (the picture
  that will be compared was made from the buffer), both on top of `HolderInv`.
- `PayloadsAlwaysOwned`: inductive with the types.
- `HandoffRefined`: the initial states map to `FrameHandoff`'s, and each step
  maps to a step or a stutter, given the invariants above. The fairness of the
  abstract specification is checked by TLC only (`HandoffSpec`).
- `FrameAlwaysAdvances`, `FrameAlwaysMovable`: `Hops` counts what is left of a frame, at
  most sixteen steps. A notification counts eight of them, so that the worker which
  clears it in one step may then do seven. That the next step can be taken needs
  `OneHolder` and the priorities: what keeps `detection_task` from running is a worker
  that runs itself.

**PedestrianPpaProofs.**

- `DetectTypeCorrect`, `FrameAlwaysSeen`, `QuietAlwaysLeft`. The two safety
  properties speak of the end of a call. `CleanInv` strengthens them to every
  point of it: while the call is clean there is at most one writer, it works on
  the frame of this call, and a token is there only after it has finished.
  `BeginAlone` and `EndAlone` are the lemmas about a conversion that nobody
  disturbs.
- `WaitAlwaysPending`: also in calls that are not clean, the 100 ms run out only while
  the PPA still has a transaction, if the callback was registered.

**RtpStreamProofs.**

- `RtpTypeCorrect`, `IndexNeverReused`, `FragmentsAlwaysFit` from one
  inductive invariant `Inv`: the types, `SequenceInv` (the next number follows
  `last_seq`, which `IndexIsCount` alone does not say) and `FragmentInv` (what
  the fragmentation loop knows about the bytes that are left).
- `NumberOnePacket` is the arithmetic of the roll-over: whether or not the
  number wraps, the index grows by exactly one. The model's counter does not
  stop at the 32 bits of `roc`; 2^48 packets are out of reach of a session.
- `ServerAlwaysAgrees`: `GuessCorrect` is the arithmetic of RFC 3711's guess,
  right for every index less than half the modulus ahead; `WireInv` says that
  the packet on its way is that near, because what the server has not seen was
  lost in a row.
- `DeliveredAlwaysIntact`: the property speaks of finished frames only.
  `AssemblyInv` says of an unfinished one that it lacks exactly the bytes that
  the loop still has to send, or that the next packet will show a gap.
  `SentContinues` and `ReceivedIntact` are the two steps that matter.
- `DeliveredAlwaysInOrder`: frames are completed in the order of `push_frame`. `OrderInv`
  puts the frame on its way before the one being cut, and after all that were
  completed.

**TelemetrySnapshotProofs.** One inductive invariant, `SnapshotInv`.

- `SnapshotTypeCorrect`, `ServedAlwaysFrame`, `SnapshotAlwaysRecent`: `RequestInv`
  (the lock is held exactly between the copy and the reset of the request) and
  `AgeInv` (a copy is of this cycle unless it has just been found by the next).
- `BuffersAlwaysConserved`: `Places` counts, which is hard to carry through
  queues. `ApartInv` says instead that the queues have no repetitions and that
  each buffer is in one of five places, as long as calls of `capture()` have not
  overlapped, of whichever tasks; `PlacesCounted` gets the number back. That
  neither queue is ever full is the pigeonhole `RoomForOne`. Assumes that the
  controller's queue holds all buffers (`CsiAssumption`). That the frame under the
  encoder is not overwritten needs more, `AloneInv`: `telemetry_task` has not captured
  at all.
- `StarvationIsFinal`, `StarvationNeedsOverlap`: a camera without a buffer in any of
  the places from which one comes back never gets one again, and only overlapping
  calls lead there.

**DeviceBootProofs.** About both `FirmwareUpdate` and `DeviceBoot`, for any number
of waits, setbacks and pending events.

- `BootRefinesUpdate`: each stage of `start()` is a step of `FirmwareUpdate` or none
  (`BootStepSimulates`), so its invariants hold of the detailed boot.
- `NeverBricked`, `SuccessIsTrue`, `OnlyTestedCommitted` from `UpdateInv`. That a
  committed image exists is not inductive: the slot that is being written must
  not be the last committed one. `RunningInv` says which image runs, `DownloadInv`
  that a download goes to the other slot and only with a committed image
  running, `FreshInv`, `SuccessInv` and `PassedInv` what is known at the selection,
  at a report and after the self-test.
- `BootTypeCorrect` and `ConnectedAlwaysFollows` from `LinkInv`: which events can be
  queued behind which (`WifiInv`), and none before the network is started
  (`EarlyInv`).
- `PendingAlwaysTested`: the tasks run on committed images only. When a failed self-test
  finds nothing to roll back to, `OneCommittedImage` makes the running image the
  committed one. `InstalledAlwaysNext` says the same of a new image: the bootloader
  takes it next.
- `BootAlwaysAdvances`, `BootAlwaysMovable`: `BootLeft` counts the steps of start and
  self-test, at most `MaxWaits` + 15; it is zero exactly where they have ended.
- `NetworkAlwaysAdvances`: `NetworkLeft` weighs the setbacks that may still come, the
  events in the queue and the link, so that drivers and handlers use it up together.
  `ConnectionAlwaysPending`: with an empty queue the device is connected or its next
  attempt is under way, or `esp_wifi_connect` was refused (`AttemptInv`).

**WhipSessionProofs.** About both `WhipControl` and `WhipSession`, for every set of
URLs, every size of the key store and every bound on lines, polls, attempts and
datagrams.

- `ControlInvariant`: who holds the mutex at which step (`MutexInv`), what the
  publisher is there (`PhaseInv`) and with which URL it was made (`UrlInv`), which is
  what makes `PushIntoStarted`, `SocketsOwned` and `PublisherAsRemembered` inductive.
- `SessionRefinesControl`: the stages of `start()` are stuttering steps or the
  end of a start, so the three theorems carry over (`PushAlwaysIntoStarted`,
  `SocketsAlwaysOwned`, `PublisherAlwaysAsRemembered`).
- `KeysAlwaysOwned`, `LossesKnown` from `ResourceInv`: which members are set at each
  stage of `start()`, so that the flags `stop()` looks at say what it has to free.
- `MediaAlwaysGoesToServer`, `SessionTypeCorrect` from `SessionInv`, which adds
  `TargetInv` (what the lines read so far have made of the address, then the target,
  then what the socket is connected to) and `BoundInv` (the loops' counters).
  `TargetFound` follows the address through the look-ups. The answer is read
  line by line, so its length needs no induction over data.
- `StartAlwaysAdvances`, `StartAlwaysBounded`: `Remaining` counts the steps of
  `start()`; a record in the socket counts as one, so what arrives does not raise it.
- `ErrorAlwaysEnds`: an errored publisher stays errored, and the next comparison ends
  it. The mutex is what keeps `camera_task` out meanwhile.

**ViewerSessionProofs.** About both `StreamServer` and `ViewerSession`, for any
number of sockets, browsers and other clients.

- `EntriesAlwaysUnique`, `KeyframeAlwaysFirst`, `NobodyEverSkipped` from `ServerInv`:
  who holds the mutex (`HoldInv`), what has been offered up to the place
  `push_frame` stands at (`WalkInv`), whom the server task serves (`ServeInv`).
  `Erased` says what `erase` does to the entries behind the one it removes.
- `LiveAlwaysServed` adds what the page and its session know of each other
  (`PageInv`). `ServedStep`: an entry disappears only by a failed send.
- `PushAlwaysAdvances`: `PushLeft` counts three steps for each entry a push has not
  passed; a dead one is erased by the push itself, and a handler that registers one
  waits for the mutex. `WaitsAlwaysServed` and `StandStillIsFinal`: the two tasks wait
  for each other only in the state of StreamDeadlock, and there for good.
- `ViewersRefineServer`: start, browsers and sessions add no behaviour to
  `StreamServer`.

**Only model-checked.** Liveness (`FrameFinishes`, `InstalledIsBooted`,
`OnlineAgain`, `ErrorIsReplaced`, `DetectReturns`) and the fairness part of
`HandoffSpec` and `ControlSpec`: TLAPS cannot prove liveness under fairness. Of
each liveness property the safety core is proved (above); that of `DetectReturns` is
the order of the steps of `detect()`, which has no loop, and `WaitAlwaysPending`. Every
invariant and every action property of the passing runs is proved.

## 6. Not modelled

- Pixel loops, JPEG, H.264, the neural network with its box filters, what SDP,
  STUN and DTLS messages contain, key derivation: sequential computation
  without shared state. Where their outcome matters it is a choice.
- Lines of the SDP answer that are cut short or bring port 0: a candidate without a
  port leaves an uninitialised one (vigo_whip.cpp:489-495), a media line without a
  number ends in an exception (505). `Line` is what a WHIP server sends, in any order and number.
- Backend client, factory data, SD card and USB storage: blocking calls without
  state of their own. Their results are choices in the modules that use them;
  as stages of `start()` they may go on, end it or panic (`DeviceBoot`).
- Audio recorder, status LED, common helpers: sequential I/O with nothing to
  share but the SD card.
- The plain HTTP handlers (page, icon, snapshot, diagnostics) keep no state. They
  matter by the server task they occupy, which is a step of the other clients in
  `ViewerSession`. In which order the library evicts sessions is not modelled;
  any session may end at any time.
- `esp_restart` of the keep-alive check ends `RtpStream` and is one of the
  resets of `FirmwareUpdate`; `WhipControl` and the other modules describe the
  time between two resets.
- `MockCamera`, tools, frontend (but for the page's WebSocket), tests and
  generated pages.

## 7. State of the plan

Every component with control of its own is modelled, and of what is checked all
that the prover can express is proved. Open are questions rather than modules:

1. Composition of the two halves of a publisher: `RtpStream` begins where
   `WhipSession` ends, and an errored publisher goes back to it. The two share
   `has_error_` only, which each treats as a choice of the other.
2. Repeated evictions of viewers, once the order of eviction in esp_http_server
   is pinned down.
