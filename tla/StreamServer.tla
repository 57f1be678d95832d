---------------------------- MODULE StreamServer ----------------------------
(***************************************************************************)
(* The local viewer of components/vigo_stream_server/stream_server.cpp.    *)
(* Two threads share clients_ under clients_mutex_: camera_task, inside    *)
(* push_frame, and the single task of esp_http_server, inside ws_handler.  *)
(*                                                                         *)
(* The HTTP server is a library outside this repository.  It is modelled   *)
(* by what the code relies on: one task that accepts connections, closes   *)
(* them (at a peer's wish, after an error, or the least recently used one  *)
(* when all sockets are taken), calls the URI handlers and runs queued     *)
(* work; and httpd_ws_send_data, which queues the send as work for that    *)
(* task and waits for it.                                                  *)
(***************************************************************************)
EXTENDS Naturals, Sequences, SequencesExt

CONSTANTS Fd,    \* socket numbers, config.max_open_sockets of them
          NoFd

ASSUME FdAssumption == NoFd \notin Fd

VARIABLES
  clients,        \* clients_: a socket, its ready flag, and (history) the kind of
                  \* the first frame that was offered to the entry
  clients_mutex,  \* "free", "camera" or "httpd"
  camera_pc, pos, \* push_frame: where it is, and its iterator
  is_keyframe,    \* of the frame being pushed
  open,           \* sockets with a session
  httpd_pc,       \* the server task: its loop or waiting in ws_handler
  handler_fd,     \* the session ws_handler was called for
  work,           \* socket of the queued send, or NoFd
  send_result,    \* of the last send: "none" while it is pending
  offered         \* history: sockets this push_frame has offered its frame to

clientVars  == <<clients, clients_mutex>>
cameraVars  == <<camera_pc, pos, is_keyframe>>
httpdVars   == <<open, httpd_pc, handler_fd>>
workVars    == <<work, send_result>>
vars == <<clientVars, cameraVars, httpdVars, workVars, offered>>

Client == [fd : Fd, ready : BOOLEAN, first : {"none", "key", "delta"}]

TypeOK ==
  /\ clients \in Seq(Client)
  /\ clients_mutex \in {"free", "camera"}
  /\ camera_pc \in {"idle", "visit", "sending"}
  /\ pos \in 1..(Len(clients) + 1)
  /\ is_keyframe \in BOOLEAN
  /\ open \subseteq Fd
  /\ httpd_pc \in {"select", "want_mutex"}
  /\ handler_fd \in Fd \cup {NoFd}
  /\ work \in Fd \cup {NoFd}
  /\ send_result \in {"none", "ok", "gone", "busy"}
  /\ offered \subseteq Fd

Init ==
  /\ clients = <<>>
  /\ clients_mutex = "free"
  /\ camera_pc = "idle"
  /\ pos = 1
  /\ is_keyframe = FALSE
  /\ open = {}
  /\ httpd_pc = "select"
  /\ handler_fd = NoFd
  /\ work = NoFd
  /\ send_result = "none"
  /\ offered = {}

-----------------------------------------------------------------------------
(***************************************************************************)
(* camera_task: push_frame                                                 *)
(***************************************************************************)
LockClients ==
  /\ camera_pc = "idle"
  /\ clients_mutex = "free"
  /\ clients_mutex' = "camera"
  /\ is_keyframe' \in BOOLEAN
  /\ pos' = 1
  /\ offered' = {}
  /\ camera_pc' = "visit"
  /\ UNCHANGED <<clients, httpdVars, workVars>>

Kind == IF is_keyframe THEN "key" ELSE "delta"

Promoted(c) == [c EXCEPT !.ready = @ \/ is_keyframe]

Offer(c) == [c EXCEPT !.first = IF @ = "none" THEN Kind ELSE @]

\* Slip: a waiting client is sent whatever frame comes next.
VisitUnpromoted ==
  /\ camera_pc = "visit"
  /\ pos <= Len(clients)
  /\ clients' = [clients EXCEPT ![pos] = Offer([@ EXCEPT !.ready = TRUE])]
  /\ offered' = offered \cup {clients[pos].fd}
  /\ work' = clients[pos].fd
  /\ send_result' = "none"
  /\ camera_pc' = "sending"
  /\ UNCHANGED <<clients_mutex, pos, is_keyframe, httpdVars>>

\* A keyframe promotes the client; a client that is not ready is passed over, for a
\* ready one httpd_ws_send_data queues the send and waits, the mutex still held.
Visit ==
  /\ camera_pc = "visit"
  /\ pos <= Len(clients)
  /\ LET c == Promoted(clients[pos])
     IN  IF c.ready
         THEN /\ clients' = [clients EXCEPT ![pos] = Offer(c)]
              /\ offered' = offered \cup {c.fd}
              /\ work' = c.fd
              /\ send_result' = "none"
              /\ camera_pc' = "sending"
              /\ UNCHANGED pos
         ELSE /\ pos' = pos + 1
              /\ UNCHANGED <<clients, offered, workVars, camera_pc>>
  /\ UNCHANGED <<clients_mutex, is_keyframe, httpdVars>>

\* Slip: the iterator moves on although erase has already returned the next entry.
SendReturnsSkips ==
  /\ camera_pc = "sending"
  /\ send_result # "none"
  /\ clients' = IF send_result = "gone" THEN RemoveAt(clients, pos) ELSE clients
  /\ pos' = IF pos < Len(clients) THEN pos + 1 ELSE Len(clients') + 1
  /\ camera_pc' = "visit"
  /\ UNCHANGED <<clients_mutex, is_keyframe, httpdVars, workVars, offered>>

\* Slip: past the end of the list after the last entry was erased.
SendReturnsPastEnd ==
  /\ camera_pc = "sending"
  /\ send_result # "none"
  /\ clients' = IF send_result = "gone" THEN RemoveAt(clients, pos) ELSE clients
  /\ pos' = pos + 1
  /\ camera_pc' = "visit"
  /\ UNCHANGED <<clients_mutex, is_keyframe, httpdVars, workVars, offered>>

\* Slip: every failed send drops the client.
SendReturnsDropsBusy ==
  /\ camera_pc = "sending"
  /\ send_result # "none"
  /\ IF send_result # "ok"
     THEN clients' = RemoveAt(clients, pos) /\ UNCHANGED pos
     ELSE pos' = pos + 1 /\ UNCHANGED clients
  /\ camera_pc' = "visit"
  /\ UNCHANGED <<clients_mutex, is_keyframe, httpdVars, workVars, offered>>

\* ESP_ERR_INVALID_ARG and ESP_FAIL drop the client, other errors only the frame.
SendReturns ==
  /\ camera_pc = "sending"
  /\ send_result # "none"
  /\ IF send_result = "gone"
     THEN clients' = RemoveAt(clients, pos) /\ UNCHANGED pos
     ELSE pos' = pos + 1 /\ UNCHANGED clients
  /\ camera_pc' = "visit"
  /\ UNCHANGED <<clients_mutex, is_keyframe, httpdVars, workVars, offered>>

UnlockClients ==
  /\ camera_pc = "visit"
  /\ pos > Len(clients)
  /\ clients_mutex' = "free"
  /\ pos' = 1
  /\ camera_pc' = "idle"
  /\ UNCHANGED <<clients, is_keyframe, httpdVars, workVars, offered>>

-----------------------------------------------------------------------------
(***************************************************************************)
(* The server task                                                         *)
(***************************************************************************)
\* A new connection gets a free socket.
Accept(fd) ==
  /\ httpd_pc = "select"
  /\ fd \notin open
  /\ open' = open \cup {fd}
  /\ UNCHANGED <<clientVars, cameraVars, httpd_pc, handler_fd, workVars, offered>>

\* A session ends: the peer left, a handler failed, or lru_purge_enable made room.
\* Nothing tells clients_.
Close(fd) ==
  /\ httpd_pc = "select"
  /\ fd \in open
  /\ open' = open \ {fd}
  /\ UNCHANGED <<clientVars, cameraVars, httpd_pc, handler_fd, workVars, offered>>

\* A WebSocket handshake or message on /stream: ws_handler asks for the mutex.
CallHandler(fd) ==
  /\ httpd_pc = "select"
  /\ fd \in open
  /\ handler_fd' = fd
  /\ httpd_pc' = "want_mutex"
  /\ UNCHANGED <<clientVars, cameraVars, open, workVars, offered>>

Registered(fd) == \E i \in DOMAIN clients : clients[i].fd = fd

NewClient(fd) == [fd |-> fd, ready |-> FALSE, first |-> "none"]

\* Slip: every call of the handler adds an entry.
RegisterAgain ==
  /\ httpd_pc = "want_mutex"
  /\ clients_mutex = "free"
  /\ Len(clients) < 3
  /\ clients' = Append(clients, NewClient(handler_fd))
  /\ httpd_pc' = "select"
  /\ handler_fd' = NoFd
  /\ UNCHANGED <<clients_mutex, cameraVars, open, workVars, offered>>

\* The critical section of ws_handler never blocks: it is one step.  The message that
\* is then received changes nothing.
Register ==
  /\ httpd_pc = "want_mutex"
  /\ clients_mutex = "free"
  /\ clients' = IF Registered(handler_fd) THEN clients
                ELSE Append(clients, NewClient(handler_fd))
  /\ httpd_pc' = "select"
  /\ handler_fd' = NoFd
  /\ UNCHANGED <<clients_mutex, cameraVars, open, workVars, offered>>

\* The queued send runs between two rounds of the server's loop.
RunWork ==
  /\ httpd_pc = "select"
  /\ work # NoFd
  /\ work' = NoFd
  /\ send_result' \in IF work \in open THEN {"ok", "busy", "gone"} ELSE {"gone"}
  /\ UNCHANGED <<clientVars, cameraVars, httpdVars, offered>>

-----------------------------------------------------------------------------
PushFrame == LockClients \/ Visit \/ SendReturns \/ UnlockClients

Httpd == \/ \E fd \in Fd : Accept(fd) \/ Close(fd) \/ CallHandler(fd)
         \/ Register
         \/ RunWork

Next == PushFrame \/ Httpd

Spec == Init /\ [][Next]_vars

-----------------------------------------------------------------------------
\* No socket has two entries, whatever handshakes, messages and removals interleave:
\* a frame is sent to a viewer at most once per push_frame.
EntriesUnique ==
  \A i, j \in DOMAIN clients : clients[i].fd = clients[j].fd => i = j

\* The first frame a new entry of clients_ is offered is a keyframe: it waits in the
\* list, whatever frames pass, until push_frame promotes it.
KeyframeFirst == \A i \in DOMAIN clients : clients[i].first # "delta"

\* When push_frame releases the mutex, every entry that is ready was offered this
\* frame: erasing a dead client in the middle of the walk skips nobody.
NobodySkipped ==
  camera_pc = "visit" /\ pos > Len(clients) =>
    \A i \in DOMAIN clients : clients[i].ready => clients[i].fd \in offered

\* Several WebSocket clients may be connected at the same time (Kconfig, "Max
\* simultaneous WebSocket clients"), so a handshake must not stop the stream of the
\* others: camera_task, waiting for the server to run its send, must never hold the
\* mutex the server is waiting for.
NoCircularWait ==
  ~(/\ camera_pc = "sending" /\ work # NoFd /\ clients_mutex = "camera"
    /\ httpd_pc = "want_mutex")

=============================================================================
