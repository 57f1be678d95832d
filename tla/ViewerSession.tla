--------------------------- MODULE ViewerSession ---------------------------
(***************************************************************************)
(* StreamServer with the viewers at the other end: start() of the server,  *)
(* and the script of the page it serves (stream_page.template.h), which    *)
(* opens a WebSocket, says HELO, and opens another when that one closes.   *)
(* Only the server task knows whose session a socket number stands for.    *)
(***************************************************************************)
EXTENDS StreamServer

CONSTANTS Page,    \* browsers that show the page
          Other,   \* everybody else: plain requests, other WebSocket clients
          Nobody

ASSUME OwnerAssumption == Other # Nobody /\ {Other, Nobody} \cap Page = {}

VARIABLES
  server,   \* StreamServer::start: "off", "started", "running" or "error"
  page,     \* per browser: where connect() and its callbacks are, and the socket
  owner,    \* whose session a socket number stands for
  hello,    \* browsers whose HELO the server has not read yet
  dropped   \* history: browsers that a send failed for while their session went on

pageVars   == <<page, owner, hello, dropped>>
viewerVars == <<server, pageVars>>

ViewerTypeOK ==
  /\ TypeOK
  /\ server \in {"off", "started", "running", "error"}
  /\ page \in [Page -> [pc : {"closed", "handshake", "live"}, fd : Fd \cup {NoFd}]]
  /\ owner \in [Fd -> Page \cup {Other, Nobody}]
  /\ hello \subseteq Page
  /\ dropped \subseteq Page
  /\ open = {fd \in Fd : owner[fd] # Nobody}

ViewerInit ==
  /\ Init
  /\ server = "off"
  /\ page = [p \in Page |-> [pc |-> "closed", fd |-> NoFd]]
  /\ owner = [fd \in Fd |-> Nobody]
  /\ hello = {}
  /\ dropped = {}

-----------------------------------------------------------------------------
(***************************************************************************)
(* StreamServer::start                                                     *)
(***************************************************************************)
\* A JPEG engine that cannot be created is only logged; httpd_start opens the port.
StartHttpd ==
  /\ server = "off"
  /\ server' \in {"started", "error"}
  /\ UNCHANGED <<vars, pageVars>>

\* The handlers are registered one by one, while the first requests may already come.
\* Only without the one for /stream start() fails; it leaves the server running.
RegisterUris ==
  /\ server = "started"
  /\ server' \in {"running", "error"}
  /\ UNCHANGED <<vars, pageVars>>

-----------------------------------------------------------------------------
(***************************************************************************)
(* Sessions                                                                *)
(***************************************************************************)
Listening == server # "off"

\* connect() of the page: when it is loaded, and 2 s after a close.
PageConnects(p, fd) ==
  /\ Listening
  /\ page[p].pc = "closed"
  /\ Accept(fd)
  /\ owner' = [owner EXCEPT ![fd] = p]
  /\ page' = [page EXCEPT ![p] = [pc |-> "handshake", fd |-> fd]]
  /\ UNCHANGED <<server, hello, dropped>>

OtherConnects(fd) ==
  /\ Listening
  /\ Accept(fd)
  /\ owner' = [owner EXCEPT ![fd] = Other]
  /\ UNCHANGED <<server, page, hello, dropped>>

\* A session ends; a handler that returns an error (no such page, no picture yet, a
\* message that cannot be received) is one of the reasons.
EndSession(fd) ==
  /\ Close(fd)
  /\ owner' = [owner EXCEPT ![fd] = Nobody]
  /\ dropped' = dropped \ {owner[fd]}
  /\ UNCHANGED <<server, page, hello>>

MaySpeak(p) == owner[page[p].fd] = p

\* The handshake is answered, and by some versions of the library shown to ws_handler;
\* onopen of the page sends HELO.
Upgrade(p) ==
  /\ server = "running"
  /\ page[p].pc = "handshake"
  /\ MaySpeak(p)
  /\ \/ CallHandler(page[p].fd)
     \/ httpd_pc = "select" /\ UNCHANGED vars
  /\ page' = [page EXCEPT ![p].pc = "live"]
  /\ hello' = hello \cup {p}
  /\ UNCHANGED <<server, owner, dropped>>

ReadHello(p) ==
  /\ p \in hello
  /\ MaySpeak(p)
  /\ CallHandler(page[p].fd)
  /\ hello' = hello \ {p}
  /\ UNCHANGED <<server, page, owner, dropped>>

\* A client that is not the page.
OtherCalls(fd) ==
  /\ server = "running"
  /\ owner[fd] = Other
  /\ CallHandler(fd)
  /\ UNCHANGED viewerVars

HandlerRegisters ==
  /\ Register
  /\ dropped' = dropped \ {owner[handler_fd]}
  /\ UNCHANGED <<server, page, owner, hello>>

\* onclose of the page: the picture is covered and a timer set.
OnClose(p) ==
  /\ page[p].pc # "closed"
  /\ ~MaySpeak(p)
  /\ page' = [page EXCEPT ![p] = [pc |-> "closed", fd |-> NoFd]]
  /\ hello' = hello \ {p}
  /\ UNCHANGED <<vars, server, owner, dropped>>

\* A send that fails leaves the session as it is.
RunSend ==
  /\ RunWork
  /\ dropped' = IF send_result' = "gone" /\ owner[work] \in Page
                THEN dropped \cup {owner[work]} ELSE dropped
  /\ UNCHANGED <<server, page, owner, hello>>

\* The tasks run only when start() has succeeded.
PushStep == server = "running" /\ PushFrame /\ UNCHANGED viewerVars

ViewerNext ==
  \/ StartHttpd \/ RegisterUris
  \/ \E p \in Page :
       Upgrade(p) \/ ReadHello(p) \/ OnClose(p) \/ \E fd \in Fd : PageConnects(p, fd)
  \/ \E fd \in Fd : OtherConnects(fd) \/ EndSession(fd) \/ OtherCalls(fd)
  \/ HandlerRegisters \/ RunSend
  \/ PushStep

ViewerSpec == ViewerInit /\ [][ViewerNext]_<<vars, viewerVars>>

-----------------------------------------------------------------------------
\* A page that shows "Live" is not forgotten: while its session goes on it has an entry
\* in clients_, or its HELO is still to be read or being handled.  Only a send that
\* fails with the session left open costs it its entry: the page says HELO once, and
\* stands still from then on.  Entries that outlive their session and socket numbers
\* that are used again, in the middle of a push or not, do no harm here.
LiveIsServed ==
  \A p \in Page :
    page[p].pc = "live" /\ MaySpeak(p) =>
      \/ Registered(page[p].fd)
      \/ p \in hello \/ handler_fd = page[p].fd
      \/ p \in dropped

=============================================================================
