------------------------------ MODULE WhipSdp ------------------------------
(***************************************************************************)
(* Where the media goes: the loop of parse_sdp_answer over the lines of    *)
(* the WHIP server's answer, the look-ups after it, and what do_ice_binding *)
(* makes of the address in the end (components/vigo_whip).  An address is  *)
(* abstracted to what the code distinguishes, a port to the line that      *)
(* brought it.                                                             *)
(***************************************************************************)
\* An address is empty, of the device itself (127.0.0.1, 0.0.0.0), another private one,
\* another IPv4 address, a host's name, "localhost", or a text that is taken for an IPv4
\* address though it is none: an IPv6 address, or a name that begins with a digit.
Ip4     == {"self", "private", "public"}
Text    == Ip4 \cup {"name", "localhost", "misread"}
Address == Text \cup {""}

\* A line of the answer, whole and with a port other than 0: a UDP or TCP candidate, the
\* connection line, the media line.
Line == [kind : {"udp", "udp2", "tcp", "c"}, ip : Text] \cup [kind : {"m"}, ip : {""}]

\* remote_ip_ and remote_port_ with the lines they came from, and the address the socket
\* is connected to.  History: whether remote_ip_ was given to the resolver as a name, and
\* whether the server's name has resolved to a public address.
Endpoint ==
  [ip : Address, ip_of : {"", "udp", "udp2", "c", "url"}, port_of : {"", "udp", "udp2", "m"},
   looked_up : BOOLEAN, resolves : BOOLEAN, peer : Ip4 \cup {""}]

NoEndpoint == [ip |-> "", ip_of |-> "", port_of |-> "",
               looked_up |-> FALSE, resolves |-> FALSE, peer |-> ""]

IsPrivate(ip) == ip \in {"", "self", "private", "localhost"}

\* Slip: a later candidate brings its port although the address is kept.
ReadLineMixed(e, l) ==
  CASE l.kind \in {"udp", "udp2"} /\ e.ip \in {"", "self"} ->
         [e EXCEPT !.ip = l.ip, !.ip_of = l.kind, !.port_of = l.kind]
    [] l.kind \in {"udp", "udp2"} -> [e EXCEPT !.port_of = l.kind]
    [] l.kind = "c" /\ e.ip = "" -> [e EXCEPT !.ip = l.ip, !.ip_of = "c"]
    [] l.kind = "m" /\ e.port_of = "" -> [e EXCEPT !.port_of = "m"]
    [] OTHER -> e

\* The first candidate that is not the device itself takes both; the connection and the
\* media line only what is still missing.
ReadLine(e, l) ==
  CASE l.kind \in {"udp", "udp2"} /\ e.ip \in {"", "self"} ->
         [e EXCEPT !.ip = l.ip, !.ip_of = l.kind, !.port_of = l.kind]
    [] l.kind = "c" /\ e.ip = "" -> [e EXCEPT !.ip = l.ip, !.ip_of = "c"]
    [] l.kind = "m" /\ e.port_of = "" -> [e EXCEPT !.port_of = "m"]
    [] OTHER -> e

\* The host of the URL stands in for an address of the peer itself.
OrHost(e, host) ==
  IF e.ip \in {"", "self"} THEN [e EXCEPT !.ip = host, !.ip_of = "url"] ELSE e

\* What the resolver may find, if anything.
Found == Ip4 \cup {"none"}

\* resolve_hostname: an address is its own, a name that is not found stays as it is.
LookUp(text, found) == IF text \in Ip4 \/ found = "none" THEN text ELSE found

\* A private address is replaced by that of a server whose own name is public.
Translate(e, host, resolved) ==
  IF IsPrivate(e.ip) /\ ~IsPrivate(host) /\ ~IsPrivate(resolved)
  THEN [e EXCEPT !.ip = resolved, !.ip_of = "url"]
  ELSE e

\* Whatever the resolver finds is taken, an address of the device itself included.
ResolveName(e, found) ==
  IF e.ip \in {"name", "localhost"}
  THEN [e EXCEPT !.ip = LookUp(@, found), !.looked_up = TRUE]
  ELSE e

\* Two look-ups with an answer each: of the server's name, then of the name that is left,
\* the server's or a line's.
MediaTarget(e, host, first, second) ==
  LET t == Translate(OrHost(e, host), host, LookUp(host, first))
  IN  [ResolveName(t, second)
         EXCEPT !.resolves = /\ LookUp(host, first) = "public"
                             /\ t.ip_of = "url" => LookUp(host, second) = "public"]

\* The result of inet_pton is not looked at: what it refuses leaves the zeroed 0.0.0.0.
PeerAddress(text) == IF text \in Ip4 THEN text ELSE "self"

=============================================================================
