------------------------ MODULE ViewerSessionProofs ------------------------
(***************************************************************************)
(* For any number of sockets, browsers and other clients: the list of      *)
(* viewers is walked by push_frame without skipping or repeating anybody,  *)
(* every viewer begins with a keyframe, and a page that shows "Live" is    *)
(* served.                                                                 *)
(***************************************************************************)
EXTENDS ViewerSession, SequenceTheorems, TLAPS

\* push_frame holds the mutex from end to end.
HoldInv ==
  /\ clients_mutex = "camera" <=> camera_pc # "idle"
  /\ camera_pc = "sending" => pos <= Len(clients)

\* An entry is ready from the keyframe on that it was offered first.
ReadyInv ==
  \A i \in DOMAIN clients :
    clients[i].first = IF clients[i].ready THEN "key" ELSE "none"

\* Of the entries that push_frame has passed none was left out.
WalkInv ==
  /\ camera_pc # "idle" =>
       \A i \in DOMAIN clients : i < pos /\ clients[i].ready => clients[i].fd \in offered
  /\ camera_pc = "sending" => clients[pos].fd \in offered

\* The server task names a session while it serves it, and the send that is queued is
\* for the entry push_frame stands at.
ServeInv ==
  /\ httpd_pc = "select" => handler_fd = NoFd
  /\ httpd_pc = "want_mutex" => handler_fd \in open
  /\ camera_pc = "sending" /\ send_result = "none" => work = clients[pos].fd
  /\ work # NoFd => camera_pc = "sending" /\ send_result = "none"

ServerInv ==
  TypeOK /\ HoldInv /\ EntriesUnique /\ ReadyInv /\ WalkInv /\ ServeInv

-----------------------------------------------------------------------------
\* erase: the entries behind the removed one move up.
LEMMA Erased ==
  ASSUME NEW S, NEW q \in Seq(S), NEW i \in 1..Len(q)
  PROVE  /\ RemoveAt(q, i) \in Seq(S)
         /\ Len(RemoveAt(q, i)) = Len(q) - 1
         /\ DOMAIN RemoveAt(q, i) = 1..(Len(q) - 1)
         /\ \A j \in 1..(Len(q) - 1) :
              RemoveAt(q, i)[j] = IF j < i THEN q[j] ELSE q[j + 1]
<1> DEFINE a == SubSeq(q, 1, i - 1)
           b == SubSeq(q, i + 1, Len(q))
<1>1. Len(q) \in Nat /\ i \in Nat /\ i >= 1 /\ i <= Len(q)
  OBVIOUS
<1>2. /\ a \in Seq(S) /\ Len(a) = i - 1
      /\ \A j \in 1..(i - 1) : a[j] = q[j]
  <2>1. \A j \in 1..(i - 1) : q[j] \in S
    BY <1>1
  <2> QED
    BY <1>1, <2>1, SubSeqProperties
<1>3. /\ b \in Seq(S) /\ Len(b) = Len(q) - i
      /\ \A j \in 1..(Len(q) - i) : b[j] = q[j + i]
  BY <1>1, SubSeqProperties
<1>4. RemoveAt(q, i) = a \o b
  BY DEF RemoveAt
<1> HIDE DEF a, b
<1>5. /\ a \o b \in Seq(S) /\ Len(a \o b) = Len(a) + Len(b)
      /\ \A j \in 1..(Len(a) + Len(b)) :
           (a \o b)[j] = IF j <= Len(a) THEN a[j] ELSE b[j - Len(a)]
  BY <1>2, <1>3, ConcatProperties
<1>6. Len(a \o b) = Len(q) - 1 /\ DOMAIN (a \o b) = 1..(Len(q) - 1)
  BY <1>1, <1>2, <1>3, <1>5
<1>7. ASSUME NEW j \in 1..(Len(q) - 1)
      PROVE  (a \o b)[j] = IF j < i THEN q[j] ELSE q[j + 1]
  <2>1. j \in 1..(Len(a) + Len(b)) /\ (j <= Len(a) <=> j < i)
    BY <1>1, <1>2, <1>3, <1>7
  <2>2. j < i => a[j] = q[j]
    BY <1>1, <1>2, <1>7
  <2>3. ~(j < i) => j - Len(a) \in 1..(Len(q) - i) /\ j - Len(a) + i = j + 1
    BY <1>1, <1>2, <1>7
  <2> QED
    BY <1>3, <1>5, <2>1, <2>2, <2>3
<1> QED
  BY <1>4, <1>5, <1>6, <1>7

LEMMA Added ==
  ASSUME NEW S, NEW q \in Seq(S), NEW e \in S
  PROVE  /\ Append(q, e) \in Seq(S)
         /\ DOMAIN Append(q, e) = 1..(Len(q) + 1)
         /\ DOMAIN q = 1..Len(q) /\ Len(q) \in Nat
         /\ \A j \in 1..Len(q) : Append(q, e)[j] = q[j]
         /\ Append(q, e)[Len(q) + 1] = e
         /\ Len(Append(q, e)) = Len(q) + 1
OBVIOUS

LEMMA ServerInit == Init => ServerInv
<1> SUFFICES ASSUME Init PROVE ServerInv
  OBVIOUS
<1>1. <<>> \in Seq(Client) /\ DOMAIN <<>> = {} /\ Len(<<>>) = 0
  OBVIOUS
<1>2. clients \in Seq(Client) /\ DOMAIN clients = {} /\ Len(clients) = 0
  BY <1>1 DEF Init
<1>3. pos \in 1..(Len(clients) + 1)
  BY <1>2 DEF Init
<1>4. TypeOK
  BY <1>2, <1>3 DEF Init, TypeOK
<1> QED
  BY <1>2, <1>4 DEF Init, ServerInv, HoldInv, EntriesUnique, ReadyInv, WalkInv, ServeInv

\* The mutex lets no step of ws_handler come between those of push_frame.
LEMMA ServerStep == ServerInv /\ [Next]_vars => ServerInv'
<1> SUFFICES ASSUME ServerInv, [Next]_vars PROVE ServerInv'
  OBVIOUS
<1>0. /\ clients \in Seq(Client) /\ DOMAIN clients = 1..Len(clients)
      /\ Len(clients) \in Nat
      /\ \A i \in 1..Len(clients) : clients[i] \in Client
      /\ pos \in 1..(Len(clients) + 1)
  BY DEF ServerInv, TypeOK
<1>1. CASE LockClients
  BY <1>0, <1>1
  DEF LockClients, ServerInv, TypeOK, HoldInv, EntriesUnique, ReadyInv, WalkInv, ServeInv,
      httpdVars, workVars
<1>2. CASE Visit
  <2> DEFINE c == Promoted(clients[pos])
  <2>1. /\ camera_pc = "visit" /\ pos \in 1..Len(clients)
        /\ UNCHANGED <<clients_mutex, is_keyframe, open, httpd_pc, handler_fd>>
        /\ work = NoFd
    BY <1>0, <1>2 DEF Visit, httpdVars, ServerInv, ServeInv
  <2>2. clients[pos] \in Client /\ is_keyframe \in BOOLEAN
    BY <1>0, <2>1 DEF ServerInv, TypeOK
  <2>3. /\ c.fd = clients[pos].fd /\ c.first = clients[pos].first
        /\ c.ready = (clients[pos].ready \/ is_keyframe) /\ c \in Client
    BY <2>2 DEF Promoted, Client
  <2> HIDE DEF c
  <2>4. CASE ~c.ready
    <3>1. pos' = pos + 1 /\ UNCHANGED <<clients, offered, work, send_result, camera_pc>>
      BY <1>2, <2>4 DEF Visit, workVars, c
    <3>2. clients[pos].ready = FALSE
      BY <2>2, <2>3, <2>4 DEF Client
    <3>3. pos' \in 1..(Len(clients) + 1)
      BY <1>0, <2>1, <3>1
    <3>4. WalkInv'
      BY <1>0, <2>1, <3>1, <3>2 DEF ServerInv, WalkInv
    <3> QED
      BY <2>1, <3>1, <3>3, <3>4
      DEF ServerInv, TypeOK, HoldInv, EntriesUnique, ReadyInv, ServeInv
  <2>5. CASE c.ready
    <3> DEFINE d == Offer(c)
    <3>1. /\ clients' = [clients EXCEPT ![pos] = d]
          /\ offered' = offered \cup {c.fd} /\ work' = c.fd /\ send_result' = "none"
          /\ camera_pc' = "sending" /\ UNCHANGED pos
      BY <1>2, <2>5 DEF Visit, c
    <3>2. clients[pos].first = IF clients[pos].ready THEN "key" ELSE "none"
      BY <1>0, <2>1 DEF ServerInv, ReadyInv
    <3>3. d \in Client /\ d.fd = c.fd /\ d.ready = TRUE /\ d.first = "key"
      BY <2>2, <2>3, <2>5, <3>2 DEF Offer, Kind, Client
    <3> HIDE DEF d
    <3>4. /\ clients' \in Seq(Client) /\ Len(clients') = Len(clients)
          /\ DOMAIN clients' = 1..Len(clients)
          /\ clients'[pos] = d
          /\ \A i \in 1..Len(clients) : i # pos => clients'[i] = clients[i]
      BY <1>0, <2>1, <3>1, <3>3
    <3>5. \A i \in 1..Len(clients) : clients'[i].fd = clients[i].fd
      BY <2>3, <3>3, <3>4
    <3>6. EntriesUnique'
      BY <1>0, <3>4, <3>5 DEF ServerInv, EntriesUnique
    <3>7. ReadyInv'
      BY <1>0, <3>3, <3>4 DEF ServerInv, ReadyInv
    <3>8. WalkInv'
      <4>1. \A i \in 1..Len(clients) : i < pos /\ clients[i].ready
              => clients[i].fd \in offered
        BY <1>0, <2>1 DEF ServerInv, WalkInv
      <4> QED
        BY <1>0, <2>1, <3>1, <3>3, <3>4, <4>1 DEF WalkInv
    <3>9. TypeOK'
      BY <1>0, <2>1, <2>3, <3>1, <3>4 DEF ServerInv, TypeOK, Client
    <3>10. HoldInv' /\ ServeInv'
      BY <2>1, <2>3, <3>1, <3>3, <3>4 DEF ServerInv, HoldInv, ServeInv
    <3> QED
      BY <3>6, <3>7, <3>8, <3>9, <3>10 DEF ServerInv
  <2> QED
    BY <2>4, <2>5
<1>3. CASE SendReturns
  <2>1. /\ camera_pc = "sending" /\ send_result # "none" /\ camera_pc' = "visit"
        /\ UNCHANGED <<clients_mutex, is_keyframe, open, httpd_pc, handler_fd, work,
                       send_result, offered>>
        /\ work = NoFd /\ pos \in 1..Len(clients)
    BY <1>0, <1>3 DEF SendReturns, httpdVars, workVars, ServerInv, ServeInv, HoldInv
  <2>2. /\ \A i \in 1..Len(clients) : i < pos /\ clients[i].ready
              => clients[i].fd \in offered
        /\ clients[pos].fd \in offered
    BY <1>0, <2>1 DEF ServerInv, WalkInv
  <2>3. CASE send_result = "gone"
    <3>1. clients' = RemoveAt(clients, pos) /\ UNCHANGED pos
      BY <1>3, <2>3 DEF SendReturns
    <3>2. /\ clients' \in Seq(Client) /\ Len(clients') = Len(clients) - 1
          /\ DOMAIN clients' = 1..(Len(clients) - 1)
          /\ \A j \in 1..(Len(clients) - 1) :
               clients'[j] = IF j < pos THEN clients[j] ELSE clients[j + 1]
      <4>1. pos \in 1..Len(clients) /\ clients \in Seq(Client)
        BY <1>0, <2>1
      <4>2. /\ RemoveAt(clients, pos) \in Seq(Client)
            /\ Len(RemoveAt(clients, pos)) = Len(clients) - 1
            /\ DOMAIN RemoveAt(clients, pos) = 1..(Len(clients) - 1)
            /\ \A j \in 1..(Len(clients) - 1) :
                 RemoveAt(clients, pos)[j] = IF j < pos THEN clients[j] ELSE clients[j + 1]
        BY ONLY <4>1, Erased
      <4> QED
        BY ONLY <3>1, <4>2
    <3>3. EntriesUnique'
      <4> SUFFICES ASSUME NEW i \in 1..(Len(clients) - 1), NEW j \in 1..(Len(clients) - 1),
                          clients'[i].fd = clients'[j].fd
                   PROVE  i = j
        BY <3>2 DEF EntriesUnique
      <4>1. PICK k \in 1..Len(clients) : clients'[i] = clients[k] /\ k = IF i < pos THEN i ELSE i + 1
        BY <1>0, <3>2
      <4>2. PICK m \in 1..Len(clients) : clients'[j] = clients[m] /\ m = IF j < pos THEN j ELSE j + 1
        BY <1>0, <3>2
      <4>3. k = m
        BY <1>0, <4>1, <4>2 DEF ServerInv, EntriesUnique
      <4> QED
        BY <2>1, <4>1, <4>2, <4>3
    <3>4. ReadyInv'
      BY <1>0, <2>1, <3>2 DEF ServerInv, ReadyInv
    <3>5. WalkInv'
      BY <1>0, <2>1, <2>2, <3>1, <3>2 DEF WalkInv
    <3>6. TypeOK' /\ HoldInv' /\ ServeInv'
      BY <1>0, <2>1, <3>1, <3>2 DEF ServerInv, TypeOK, HoldInv, ServeInv
    <3> QED
      BY <3>3, <3>4, <3>5, <3>6 DEF ServerInv
  <2>4. CASE send_result # "gone"
    <3>1. pos' = pos + 1 /\ UNCHANGED clients
      BY <1>3, <2>4 DEF SendReturns
    <3>2. WalkInv'
      BY <1>0, <2>1, <2>2, <3>1 DEF WalkInv
    <3> QED
      BY <1>0, <2>1, <3>1, <3>2
      DEF ServerInv, TypeOK, HoldInv, EntriesUnique, ReadyInv, ServeInv
  <2> QED
    BY <2>3, <2>4
<1>4. CASE UnlockClients
  BY <1>0, <1>4
  DEF UnlockClients, ServerInv, TypeOK, HoldInv, EntriesUnique, ReadyInv, WalkInv, ServeInv,
      httpdVars, workVars
<1>5. ASSUME NEW fd \in Fd, Accept(fd) \/ Close(fd) \/ CallHandler(fd)
      PROVE  ServerInv'
  BY <1>5
  DEF Accept, Close, CallHandler, ServerInv, TypeOK, HoldInv, EntriesUnique, ReadyInv,
      WalkInv, ServeInv, clientVars, cameraVars, workVars
<1>6. CASE Register
  <2>1. /\ httpd_pc = "want_mutex" /\ clients_mutex = "free" /\ camera_pc = "idle"
        /\ httpd_pc' = "select" /\ handler_fd' = NoFd /\ handler_fd \in Fd
        /\ work = NoFd
        /\ UNCHANGED <<clients_mutex, camera_pc, pos, is_keyframe, open, work, send_result,
                       offered>>
    BY <1>6 DEF Register, ServerInv, TypeOK, HoldInv, ServeInv, cameraVars, workVars
  <2>2. CASE UNCHANGED clients
    BY <2>1, <2>2
    DEF ServerInv, TypeOK, HoldInv, EntriesUnique, ReadyInv, WalkInv, ServeInv
  <2>3. CASE ~Registered(handler_fd)
             /\ clients' = Append(clients, NewClient(handler_fd))
    <3> DEFINE e == NewClient(handler_fd)
    <3>1. e \in Client /\ e.fd = handler_fd /\ e.ready = FALSE /\ e.first = "none"
      BY <2>1 DEF NewClient, Client
    <3> HIDE DEF e
    <3>2. clients' = Append(clients, e)
      BY <2>3 DEF e
    <3>3. /\ clients' \in Seq(Client) /\ Len(clients') = Len(clients) + 1
          /\ DOMAIN clients' = 1..(Len(clients) + 1)
          /\ \A j \in 1..Len(clients) : clients'[j] = clients[j]
          /\ clients'[Len(clients) + 1] = e
      BY <1>0, <3>1, <3>2, Added
    <3>4. \A i \in 1..Len(clients) : clients[i].fd # e.fd
      BY <1>0, <2>3, <3>1 DEF Registered
    <3>5. EntriesUnique'
      BY <1>0, <3>3, <3>4 DEF ServerInv, EntriesUnique
    <3>6. ReadyInv'
      BY <1>0, <3>1, <3>3 DEF ServerInv, ReadyInv
    <3>7. TypeOK' /\ HoldInv' /\ WalkInv' /\ ServeInv'
      BY <1>0, <2>1, <3>3 DEF ServerInv, TypeOK, HoldInv, WalkInv, ServeInv
    <3> QED
      BY <3>5, <3>6, <3>7 DEF ServerInv
  <2> QED
    BY <1>6, <2>2, <2>3 DEF Register
<1>7. CASE RunWork
  BY <1>7, FdAssumption
  DEF RunWork, ServerInv, TypeOK, HoldInv, EntriesUnique, ReadyInv, WalkInv, ServeInv,
      clientVars, cameraVars, httpdVars
<1>8. CASE UNCHANGED vars
  BY <1>8
  DEF vars, ServerInv, TypeOK, HoldInv, EntriesUnique, ReadyInv, WalkInv, ServeInv,
      clientVars, cameraVars, httpdVars, workVars
<1> QED
  BY <1>1, <1>2, <1>3, <1>4, <1>5, <1>6, <1>7, <1>8 DEF Next, PushFrame, Httpd

-----------------------------------------------------------------------------
\* The entry of fd stays: push_frame is not about to erase it.
Served(fd) ==
  /\ Registered(fd)
  /\ ~(camera_pc = "sending" /\ send_result = "gone" /\ clients[pos].fd = fd)

\* Erasing an entry costs nobody else's.
LEMMA ServedStep ==
  ASSUME ServerInv, [Next]_vars, NEW fd, Served(fd)
  PROVE  Served(fd)' \/ (RunWork /\ send_result' = "gone" /\ work = fd)
<1>0. /\ clients \in Seq(Client) /\ DOMAIN clients = 1..Len(clients)
      /\ Len(clients) \in Nat
      /\ pos \in 1..(Len(clients) + 1)
  BY DEF ServerInv, TypeOK
<1>1. PICK k \in 1..Len(clients) : clients[k].fd = fd
  BY <1>0 DEF Served, Registered
<1>2. CASE LockClients \/ UnlockClients
  BY <1>2
  DEF LockClients, UnlockClients, Served, Registered, workVars
<1>3. CASE Visit
  <2>1. pos \in 1..Len(clients) /\ camera_pc = "visit"
    BY <1>0, <1>3 DEF Visit
  <2>2. CASE UNCHANGED <<clients, camera_pc>>
    BY <2>1, <2>2 DEF Served, Registered
  <2>3. CASE /\ clients' = [clients EXCEPT ![pos] = Offer(Promoted(clients[pos]))]
             /\ send_result' = "none"
    <3>1. clients[pos] \in Client
      BY <1>0, <2>1
    <3>2. Offer(Promoted(clients[pos])).fd = clients[pos].fd
      BY <3>1 DEF Offer, Promoted, Client
    <3>3. clients'[k].fd = fd /\ k \in DOMAIN clients'
      BY <1>0, <1>1, <2>3, <3>2
    <3> QED
      BY <2>3, <3>3 DEF Served, Registered
  <2> QED
    BY <1>3, <2>2, <2>3 DEF Visit
<1>4. CASE SendReturns
  <2>1. camera_pc' = "visit" /\ camera_pc = "sending" /\ pos \in 1..Len(clients)
    BY <1>0, <1>4 DEF SendReturns, ServerInv, HoldInv
  <2>2. CASE UNCHANGED clients
    BY <2>1, <2>2 DEF Served, Registered
  <2>3. CASE send_result = "gone" /\ clients' = RemoveAt(clients, pos)
    <3>1. k # pos
      BY <1>1, <2>1, <2>3 DEF Served
    <3>2. /\ DOMAIN clients' = 1..(Len(clients) - 1)
          /\ \A j \in 1..(Len(clients) - 1) :
               clients'[j] = IF j < pos THEN clients[j] ELSE clients[j + 1]
      <4>1. pos \in 1..Len(clients) /\ clients \in Seq(Client)
        BY <1>0, <2>1
      <4>2. /\ DOMAIN RemoveAt(clients, pos) = 1..(Len(clients) - 1)
            /\ \A j \in 1..(Len(clients) - 1) :
                 RemoveAt(clients, pos)[j] = IF j < pos THEN clients[j] ELSE clients[j + 1]
        BY ONLY <4>1, Erased
      <4> QED
        BY <2>3, <4>2
    <3>3. CASE k < pos
      <4>1. k \in DOMAIN clients' /\ clients'[k].fd = fd
        BY <1>0, <1>1, <2>1, <3>2, <3>3
      <4> QED
        BY <2>1, <4>1 DEF Served, Registered
    <3>4. CASE k > pos
      <4>1. k - 1 \in DOMAIN clients' /\ clients'[k - 1].fd = fd
        BY <1>0, <1>1, <2>1, <3>2, <3>4
      <4> QED
        BY <2>1, <4>1 DEF Served, Registered
    <3> QED
      BY <1>0, <1>1, <3>1, <3>3, <3>4
  <2> QED
    BY <1>4, <2>2, <2>3 DEF SendReturns
<1>5. ASSUME NEW f \in Fd, Accept(f) \/ Close(f) \/ CallHandler(f)
      PROVE  Served(fd)'
  BY <1>5 DEF Accept, Close, CallHandler, Served, Registered, clientVars, cameraVars, workVars
<1>6. CASE Register
  <2>1. camera_pc' = "idle"
    BY <1>6 DEF Register, cameraVars, ServerInv, HoldInv, TypeOK
  <2>2. handler_fd \in Fd
    BY <1>6 DEF Register, ServerInv, ServeInv, TypeOK
  <2>3. NewClient(handler_fd) \in Client
    BY <2>2 DEF NewClient, Client
  <2>4. k \in DOMAIN clients' /\ clients'[k].fd = fd
    BY <1>0, <1>1, <1>6, <2>3, Added DEF Register
  <2> QED
    BY <2>1, <2>4 DEF Served, Registered
<1>7. CASE RunWork
  <2>1. camera_pc = "sending" /\ work = clients[pos].fd
    BY <1>7 DEF RunWork, ServerInv, ServeInv
  <2> QED
    BY <1>7, <2>1 DEF RunWork, Served, Registered, clientVars, cameraVars
<1>8. CASE UNCHANGED vars
  BY <1>8 DEF vars, Served, Registered, clientVars, cameraVars, workVars
<1> QED
  BY <1>2, <1>3, <1>4, <1>5, <1>6, <1>7, <1>8 DEF Next, PushFrame, Httpd

\* The handler leaves the session it was called for in the list.
LEMMA RegisteredServed ==
  ASSUME ServerInv, Register, NEW fd, fd = handler_fd
  PROVE  Served(fd)'
<1>0. /\ clients \in Seq(Client) /\ DOMAIN clients = 1..Len(clients)
      /\ Len(clients) \in Nat
  BY DEF ServerInv, TypeOK
<1>1. camera_pc' = "idle" /\ fd \in Fd
  BY DEF Register, cameraVars, ServerInv, HoldInv, ServeInv, TypeOK
<1>2. CASE Registered(fd)
  BY <1>1, <1>2 DEF Register, Registered, Served
<1>3. CASE ~Registered(fd)
  <2>1. NewClient(fd) \in Client /\ NewClient(fd).fd = fd
    BY <1>1 DEF NewClient, Client
  <2>2. clients' = Append(clients, NewClient(fd))
    BY <1>3 DEF Register
  <2>3. Len(clients) + 1 \in DOMAIN clients' /\ clients'[Len(clients) + 1].fd = fd
    BY <1>0, <2>1, <2>2, Added
  <2> QED
    BY <1>1, <2>3 DEF Registered, Served
<1> QED
  BY <1>2, <1>3

-----------------------------------------------------------------------------
\* A page whose session it is knows its socket.
PageInv ==
  /\ \A p \in Page : page[p].pc # "closed" => page[p].fd \in Fd
  /\ \A fd \in Fd, p \in Page :
       owner[fd] = p => page[p].pc # "closed" /\ page[p].fd = fd

Kept(p) ==
  Served(page[p].fd) \/ p \in hello \/ handler_fd = page[p].fd \/ p \in dropped

LiveInv == \A p \in Page : page[p].pc = "live" /\ MaySpeak(p) => Kept(p)

ViewerInv == ServerInv /\ ViewerTypeOK /\ PageInv /\ LiveInv

LEMMA ViewerInitial == ViewerInit => ViewerInv
<1> SUFFICES ASSUME ViewerInit PROVE ViewerInv
  OBVIOUS
<1>1. ServerInv
  BY ServerInit DEF ViewerInit
<1>2. open = {fd \in Fd : owner[fd] # Nobody}
  BY DEF ViewerInit, Init
<1>3. ViewerTypeOK
  BY <1>1, <1>2 DEF ViewerInit, ViewerTypeOK, ServerInv
<1>4. PageInv
  BY OwnerAssumption DEF ViewerInit, PageInv
<1>5. LiveInv
  BY DEF ViewerInit, LiveInv
<1> QED
  BY <1>1, <1>3, <1>4, <1>5 DEF ViewerInv

\* What the viewers and start() do is, for the server, what it allows for.
LEMMA ViewerStepSimulates ==
  ViewerInv /\ [ViewerNext]_<<vars, viewerVars>> => [Next]_vars
<1> SUFFICES ASSUME ViewerInv, [ViewerNext]_<<vars, viewerVars>> PROVE [Next]_vars
  OBVIOUS
<1>1. ASSUME NEW fd, CallHandler(fd) PROVE Next
  <2>1. fd \in Fd
    BY <1>1 DEF CallHandler, ViewerInv, ServerInv, TypeOK
  <2> QED
    BY <1>1, <2>1 DEF Next, Httpd
<1>2. CASE StartHttpd \/ RegisterUris
  BY <1>2 DEF StartHttpd, RegisterUris
<1>3. ASSUME NEW p \in Page, Upgrade(p) \/ ReadHello(p) \/ OnClose(p) PROVE [Next]_vars
  BY <1>1, <1>3 DEF Upgrade, ReadHello, OnClose
<1>4. ASSUME NEW fd \in Fd, NEW p \in Page, PageConnects(p, fd) PROVE Next
  BY <1>4 DEF PageConnects, Next, Httpd
<1>5. ASSUME NEW fd \in Fd, OtherConnects(fd) \/ EndSession(fd) \/ OtherCalls(fd)
      PROVE  Next
  BY <1>5 DEF OtherConnects, EndSession, OtherCalls, Next, Httpd
<1>6. CASE HandlerRegisters \/ RunSend \/ PushStep
  BY <1>6 DEF HandlerRegisters, RunSend, PushStep, Next, Httpd
<1>7. CASE UNCHANGED <<vars, viewerVars>>
  BY <1>7
<1> QED
  BY <1>2, <1>3, <1>4, <1>5, <1>6, <1>7 DEF ViewerNext

LEMMA ViewerStep == ViewerInv /\ [ViewerNext]_<<vars, viewerVars>> => ViewerInv'
<1> SUFFICES ASSUME ViewerInv, [ViewerNext]_<<vars, viewerVars>> PROVE ViewerInv'
  OBVIOUS
<1>0. [Next]_vars /\ ServerInv /\ ServerInv'
  BY ViewerStepSimulates, ServerStep DEF ViewerInv
<1>1. /\ server \in {"off", "started", "running", "error"}
      /\ page \in [Page -> [pc : {"closed", "handshake", "live"}, fd : Fd \cup {NoFd}]]
      /\ owner \in [Fd -> Page \cup {Other, Nobody}]
      /\ hello \subseteq Page /\ dropped \subseteq Page
      /\ open = {fd \in Fd : owner[fd] # Nobody}
      /\ TypeOK /\ TypeOK' /\ NoFd \notin Fd
      /\ Other \notin Page /\ Nobody \notin Page /\ Other # Nobody
  BY <1>0, OwnerAssumption, FdAssumption DEF ViewerInv, ViewerTypeOK, ServerInv
<1>2. \A p \in Page : page[p].pc = "live" /\ MaySpeak(p) => page[p].fd \in Fd /\ Kept(p)
  BY DEF ViewerInv, PageInv, LiveInv
\* A step that leaves pages and sessions as they are.
<1>3. ASSUME UNCHANGED <<page, owner, open>>, server' \in {"off", "started", "running", "error"},
             hello' \subseteq Page, dropped' \subseteq Page,
             \A p \in Page : page[p].pc = "live" /\ MaySpeak(p) => Kept(p)'
      PROVE  ViewerInv'
  BY <1>0, <1>1, <1>3 DEF ViewerInv, ViewerTypeOK, PageInv, LiveInv, MaySpeak
\* Who is served stays served, but for a failed send.
<1>4. ASSUME NEW fd, Served(fd), work' # NoFd \/ work = NoFd PROVE Served(fd)'
  BY <1>0, <1>4, ServedStep DEF RunWork
\* A handler is called only when none runs.
<1>5. httpd_pc = "select" => handler_fd = NoFd
  BY <1>0 DEF ServerInv, ServeInv
<1>6. CASE StartHttpd \/ RegisterUris
  <2>1. UNCHANGED <<vars, pageVars>> /\ server' \in {"off", "started", "running", "error"}
    BY <1>6 DEF StartHttpd, RegisterUris
  <2>2. \A p \in Page : Kept(p) => Kept(p)'
    BY <2>1 DEF vars, pageVars, clientVars, cameraVars, httpdVars, workVars, Kept, Served,
                Registered
  <2> QED
    BY <1>1, <1>2, <1>3, <2>1, <2>2 DEF vars, pageVars, httpdVars
<1>7. ASSUME NEW fd \in Fd, NEW o \in (Page \cup {Other}), Accept(fd),
             owner' = [owner EXCEPT ![fd] = o],
             \A q \in Page : q # o => page'[q] = page[q],
             o \in Page => page[o].pc = "closed" /\ page'[o] = [pc |-> "handshake", fd |-> fd],
             page' \in [Page -> [pc : {"closed", "handshake", "live"}, fd : Fd \cup {NoFd}]],
             UNCHANGED <<server, hello, dropped>>
      PROVE  ViewerInv'
  <2>1. fd \notin open /\ open' = open \cup {fd}
        /\ UNCHANGED <<clients, camera_pc, pos, handler_fd, work, send_result>>
    BY <1>7 DEF Accept, clientVars, cameraVars, workVars
  <2>2. owner' \in [Fd -> Page \cup {Other, Nobody}] /\ owner'[fd] = o
        /\ \A f \in Fd : f # fd => owner'[f] = owner[f]
    BY <1>1, <1>7
  <2>3. ViewerTypeOK'
    BY <1>1, <1>7, <2>1, <2>2 DEF ViewerTypeOK
  <2>4. o \in Page => page'[o].pc = "handshake" /\ page'[o].fd = fd
    BY <1>7
  <2>5. PageInv'
    BY <1>1, <1>7, <2>2, <2>4 DEF ViewerInv, PageInv
  <2>6. ASSUME NEW q \in Page, page'[q].pc = "live", MaySpeak(q)' PROVE Kept(q)'
    <3>1. q # o /\ page'[q] = page[q]
      BY <1>7, <2>4, <2>6
    <3>2. page[q].fd \in Fd
      BY <2>6, <3>1 DEF ViewerInv, PageInv
    <3>3. page[q].fd # fd /\ MaySpeak(q)
      BY <2>2, <2>6, <3>1, <3>2 DEF MaySpeak
    <3>4. Kept(q)
      BY <1>2, <2>6, <3>1, <3>3
    <3> QED
      BY <1>7, <2>1, <3>1, <3>4 DEF Kept, Served, Registered
  <2> QED
    BY <1>0, <2>3, <2>5, <2>6 DEF ViewerInv, LiveInv
<1>8. ASSUME NEW p \in Page, NEW fd \in Fd, PageConnects(p, fd) PROVE ViewerInv'
  <2>1. page' = [page EXCEPT ![p] = [pc |-> "handshake", fd |-> fd]]
    BY <1>8 DEF PageConnects
  <2>2. /\ page' \in [Page -> [pc : {"closed", "handshake", "live"}, fd : Fd \cup {NoFd}]]
        /\ page'[p] = [pc |-> "handshake", fd |-> fd]
        /\ \A q \in Page : q # p => page'[q] = page[q]
    BY <1>1, <2>1
  <2> QED
    BY <1>7, <1>8, <2>2 DEF PageConnects
<1>9. ASSUME NEW fd \in Fd, OtherConnects(fd) PROVE ViewerInv'
  BY <1>1, <1>7, <1>9 DEF OtherConnects
<1>10. ASSUME NEW fd \in Fd, EndSession(fd) PROVE ViewerInv'
  <2>1. open' = open \ {fd} /\ dropped' = dropped \ {owner[fd]}
        /\ UNCHANGED <<clients, camera_pc, pos, handler_fd, work, send_result,
                       server, page, hello>>
    BY <1>10 DEF EndSession, Close, clientVars, cameraVars, workVars
  <2>2. owner' \in [Fd -> Page \cup {Other, Nobody}] /\ owner'[fd] = Nobody
        /\ \A f \in Fd : f # fd => owner'[f] = owner[f]
    BY <1>1, <1>10 DEF EndSession
  <2>3. ViewerTypeOK'
    BY <1>1, <2>1, <2>2 DEF ViewerTypeOK
  <2>4. PageInv'
    BY <1>1, <2>1, <2>2 DEF ViewerInv, PageInv
  <2>5. ASSUME NEW q \in Page, page'[q].pc = "live", MaySpeak(q)' PROVE Kept(q)'
    <3>1. page[q].fd \in Fd
      BY <2>1, <2>5 DEF ViewerInv, PageInv
    <3>2. page[q].fd # fd /\ MaySpeak(q)
      BY <1>1, <2>1, <2>2, <2>5, <3>1 DEF MaySpeak
    <3>3. owner[fd] # q
      BY <3>2 DEF ViewerInv, PageInv
    <3>4. Kept(q)
      BY <1>2, <2>1, <2>5, <3>2
    <3> QED
      BY <2>1, <3>3, <3>4 DEF Kept, Served, Registered
  <2> QED
    BY <1>0, <2>3, <2>4, <2>5 DEF ViewerInv, LiveInv
\* ws_handler is called for fd: so far it was not busy.
<1>11. ASSUME NEW fd \in Fd, CallHandler(fd)
       PROVE  /\ UNCHANGED <<clients, camera_pc, pos, work, send_result, open>>
              /\ handler_fd' = fd /\ handler_fd = NoFd
  BY <1>5, <1>11 DEF CallHandler, clientVars, cameraVars, workVars
<1>12. ASSUME NEW p \in Page, Upgrade(p) PROVE ViewerInv'
  <2>1. page[p].pc = "handshake" /\ MaySpeak(p) /\ page[p].fd \in Fd
    BY <1>12 DEF Upgrade, ViewerInv, PageInv
  <2>2. /\ page' \in [Page -> [pc : {"closed", "handshake", "live"}, fd : Fd \cup {NoFd}]]
        /\ page'[p].pc = "live" /\ page'[p].fd = page[p].fd
        /\ \A q \in Page : q # p => page'[q] = page[q]
        /\ hello' = hello \cup {p} /\ UNCHANGED <<server, owner, dropped>>
    BY <1>1, <1>12 DEF Upgrade
  <2>3. UNCHANGED <<clients, camera_pc, pos, work, send_result, open>>
        /\ (handler_fd = NoFd \/ UNCHANGED handler_fd)
    BY <1>11, <1>12, <2>1
    DEF Upgrade, vars, clientVars, cameraVars, httpdVars, workVars
  <2>4. ViewerTypeOK'
    BY <1>1, <2>2, <2>3 DEF ViewerTypeOK
  <2>5. PageInv'
    BY <2>1, <2>2 DEF ViewerInv, PageInv
  <2>6. ASSUME NEW q \in Page, q # p, page'[q].pc = "live", MaySpeak(q)' PROVE Kept(q)'
    <3>1. page'[q] = page[q] /\ MaySpeak(q) /\ page[q].pc = "live"
      BY <2>2, <2>6 DEF MaySpeak
    <3>2. Kept(q) /\ page[q].fd \in Fd
      BY <1>2, <3>1
    <3> QED
      BY <1>1, <2>2, <2>3, <3>1, <3>2 DEF Kept, Served, Registered
  <2>7. Kept(p)'
    BY <2>2 DEF Kept
  <2> QED
    BY <1>0, <2>4, <2>5, <2>6, <2>7 DEF ViewerInv, LiveInv
<1>13. ASSUME NEW p \in Page, ReadHello(p) PROVE ViewerInv'
  <2>1. p \in hello /\ page[p].fd \in Fd /\ CallHandler(page[p].fd)
    BY <1>1, <1>13 DEF ReadHello, CallHandler, TypeOK
  <2>2. /\ UNCHANGED <<clients, camera_pc, pos, work, send_result, open, server, page,
                       owner, dropped>>
        /\ handler_fd' = page[p].fd /\ handler_fd = NoFd /\ hello' = hello \ {p}
    BY <1>11, <1>13, <2>1 DEF ReadHello
  <2>3. ASSUME NEW q \in Page, page[q].pc = "live", MaySpeak(q) PROVE Kept(q)'
    <3>1. Kept(q) /\ page[q].fd \in Fd
      BY <1>2, <2>3
    <3> QED
      BY <1>1, <2>2, <3>1 DEF Kept, Served, Registered
  <2> QED
    BY <1>1, <1>3, <2>2, <2>3
<1>14. ASSUME NEW fd \in Fd, OtherCalls(fd) PROVE ViewerInv'
  <2>1. /\ UNCHANGED <<clients, camera_pc, pos, work, send_result, open, server, page,
                       owner, hello, dropped>>
        /\ handler_fd = NoFd
    BY <1>11, <1>14 DEF OtherCalls, viewerVars, pageVars
  <2>2. ASSUME NEW q \in Page, page[q].pc = "live", MaySpeak(q) PROVE Kept(q)'
    <3>1. Kept(q) /\ page[q].fd \in Fd
      BY <1>2, <2>2
    <3> QED
      BY <1>1, <2>1, <3>1 DEF Kept, Served, Registered
  <2> QED
    BY <1>1, <1>3, <2>1, <2>2
<1>15. CASE HandlerRegisters
  <2>1. Register /\ dropped' = dropped \ {owner[handler_fd]}
        /\ UNCHANGED <<server, page, owner, hello, open, work>>
    BY <1>15 DEF HandlerRegisters, Register, workVars
  <2>2. handler_fd \in Fd
    BY <1>0, <2>1 DEF Register, ServerInv, ServeInv, TypeOK
  <2>3. ASSUME NEW q \in Page, page[q].pc = "live", MaySpeak(q) PROVE Kept(q)'
    <3>1. Kept(q) /\ page[q].fd \in Fd
      BY <1>2, <2>3
    <3>2. CASE page[q].fd = handler_fd
      BY <1>0, <2>1, <3>2, RegisteredServed DEF Kept, Served, Registered
    <3>3. CASE page[q].fd # handler_fd
      <4>1. owner[handler_fd] # q
        BY <2>2, <3>3 DEF ViewerInv, PageInv
      <4>2. Served(page[q].fd) => Served(page[q].fd)'
        BY <1>4, <2>1 DEF Served, Registered
      <4> QED
        BY <2>1, <3>1, <3>3, <4>1, <4>2 DEF Kept
    <3> QED
      BY <3>2, <3>3
  <2> QED
    BY <1>1, <1>3, <2>1, <2>3
<1>16. ASSUME NEW p \in Page, OnClose(p) PROVE ViewerInv'
  <2>1. /\ page' \in [Page -> [pc : {"closed", "handshake", "live"}, fd : Fd \cup {NoFd}]]
        /\ page'[p].pc = "closed"
        /\ \A q \in Page : q # p => page'[q] = page[q]
        /\ hello' = hello \ {p} /\ UNCHANGED <<vars, server, owner, dropped>>
        /\ page[p].pc # "closed" /\ ~MaySpeak(p)
    BY <1>1, <1>16 DEF OnClose
  <2>2. UNCHANGED <<clients, camera_pc, pos, work, send_result, open, handler_fd>>
    BY <2>1 DEF vars, clientVars, cameraVars, httpdVars, workVars
  <2>3. ViewerTypeOK'
    BY <1>1, <2>1, <2>2 DEF ViewerTypeOK
  <2>4. PageInv'
    BY <2>1 DEF ViewerInv, PageInv, MaySpeak
  <2>5. ASSUME NEW q \in Page, page'[q].pc = "live", MaySpeak(q)' PROVE Kept(q)'
    <3>1. q # p /\ page'[q] = page[q] /\ MaySpeak(q) /\ page[q].pc = "live"
      BY <2>1, <2>5 DEF MaySpeak
    <3> QED
      BY <1>2, <2>1, <2>2, <3>1 DEF Kept, Served, Registered
  <2> QED
    BY <1>0, <2>3, <2>4, <2>5 DEF ViewerInv, LiveInv
<1>17. CASE RunSend
  <2>1. RunWork /\ UNCHANGED <<server, page, owner, hello, open, handler_fd>>
    BY <1>17 DEF RunSend, RunWork, httpdVars
  <2>2. dropped' = IF send_result' = "gone" /\ owner[work] \in Page
                   THEN dropped \cup {owner[work]} ELSE dropped
    BY <1>17 DEF RunSend
  <2>3. ASSUME NEW q \in Page, page[q].pc = "live", MaySpeak(q) PROVE Kept(q)'
    <3>1. Kept(q)
      BY <1>2, <2>3
    <3>2. CASE Served(page[q].fd)
      <4>1. \A fd : Served(fd) =>
              Served(fd)' \/ (RunWork /\ send_result' = "gone" /\ work = fd)
        BY <1>0, ServedStep
      <4>2. Served(page[q].fd)' \/ (send_result' = "gone" /\ work = page[q].fd)
        BY <2>1, <3>2, <4>1 DEF Served, Registered
      <4> QED
        BY <2>2, <2>3, <4>2 DEF Kept, MaySpeak
    <3> QED
      BY <2>1, <2>2, <3>1, <3>2 DEF Kept
  <2> QED
    BY <1>1, <1>3, <2>1, <2>2, <2>3
<1>18. CASE PushStep
  <2>1. PushFrame /\ UNCHANGED <<server, page, owner, hello, dropped, open, handler_fd>>
    BY <1>18
    DEF PushStep, viewerVars, pageVars, PushFrame, LockClients, Visit, SendReturns,
        UnlockClients, httpdVars
  <2>2. ~RunWork
    BY <2>1
    DEF PushFrame, LockClients, Visit, SendReturns, UnlockClients, workVars, RunWork,
        cameraVars
  <2>3. ASSUME NEW q \in Page, page[q].pc = "live", MaySpeak(q) PROVE Kept(q)'
    <3>1. \A fd : Served(fd) => Served(fd)'
      BY <1>0, <2>2, ServedStep
    <3> QED
      BY <1>2, <2>1, <2>3, <3>1 DEF Kept, Served, Registered
  <2> QED
    BY <1>1, <1>3, <2>1, <2>3
<1>19. CASE UNCHANGED <<vars, viewerVars>>
  <2>1. UNCHANGED <<clients, camera_pc, pos, work, send_result, open, handler_fd,
                    server, page, owner, hello, dropped>>
    BY <1>19 DEF vars, viewerVars, pageVars, clientVars, cameraVars, httpdVars, workVars
  <2> QED
    BY <1>1, <1>2, <1>3, <2>1 DEF Kept, Served, Registered
<1> QED
  BY <1>6, <1>8, <1>9, <1>10, <1>12, <1>13, <1>14, <1>15, <1>16, <1>17, <1>18, <1>19
  DEF ViewerNext

LEMMA ViewerInvariant == ViewerSpec => []ViewerInv
<1> QED
  BY ViewerInitial, ViewerStep, PTL DEF ViewerSpec

\* The viewers, and start(), ask of the server nothing StreamServer does not describe.
THEOREM ViewersRefineServer == ViewerSpec => Spec
<1>1. ViewerInit => Init
  BY DEF ViewerInit
<1> QED
  BY <1>1, ViewerInvariant, ViewerStepSimulates, PTL DEF ViewerSpec, Spec

\* Sessions, entries and pages keep their types, and every open socket has an owner.
THEOREM ViewerTypeCorrect == ViewerSpec => []ViewerTypeOK
<1>1. ViewerInv => ViewerTypeOK
  BY DEF ViewerInv
<1> QED
  BY <1>1, ViewerInvariant, PTL

\* However handshakes, messages and removals interleave, no socket gets two entries.
THEOREM EntriesAlwaysUnique == ViewerSpec => []EntriesUnique
<1>1. ViewerInv => EntriesUnique
  BY DEF ViewerInv, ServerInv
<1> QED
  BY <1>1, ViewerInvariant, PTL

\* Every entry of clients_ is offered a keyframe before any other frame.
THEOREM KeyframeAlwaysFirst == ViewerSpec => []KeyframeFirst
<1>1. ViewerInv => KeyframeFirst
  BY DEF ViewerInv, ServerInv, ReadyInv, KeyframeFirst
<1> QED
  BY <1>1, ViewerInvariant, PTL

\* push_frame skips nobody, however many dead viewers it erases on its way.
THEOREM NobodyEverSkipped == ViewerSpec => []NobodySkipped
<1>1. ViewerInv => NobodySkipped
  <2> SUFFICES ASSUME ViewerInv PROVE NobodySkipped
    OBVIOUS
  <2>1. DOMAIN clients = 1..Len(clients) /\ Len(clients) \in Nat /\ pos \in Nat
    BY DEF ViewerInv, ServerInv, TypeOK
  <2> QED
    BY <2>1 DEF ViewerInv, ServerInv, WalkInv, NobodySkipped
<1> QED
  BY <1>1, ViewerInvariant, PTL

\* For any number of sockets and browsers: a page that shows "Live" is served, or is
\* about to be, unless a send to it failed.
THEOREM LiveAlwaysServed == ViewerSpec => []LiveIsServed
<1>1. ViewerInv => LiveIsServed
  BY DEF ViewerInv, LiveInv, Kept, Served, LiveIsServed
<1> QED
  BY <1>1, ViewerInvariant, PTL

-----------------------------------------------------------------------------
(***************************************************************************)
(* How long push_frame holds the mutex: a bounded number of steps, all of  *)
(* which can be taken, unless it comes to the circular wait of             *)
(* NoCircularWait; and then for ever.                                      *)
(***************************************************************************)
StandStill == ~NoCircularWait

\* Steps that are left of a push: three for each entry it has not passed.
PushLeft ==
  IF camera_pc = "idle" THEN 0
  ELSE 3 * (Len(clients) + 1 - pos)
         + (IF camera_pc = "visit" THEN 1 ELSE IF send_result = "none" THEN 0 ELSE -1)

\* What push_frame does and what it waits for bring it closer to its end; nothing that
\* connects, closes or registers meanwhile makes it longer.
PushAdvances ==
  [][/\ Visit \/ SendReturns \/ UnlockClients \/ RunWork => PushLeft' < PushLeft
     /\ PushLeft' > PushLeft => LockClients]_vars

\* Whoever waits is served, but in the stand-still: the send that push_frame waits for
\* can be run, and the mutex that ws_handler waits for is free or held by a push that
\* goes on.
WaitsAreServed ==
  /\ camera_pc = "sending" /\ send_result = "none" =>
       StandStill \/ (httpd_pc = "select" /\ work # NoFd)
  /\ httpd_pc = "want_mutex" =>
       \/ StandStill \/ clients_mutex = "free"
       \/ camera_pc = "visit"
       \/ camera_pc = "sending" /\ send_result # "none"

\* Nothing leaves the stand-still: camera_task and the server's task are lost.
StandStillForGood == [][StandStill => UNCHANGED vars]_vars

\* The push under way: where it stands and what that leaves.
LEMMA PushKept ==
  ASSUME ServerInv
  PROVE  /\ clients \in Seq(Client) /\ Len(clients) \in Nat /\ pos \in Int
         /\ pos \in 1..(Len(clients) + 1)
         /\ camera_pc \in {"idle", "visit", "sending"}
         /\ camera_pc = "sending" => pos <= Len(clients)
         /\ PushLeft \in Int
<1>1. /\ clients \in Seq(Client) /\ Len(clients) \in Nat /\ pos \in Int
      /\ pos \in 1..(Len(clients) + 1)
      /\ camera_pc \in {"idle", "visit", "sending"}
      /\ camera_pc = "sending" => pos <= Len(clients)
  BY DEF ServerInv, TypeOK, HoldInv
<1>2. PushLeft \in Int
  BY <1>1 DEF PushLeft
<1> QED
  BY <1>1, <1>2

LEMMA PushStepAdvances ==
  ASSUME ServerInv, [Next]_vars
  PROVE  /\ Visit \/ SendReturns \/ UnlockClients \/ RunWork => PushLeft' < PushLeft
         /\ PushLeft' > PushLeft => LockClients
<1>1. /\ clients \in Seq(Client) /\ Len(clients) \in Nat /\ pos \in Int
      /\ pos \in 1..(Len(clients) + 1)
      /\ camera_pc \in {"idle", "visit", "sending"}
      /\ camera_pc = "sending" => pos <= Len(clients)
      /\ PushLeft \in Int
  BY PushKept
<1> DEFINE Fewer == PushLeft' \in Int /\ PushLeft' < PushLeft
\* An entry is looked at: the frame is sent to it, or it is passed.
<1>2. ASSUME Visit PROVE Fewer
  <2>1. camera_pc = "visit" /\ pos <= Len(clients)
    BY <1>2 DEF Visit
  <2>2. PushLeft = 3 * (Len(clients) + 1 - pos) + 1
    BY <2>1 DEF PushLeft
  <2>3. CASE camera_pc' = "sending"
    <3>1. Len(clients') = Len(clients) /\ pos' = pos /\ send_result' = "none"
      BY <1>1, <1>2, <2>1, <2>3 DEF Visit
    <3>2. PushLeft' = 3 * (Len(clients) + 1 - pos)
      BY <1>1, <2>3, <3>1 DEF PushLeft
    <3> QED
      BY <1>1, <2>2, <3>2
  <2>4. CASE camera_pc' # "sending"
    <3>1. clients' = clients /\ pos' = pos + 1 /\ camera_pc' = "visit"
      BY <1>2, <2>1, <2>4 DEF Visit
    <3>2. PushLeft' = 3 * (Len(clients) + 1 - (pos + 1)) + 1
      BY <3>1 DEF PushLeft
    <3> QED
      BY <1>1, <2>2, <3>2
  <2> QED
    BY <2>3, <2>4
\* The entry is erased, or passed.
<1>3. ASSUME SendReturns PROVE Fewer
  <2>1. /\ camera_pc = "sending" /\ send_result # "none" /\ camera_pc' = "visit"
        /\ pos \in 1..Len(clients)
    BY <1>1, <1>3 DEF SendReturns
  <2>2. PushLeft = 3 * (Len(clients) + 1 - pos) - 1
    BY <1>1, <2>1 DEF PushLeft
  <2>3. Len(clients') - pos' = Len(clients) - pos - 1 /\ pos' \in Int /\ Len(clients') \in Int
    <3>1. Len(RemoveAt(clients, pos)) = Len(clients) - 1
      BY <1>1, <2>1, Erased
    <3> QED
      BY <1>1, <1>3, <3>1 DEF SendReturns
  <2>4. PushLeft' = 3 * (Len(clients') + 1 - pos') + 1
    BY <2>1 DEF PushLeft
  <2>5. PushLeft' = 3 * (Len(clients) - pos) + 1
    <3>1. \A m, q, l, p \in Int :
            m - q = l - p - 1 => 3 * (m + 1 - q) + 1 = 3 * (l - p) + 1
      OBVIOUS
    <3> QED
      BY <1>1, <2>3, <2>4, <3>1
  <2> QED
    BY <1>1, <2>2, <2>5
<1>4. ASSUME UnlockClients PROVE Fewer
  BY <1>1, <1>4 DEF UnlockClients, PushLeft
<1>5. ASSUME RunWork PROVE Fewer
  <2>1. camera_pc = "sending" /\ send_result = "none"
    BY <1>5 DEF RunWork, ServerInv, ServeInv
  <2>2. UNCHANGED <<clients, pos, camera_pc>> /\ send_result' # "none"
    BY <1>5 DEF RunWork, clientVars, cameraVars
  <2> QED
    BY <1>1, <2>1, <2>2 DEF PushLeft
\* The mutex keeps ws_handler from the list.
<1>6. ASSUME Register PROVE PushLeft' = PushLeft
  <2>1. camera_pc = "idle" /\ camera_pc' = "idle"
    BY <1>6 DEF Register, ServerInv, HoldInv, cameraVars
  <2> QED
    BY <2>1 DEF PushLeft
<1>7. ASSUME NEW fd \in Fd, Accept(fd) \/ Close(fd) \/ CallHandler(fd)
      PROVE  PushLeft' = PushLeft
  BY <1>7 DEF Accept, Close, CallHandler, clientVars, cameraVars, workVars, PushLeft
<1>8. ASSUME UNCHANGED vars PROVE PushLeft' = PushLeft
  BY <1>8 DEF vars, clientVars, cameraVars, workVars, PushLeft
<1> HIDE DEF Fewer
<1>9. Fewer => PushLeft' < PushLeft /\ ~(PushLeft' > PushLeft)
  BY <1>1 DEF Fewer
<1>10. PushLeft' = PushLeft => ~(PushLeft' > PushLeft)
  BY <1>1
<1> QED
  BY <1>2, <1>3, <1>4, <1>5, <1>6, <1>7, <1>8, <1>9, <1>10 DEF Next, PushFrame, Httpd

\* For any number of viewers: a push that has begun comes closer to its end with every
\* step of its own, and with every send.
THEOREM PushAlwaysAdvances == ViewerSpec => PushAdvances
<1>1. ASSUME ServerInv, [Next]_vars
      PROVE  [/\ Visit \/ SendReturns \/ UnlockClients \/ RunWork => PushLeft' < PushLeft
              /\ PushLeft' > PushLeft => LockClients]_vars
  BY <1>1, PushStepAdvances
<1>2. ViewerInv => ServerInv
  BY DEF ViewerInv
<1> QED
  BY <1>1, <1>2, ViewerInvariant, ViewersRefineServer, PTL DEF Spec, PushAdvances

\* The stand-still is the only way in which camera_task and the server's task, for any
\* number of viewers, can keep each other waiting.
THEOREM WaitsAlwaysServed == ViewerSpec => []WaitsAreServed
<1>1. ServerInv => WaitsAreServed
  <2> SUFFICES ASSUME ServerInv PROVE WaitsAreServed
    OBVIOUS
  <2>1. /\ camera_pc \in {"idle", "visit", "sending"}
        /\ clients_mutex \in {"free", "camera"} /\ httpd_pc \in {"select", "want_mutex"}
        /\ clients_mutex = "camera" <=> camera_pc # "idle"
    BY DEF ServerInv, TypeOK, HoldInv
  <2>2. ASSUME camera_pc = "sending", send_result = "none"
        PROVE  work # NoFd
    <3>1. /\ work = clients[pos].fd /\ pos \in 1..Len(clients)
          /\ clients \in Seq(Client)
      BY <2>2 DEF ServerInv, TypeOK, HoldInv, ServeInv
    <3>2. clients[pos] \in Client
      BY <3>1
    <3> QED
      BY <3>1, <3>2, FdAssumption DEF Client
  <2> QED
    BY <2>1, <2>2 DEF WaitsAreServed, StandStill, NoCircularWait
<1>2. ViewerInv => ServerInv
  BY DEF ViewerInv
<1> QED
  BY <1>1, <1>2, ViewerInvariant, PTL

\* Once they do, neither takes another step.
THEOREM StandStillIsFinal == ViewerSpec => StandStillForGood
<1>1. ASSUME ServerInv, StandStill, [Next]_vars
      PROVE  UNCHANGED vars
  <2>1. /\ camera_pc = "sending" /\ work # NoFd /\ clients_mutex = "camera"
        /\ httpd_pc = "want_mutex"
    BY <1>1 DEF StandStill, NoCircularWait
  <2>2. send_result = "none"
    BY <1>1, <2>1 DEF ServerInv, ServeInv
  <2> QED
    BY <1>1, <2>1, <2>2
    DEF Next, PushFrame, Httpd, LockClients, Visit, SendReturns, UnlockClients, Accept,
        Close, CallHandler, Register, RunWork
<1>2. ASSUME ServerInv, [Next]_vars
      PROVE  [StandStill => UNCHANGED vars]_vars
  BY <1>1, <1>2
<1>3. ViewerInv => ServerInv
  BY DEF ViewerInv
<1> QED
  BY <1>2, <1>3, ViewerInvariant, ViewersRefineServer, PTL DEF Spec, StandStillForGood

=============================================================================
