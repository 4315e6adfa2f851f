-------------------------- MODULE KCPSocketProofs --------------------------
(***************************************************************************)
(* The handshake of KCPSocket, for any set of clients, ports and values    *)
(* and any number of connects and accepted sockets, over a network that    *)
(* loses, repeats, delays and reorders: the manager never holds two        *)
(* sockets of one address; the two ends with a conv have its address and   *)
(* value in common, and a socket that an earlier connect left behind is    *)
(* joined only by a connect that repeats a value; and the callbacks of     *)
(* both sides are those KCPContract allows.                                *)
(***************************************************************************)
EXTENDS KCPSocket, TLAPS

-----------------------------------------------------------------------------
(* The steps, by what they do.  A client that is silent, or reads a FIN,   *)
(* disconnects or ends its FIN_WAIT; a server's timers and datagrams       *)
(* announce, disconnect or remove a socket of the manager.                 *)

Announce(v) ==
  /\ acc[v].state = "SYN_RECV" /\ listener.state = "LISTEN"
  /\ \E d \in net : d.kind = "ACK" /\ v = d.value - 1
  /\ acc' = [acc EXCEPT ![v].state = "ESTABLISHED"]
  /\ told' = [told EXCEPT !.svr[v] = "up", !.calls = @ + 1]
  /\ UNCHANGED <<net, listener, convSeed>> /\ ServerStep

LEMMA ClientCases ==
  ASSUME NEW c \in Clients, Client(c)
  PROVE  \/ Connect(c) \/ OnSynAndAck(c) \/ ConnectTimeout(c)
         \/ ClientDisconnect(c) \/ FinWaitEnds(c) \/ OnCloseSocketFinished(c)
BY DEF Client, ClientSilence, ClientOnFin, FinWaitTimeout

Sweep(v) == acc[v].state # "ESTABLISHED" /\ Remove(v)

LEMMA ServerCases ==
  ASSUME Server
  PROVE  \/ OnSyn \/ StopListen \/ StopListenTick \/ ListenerClosed
         \/ \E v \in Manager : Announce(v) \/ ServerDisconnect(v) \/ Sweep(v)
<1>1. ASSUME OnAck
      PROVE  \E v \in Manager : Announce(v) \/ Sweep(v)
  BY <1>1 DEF OnAck, SocketsOf, ServerReads, Announce, Sweep
<1>2. ASSUME ServerOnFin
      PROVE  \E v \in Manager : ServerDisconnect(v) \/ Sweep(v)
  BY <1>2 DEF ServerOnFin, SocketsOf, Sweep
<1>3. ASSUME NEW v \in Convs, ServerDisconnect(v) \/ ServerSilence(v) \/ AcceptedTimeout(v)
      PROVE  \E w \in Manager : ServerDisconnect(w) \/ Sweep(w)
  <2>1. v \in Manager /\ (ServerDisconnect(v) \/ Sweep(v))
    BY <1>3 DEF Manager, ServerSilence, AcceptedTimeout, ServerDisconnect, Sweep
  <2>2. QED
    BY <2>1
<1>4. QED
  BY <1>1, <1>2, <1>3 DEF Server

-----------------------------------------------------------------------------
(* The datagrams: what is sent is one, and what is read has its fields.    *)

LEMMA Sent ==
  ASSUME NEW p \in Ports
  PROVE  /\ \A n \in Values : Syn(p, n) \in Datagram
         /\ \A n \in Values, v \in Convs : SynAndAck(p, n + 1, v) \in Datagram
         /\ \A v \in Convs : /\ Ack(p, v + 1) \in Datagram
                             /\ Fin(p, v) \in Datagram
                             /\ FinToClient(p, v) \in Datagram
<1>1. \A n \in Values : n + 1 \in Answers
  BY DEF Answers
<1>2. \A v \in Convs : v + 1 \in 2 .. MaxConvs + 1
  BY KCPAssumption DEF Convs
<1>3. QED
  BY <1>1, <1>2 DEF Syn, SynAndAck, Ack, Fin, FinToClient, Datagram

LEMMA Received ==
  ASSUME NEW d \in Datagram
  PROVE  /\ d.kind = "SYN" => d.addr \in Ports /\ d.value \in Values
         /\ d.kind = "SYNACK" => /\ d.addr \in Ports /\ d.conv \in Convs
                                 /\ d.value \in Answers
BY DEF Datagram

LEMMA ReceivedSyn ==
  ASSUME NEW d \in Datagram, d.kind = "SYN"
  PROVE  d = Syn(d.addr, d.value)
BY DEF Datagram, Syn

-----------------------------------------------------------------------------
(* The types.  A datagram is sent from a socket that has an address: the   *)
(* type invariant needs that connected sockets have one.                   *)

Addressed ==
  /\ \A c \in Clients : so[c].state = "ESTABLISHED" =>
                          so[c].port \in Ports /\ so[c].conv \in Convs
  /\ \A v \in Manager : acc[v].addr \in Ports

TypeInv == TypeOK /\ Addressed

LEMMA ShutdownType ==
  ASSUME NEW s \in Socket
  PROVE  Shutdown(s) \in Socket /\ [Shutdown(s) EXCEPT !.state = "CLOSED"] \in Socket
<1>1. 0 \in 0 .. MaxConvs + 1
  BY KCPAssumption
<1>2. QED
  BY <1>1 DEF Shutdown, Socket

LEMMA SynSentType ==
  ASSUME NEW s \in Socket, NEW p \in Ports, NEW n \in Values, NEW k \in 0 .. MaxConvs + 1
  PROVE  SynSent(s, p, n, k) \in Socket
BY DEF SynSent, Socket

(* The history of callbacks.                                               *)
Told == [cli : [Clients -> {"idle", "waiting", "repeating", "up"}], given : SUBSET Convs,
         svr : [Convs -> {"none", "up", "down"}],
         listener : {"up", "closed"}, calls : Nat]

LEMMA ToldClient ==
  ASSUME NEW t \in Told, NEW c \in Clients
  PROVE  /\ \A x \in {"waiting", "repeating"} : [t EXCEPT !.cli[c] = x] \in Told
         /\ [t EXCEPT !.cli[c] = "idle", !.calls = @ + 1] \in Told
         /\ \A v \in Convs :
              [t EXCEPT !.cli[c] = "up", !.given = @ \cup {v}, !.calls = @ + 1] \in Told
<1>1. t.calls + 1 \in Nat
  BY DEF Told
<1>2. \A x \in {"waiting", "repeating"} : [t EXCEPT !.cli[c] = x] \in Told
  BY DEF Told
<1>3. [t EXCEPT !.cli[c] = "idle", !.calls = @ + 1] \in Told
  BY <1>1 DEF Told
<1>4. ASSUME NEW v \in Convs
      PROVE  [t EXCEPT !.cli[c] = "up", !.given = @ \cup {v}, !.calls = @ + 1] \in Told
  <2>1. t.given \cup {v} \in SUBSET Convs
    BY DEF Told
  <2>2. QED
    BY <1>1, <2>1 DEF Told
<1>5. QED
  BY <1>2, <1>3, <1>4

LEMMA ToldServer ==
  ASSUME NEW t \in Told
  PROVE  /\ \A v \in Convs : /\ [t EXCEPT !.svr[v] = "up", !.calls = @ + 1] \in Told
                             /\ [t EXCEPT !.svr[v] = "down", !.calls = @ + 1] \in Told
         /\ [t EXCEPT !.listener = "closed", !.calls = @ + 1] \in Told
<1>1. t.calls + 1 \in Nat
  BY DEF Told
<1>2. \A v \in Convs, x \in {"up", "down"} :
        [t EXCEPT !.svr[v] = x, !.calls = @ + 1] \in Told
  BY <1>1 DEF Told
<1>3. [t EXCEPT !.listener = "closed", !.calls = @ + 1] \in Told
  BY <1>1 DEF Told
<1>4. QED
  BY <1>2, <1>3

LEMMA TypeInit == Init => TypeInv
<1> SUFFICES ASSUME Init PROVE TypeInv
  OBVIOUS
<1>1. so \in [Clients -> Socket]
  BY KCPAssumption DEF Init, Socket
<1>2. acc \in [Convs -> Accepted]
  BY DEF Init, Accepted
<1>3. connects \in 0 .. MaxConnects /\ convSeed \in 1 .. MaxConvs + 1 /\ net \subseteq Datagram
  BY KCPAssumption DEF Init
<1>4. /\ listener \in [state : {"LISTEN", "STOP_LISTEN", "CLOSED"},
                       udp : {"open", "closing", "none"}]
      /\ told \in Told
  BY DEF Init, Told
<1>5. Addressed
  BY DEF Init, Addressed, Manager
<1>6. QED
  BY <1>1, <1>2, <1>3, <1>4, <1>5 DEF TypeInv, TypeOK, Told

LEMMA TypeClient ==
  ASSUME TypeInv, NEW c \in Clients, Client(c)
  PROVE  TypeInv'
<1>1. /\ so \in [Clients -> Socket] /\ so[c] \in Socket
      /\ told \in Told /\ net \subseteq Datagram /\ connects \in Nat
  BY KCPAssumption DEF TypeInv, TypeOK, Told
<1>2. ASSUME ClientStep, so' \in [Clients -> Socket], connects' \in 0 .. MaxConnects,
             net' \subseteq Datagram, told' \in Told,
             \A b \in Clients : so'[b].state = "ESTABLISHED" =>
                                  so'[b].port \in Ports /\ so'[b].conv \in Convs
      PROVE  TypeInv'
  BY <1>2 DEF TypeInv, TypeOK, Addressed, Told, ClientStep, Manager
<1>3. CASE Connect(c)
  <2>1. connects' \in 0 .. MaxConnects
    BY <1>1, <1>3, KCPAssumption DEF Connect, TypeInv, TypeOK
  <2>2. PICK p \in FreePorts, value \in Values :
          /\ so' = [so EXCEPT ![c] =
                      SynSent(@, p, value, IF Repeats(p, value) THEN 0 ELSE convSeed)]
          /\ told' = [told EXCEPT !.cli[c] =
                        IF Repeats(p, value) THEN "repeating" ELSE "waiting"]
          /\ UdpSend(Syn(p, value))
    BY <1>3 DEF Connect
  <2>3. p \in Ports /\ (IF Repeats(p, value) THEN 0 ELSE convSeed) \in 0 .. MaxConvs + 1
    BY KCPAssumption DEF FreePorts, TypeInv, TypeOK
  <2>4. so' \in [Clients -> Socket]
    BY <1>1, <2>2, <2>3, SynSentType
  <2>5. net' \subseteq Datagram
    BY <1>1, <2>1, <2>2, <2>3, Sent DEF UdpSend
  <2>6. told' \in Told /\ ClientStep
    BY <1>1, <1>3, <2>2, ToldClient DEF Connect
  <2>7. \A b \in Clients : so'[b].state = "ESTABLISHED" =>
                             so'[b].port \in Ports /\ so'[b].conv \in Convs
    BY <1>1, <2>2 DEF TypeInv, Addressed, Socket, SynSent
  <2>8. QED
    BY <1>2, <2>1, <2>4, <2>5, <2>6, <2>7
<1>4. ASSUME ConnectFailed(c), UNCHANGED connects, ClientStep
      PROVE  TypeInv'
  <2>1. so' = [so EXCEPT ![c] = [Shutdown(@) EXCEPT !.state = "CLOSED"]]
    BY <1>4 DEF ConnectFailed
  <2>2. so' \in [Clients -> Socket]
    BY <1>1, <2>1, ShutdownType
  <2>3. told' \in Told /\ net' \subseteq Datagram
    BY <1>1, <1>4, ToldClient DEF ConnectFailed
  <2>4. so'[c].state = "CLOSED" /\ \A b \in Clients \ {c} : so'[b] = so[b]
    BY <1>1, <2>1 DEF Shutdown, Socket
  <2>5. QED
    BY <1>2, <1>4, <2>2, <2>3, <2>4 DEF TypeInv, TypeOK, Addressed
<1>5. CASE OnSynAndAck(c)
  <2>1. PICK d \in ClientReads(c, "SYNACK") :
          IF d.value = so[c].value + 1 THEN Connected(c, d.conv) ELSE ConnectFailed(c)
    BY <1>5 DEF OnSynAndAck
  <2>2. d.addr = so[c].port /\ d.addr \in Ports /\ d.conv \in Convs
    BY <1>1, Received DEF ClientReads
  <2>3. UNCHANGED connects /\ ClientStep
    BY <1>5 DEF OnSynAndAck
  <2>4. CASE Connected(c, d.conv)
    <3>1. so' = [so EXCEPT ![c] = [@ EXCEPT !.state = "ESTABLISHED", !.conv = d.conv]]
      BY <2>4 DEF Connected
    <3>2. so' \in [Clients -> Socket]
      BY <1>1, <2>2, <3>1 DEF Socket
    <3>3. told' \in Told /\ net' \subseteq Datagram
      BY <1>1, <2>2, <2>4, Sent, ToldClient DEF Connected, UdpSend
    <3>4. /\ so'[c].port \in Ports /\ so'[c].conv \in Convs
          /\ \A b \in Clients \ {c} : so'[b] = so[b]
      BY <1>1, <2>2, <3>1 DEF Socket
    <3>5. QED
      BY <1>2, <2>3, <3>2, <3>3, <3>4 DEF TypeInv, TypeOK, Addressed
  <2>5. QED
    BY <1>4, <2>1, <2>3, <2>4
<1>6. CASE ConnectTimeout(c)
  BY <1>4, <1>6 DEF ConnectTimeout
<1>7. CASE ClientDisconnect(c)
  <2>1. so' = [so EXCEPT ![c].state = "FIN_WAIT"] /\ ClientStep
    BY <1>7 DEF ClientDisconnect
  <2>2. so[c].port \in Ports /\ so[c].conv \in Convs
    BY <1>7 DEF ClientDisconnect, TypeInv, Addressed
  <2>3. told' \in Told /\ net' \subseteq Datagram
    BY <1>1, <1>7, <2>2, Sent DEF ClientDisconnect, UdpSend
  <2>4. /\ so' \in [Clients -> Socket]
        /\ so'[c].state = "FIN_WAIT" /\ \A b \in Clients \ {c} : so'[b] = so[b]
    BY <1>1, <2>1 DEF Socket
  <2>5. QED
    BY <1>2, <1>7, <2>1, <2>3, <2>4 DEF TypeInv, TypeOK, Addressed, ClientDisconnect
<1>8. CASE FinWaitEnds(c)
  <2>1. so' = [so EXCEPT ![c] = Shutdown(@)] /\ so[c].state = "FIN_WAIT" /\ ClientStep
    BY <1>8 DEF FinWaitEnds
  <2>2. so' \in [Clients -> Socket]
    BY <1>1, <2>1, ShutdownType
  <2>3. so'[c].state = "FIN_WAIT" /\ \A b \in Clients \ {c} : so'[b] = so[b]
    BY <1>1, <2>1 DEF Socket, Shutdown
  <2>4. QED
    BY <1>1, <1>2, <1>8, <2>1, <2>2, <2>3 DEF TypeInv, TypeOK, Addressed, FinWaitEnds
<1>9. CASE OnCloseSocketFinished(c)
  <2>1. so' = [so EXCEPT ![c] = [@ EXCEPT !.udp = "none", !.state = "CLOSED"]] /\ ClientStep
    BY <1>9 DEF OnCloseSocketFinished
  <2>2. /\ so' \in [Clients -> Socket]
        /\ so'[c].state = "CLOSED" /\ \A b \in Clients \ {c} : so'[b] = so[b]
    BY <1>1, <2>1 DEF Socket
  <2>3. told' \in Told
    BY <1>1, <1>9, ToldClient DEF OnCloseSocketFinished
  <2>4. QED
    BY <1>1, <1>2, <1>9, <2>1, <2>2, <2>3
    DEF TypeInv, TypeOK, Addressed, OnCloseSocketFinished
<1>10. QED
  BY <1>3, <1>5, <1>6, <1>7, <1>8, <1>9, ClientCases

LEMMA TypeServer ==
  ASSUME TypeInv, Server
  PROVE  TypeInv'
<1>1. /\ acc \in [Convs -> Accepted] /\ told \in Told /\ net \subseteq Datagram
      /\ convSeed \in 1 .. MaxConvs + 1
      /\ \A v \in Manager : v \in Convs /\ acc[v] \in Accepted /\ acc[v].addr \in Ports
  BY DEF TypeInv, TypeOK, Told, Addressed, Manager
<1>2. ASSUME ServerStep, UNCHANGED <<listener, convSeed>>, net' \subseteq Datagram, told' \in Told,
             acc' \in [Convs -> Accepted],
             \A v \in Convs : /\ acc'[v].addr = acc[v].addr
                              /\ acc[v].state \in {"unused", "removed"} =>
                                   acc'[v].state = acc[v].state
      PROVE  TypeInv'
  <2>1. \A v \in Manager' : acc'[v].addr \in Ports
    BY <1>1, <1>2 DEF Manager
  <2>2. QED
    BY <1>2, <2>1 DEF TypeInv, TypeOK, Addressed, Told, ServerStep
<1>3. CASE OnSyn
  <2>1. PICK d \in ServerReads("SYN") :
          /\ acc' = [acc EXCEPT ![convSeed] = [state |-> "SYN_RECV", addr |-> d.addr,
                                              value |-> d.value + 1]]
          /\ UdpSend(SynAndAck(d.addr, d.value + 1, convSeed))
    BY <1>3 DEF OnSyn
  <2>2. d.addr \in Ports /\ d.value \in Values
    BY <1>1, Received DEF ServerReads
  <2>3. convSeed \in Convs /\ convSeed' \in 1 .. MaxConvs + 1
    BY <1>1, <1>3, KCPAssumption DEF OnSyn, Convs
  <2>4. [state |-> "SYN_RECV", addr |-> d.addr, value |-> d.value + 1] \in Accepted
    BY <2>2 DEF Accepted, Answers
  <2>5. acc' \in [Convs -> Accepted]
    BY <1>1, <2>1, <2>4
  <2>6. net' \subseteq Datagram
    BY <1>1, <2>1, <2>2, <2>3, Sent DEF UdpSend
  <2>7. \A v \in Manager' : acc'[v].addr \in Ports
    BY <1>1, <2>1, <2>2, <2>3 DEF Manager
  <2>8. QED
    BY <1>3, <2>3, <2>5, <2>6, <2>7 DEF OnSyn, ServerStep, TypeInv, TypeOK, Addressed
<1>4. ASSUME NEW v \in Manager, Announce(v)
      PROVE  TypeInv'
  <2>1. acc' = [acc EXCEPT ![v].state = "ESTABLISHED"] /\ UNCHANGED <<net, listener, convSeed>>
    BY <1>4 DEF Announce
  <2>2. acc' \in [Convs -> Accepted] /\ told' \in Told
    <3>1. acc' \in [Convs -> Accepted]
      BY <1>1, <2>1 DEF Accepted
    <3>2. told' \in Told
      BY <1>1, <1>4, ToldServer DEF Announce
    <3>3. QED
      BY <3>1, <3>2
  <2>3. \A w \in Convs : /\ acc'[w].addr = acc[w].addr
                         /\ acc[w].state \in {"unused", "removed"} =>
                              acc'[w].state = acc[w].state
    BY <1>1, <2>1 DEF Accepted, Manager
  <2>4. QED
    BY <1>1, <1>2, <1>4, <2>1, <2>2, <2>3 DEF Announce
<1>5. ASSUME NEW v \in Manager, ServerDisconnect(v)
      PROVE  TypeInv'
  <2>1. acc' = [acc EXCEPT ![v].state = "CLOSE_WAIT"] /\ UNCHANGED <<listener, convSeed, told>>
    BY <1>5 DEF ServerDisconnect
  <2>2. acc' \in [Convs -> Accepted] /\ net' \subseteq Datagram
    BY <1>1, <1>5, <2>1, Sent DEF Accepted, ServerDisconnect, UdpSend
  <2>3. \A w \in Convs : /\ acc'[w].addr = acc[w].addr
                         /\ acc[w].state \in {"unused", "removed"} =>
                              acc'[w].state = acc[w].state
    BY <1>1, <2>1 DEF Accepted, Manager
  <2>4. QED
    BY <1>1, <1>2, <1>5, <2>1, <2>2, <2>3 DEF ServerDisconnect
<1>6. ASSUME NEW v \in Manager, Sweep(v)
      PROVE  TypeInv'
  <2>1. /\ acc' = [acc EXCEPT ![v] = [@ EXCEPT !.state = "removed", !.value = 0]]
        /\ UNCHANGED <<net, listener, convSeed>>
    BY <1>6 DEF Sweep, Remove
  <2>2. acc' \in [Convs -> Accepted] /\ told' \in Told
    <3>1. acc' \in [Convs -> Accepted]
      BY <1>1, <2>1 DEF Accepted
    <3>2. told' \in Told
      BY <1>1, <1>6, ToldServer DEF Sweep, Remove
    <3>3. QED
      BY <3>1, <3>2
  <2>3. \A w \in Convs : /\ acc'[w].addr = acc[w].addr
                         /\ acc[w].state \in {"unused", "removed"} =>
                              acc'[w].state = acc[w].state
    BY <1>1, <2>1 DEF Accepted, Manager
  <2>4. QED
    BY <1>1, <1>2, <1>6, <2>1, <2>2, <2>3 DEF Sweep, Remove
<1>7. CASE StopListen
  <2>1. /\ acc' = [v \in Convs |->
              [acc[v] EXCEPT !.state = CASE @ = "ESTABLISHED" -> "CLOSE_WAIT"
                                         [] @ = "SYN_RECV" -> "CLOSED"
                                         [] OTHER -> @]]
        /\ UNCHANGED <<convSeed, told>> /\ ServerStep
    BY <1>7 DEF StopListen
  <2>2. acc' \in [Convs -> Accepted]
    BY <1>1, <2>1 DEF Accepted
  <2>3. net' \subseteq Datagram
    BY <1>1, <1>7, Sent DEF StopListen, Manager
  <2>4. \A v \in Manager' : acc'[v].addr \in Ports
    BY <1>1, <2>1 DEF Manager, Accepted
  <2>5. listener' \in [state : {"LISTEN", "STOP_LISTEN", "CLOSED"},
                       udp : {"open", "closing", "none"}]
    BY <1>7 DEF StopListen, TypeInv, TypeOK
  <2>6. QED
    BY <2>1, <2>2, <2>3, <2>4, <2>5 DEF ServerStep, TypeInv, TypeOK, Addressed
<1>8. CASE StopListenTick
  BY <1>8 DEF StopListenTick, ServerStep, TypeInv, TypeOK, Addressed, Manager
<1>9. CASE ListenerClosed
  <2>1. told' \in Told
    BY <1>1, <1>9, ToldServer DEF ListenerClosed
  <2>2. QED
    BY <1>9, <2>1 DEF ListenerClosed, ServerStep, TypeInv, TypeOK, Told, Addressed, Manager
<1>10. QED
  BY <1>3, <1>4, <1>5, <1>6, <1>7, <1>8, <1>9, ServerCases

LEMMA TypeNext == TypeInv /\ [Next]_vars => TypeInv'
<1>1. ASSUME TypeInv, UNCHANGED vars PROVE TypeInv'
  BY <1>1 DEF vars, TypeInv, TypeOK, Addressed, Manager
<1>2. QED
  BY <1>1, TypeClient, TypeServer DEF Next

(* Every variable has its type in every state.                             *)
THEOREM TypeCorrect == SafeSpec => []TypeOK
<1>1. TypeInv => TypeOK
  BY DEF TypeInv
<1>2. QED
  BY <1>1, TypeInit, TypeNext, PTL DEF SafeSpec

-----------------------------------------------------------------------------
(* OneSocketPerAddress.  A step of the server other than the acceptance of *)
(* a SYN leaves the address of every socket alone, and the value too while *)
(* the manager has it, adds no socket to the manager, and sends FINs only. *)

OnlyCloses ==
  /\ UNCHANGED <<so, connects, convSeed>>
  /\ \A v \in Convs : /\ acc'[v].addr = acc[v].addr
                      /\ acc[v].state = "unused" => acc'[v].state = "unused"
  /\ \A v \in Manager' : v \in Manager /\ acc'[v].value = acc[v].value
  /\ net \subseteq net' /\ \A d \in net' : d \in net \/ d.kind = "FIN_TO_CLIENT"

LEMMA FinKind == \A p, v : FinToClient(p, v).kind = "FIN_TO_CLIENT"
BY DEF FinToClient

LEMMA ServerOnlyCloses ==
  ASSUME TypeInv, Server
  PROVE  OnSyn \/ OnlyCloses
<1>1. acc \in [Convs -> Accepted] /\ \A v \in Manager : v \in Convs
  BY DEF TypeInv, TypeOK, Manager
<1>2. ASSUME NEW v \in Manager, Announce(v)
      PROVE  OnlyCloses
  BY <1>1, <1>2 DEF Announce, ServerStep, OnlyCloses, Manager, Accepted
<1>3. ASSUME NEW v \in Manager, ServerDisconnect(v)
      PROVE  OnlyCloses
  <2>1. acc' = [acc EXCEPT ![v].state = "CLOSE_WAIT"] /\ UNCHANGED <<so, connects, convSeed>>
    BY <1>3 DEF ServerDisconnect, ServerStep
  <2>2. /\ \A w \in Convs : acc'[w].addr = acc[w].addr /\ acc'[w].value = acc[w].value
        /\ \A w \in Convs : acc'[w].state # acc[w].state => w \in Manager
    BY <1>1, <2>1 DEF Accepted
  <2>3. net \subseteq net' /\ \A d \in net' : d \in net \/ d.kind = "FIN_TO_CLIENT"
    <3>1. net' = net \cup {FinToClient(acc[v].addr, v)}
      BY <1>3 DEF ServerDisconnect, UdpSend
    <3>2. QED
      BY <3>1, FinKind
  <2>4. \A w \in Convs : acc[w].state = "unused" => acc'[w].state = "unused"
    BY <2>2 DEF Manager
  <2>5. \A w \in Manager' : w \in Manager /\ acc'[w].value = acc[w].value
    <3>1. SUFFICES ASSUME NEW w \in Convs, acc'[w].state \notin {"unused", "removed"}
                   PROVE  w \in Manager /\ acc'[w].value = acc[w].value
      BY DEF Manager
    <3>2. CASE acc'[w].state = acc[w].state
      BY <2>2, <3>1, <3>2 DEF Manager
    <3>3. QED
      BY <2>2, <3>2
  <2>6. QED
    BY <2>1, <2>2, <2>3, <2>4, <2>5 DEF OnlyCloses
<1>4. ASSUME NEW v \in Manager, Sweep(v)
      PROVE  OnlyCloses
  <2>1. /\ acc' = [acc EXCEPT ![v] = [@ EXCEPT !.state = "removed", !.value = 0]]
        /\ UNCHANGED <<so, connects, convSeed, net>>
    BY <1>4 DEF Sweep, Remove, ServerStep
  <2>2. /\ acc'[v].addr = acc[v].addr /\ acc'[v].state = "removed"
        /\ \A w \in Convs \ {v} : acc'[w] = acc[w]
    BY <1>1, <2>1 DEF Accepted
  <2>3. QED
    BY <1>1, <2>1, <2>2 DEF OnlyCloses, Manager
<1>5. CASE StopListen
  <2>1. /\ acc' = [v \in Convs |->
              [acc[v] EXCEPT !.state = CASE @ = "ESTABLISHED" -> "CLOSE_WAIT"
                                         [] @ = "SYN_RECV" -> "CLOSED"
                                         [] OTHER -> @]]
        /\ UNCHANGED <<so, connects, convSeed>>
    BY <1>5 DEF StopListen, ServerStep
  <2>2. /\ \A w \in Convs : acc'[w].addr = acc[w].addr /\ acc'[w].value = acc[w].value
        /\ \A w \in Convs : acc'[w].state # acc[w].state => w \in Manager
    BY <1>1, <2>1 DEF Accepted, Manager
  <2>3. net \subseteq net' /\ \A d \in net' : d \in net \/ d.kind = "FIN_TO_CLIENT"
    <3>1. net' = net \cup {FinToClient(acc[v].addr, v) :
                              v \in {v \in Convs : acc[v].state = "ESTABLISHED"}}
      BY <1>5 DEF StopListen
    <3>2. QED
      BY <3>1, FinKind
  <2>4. \A w \in Convs : acc[w].state = "unused" => acc'[w].state = "unused"
    BY <2>2 DEF Manager
  <2>5. \A w \in Manager' : w \in Manager /\ acc'[w].value = acc[w].value
    <3>1. SUFFICES ASSUME NEW w \in Convs, acc'[w].state \notin {"unused", "removed"}
                   PROVE  w \in Manager /\ acc'[w].value = acc[w].value
      BY DEF Manager
    <3>2. CASE acc'[w].state = acc[w].state
      BY <2>2, <3>1, <3>2 DEF Manager
    <3>3. QED
      BY <2>2, <3>2
  <2>6. QED
    BY <2>1, <2>2, <2>3, <2>4, <2>5 DEF OnlyCloses
<1>6. CASE StopListenTick \/ ListenerClosed
  BY <1>6 DEF StopListenTick, ListenerClosed, ServerStep, OnlyCloses, Manager
<1>7. QED
  BY <1>2, <1>3, <1>4, <1>5, <1>6, ServerCases

LEMMA AcceptEffect ==
  ASSUME TypeInv, OnSyn
  PROVE  \E d \in net :
           /\ d.kind = "SYN" /\ d.addr \in Ports /\ d.value \in Values
           /\ SocketsOf(d.addr) = {}
           /\ convSeed \in Convs /\ convSeed' = convSeed + 1
           /\ acc'[convSeed] = [state |-> "SYN_RECV", addr |-> d.addr, value |-> d.value + 1]
           /\ \A v \in Convs \ {convSeed} : acc'[v] = acc[v]
           /\ net' = net \cup {SynAndAck(d.addr, d.value + 1, convSeed)}
           /\ UNCHANGED <<so, connects>>
<1>1. PICK d \in ServerReads("SYN") :
        /\ SocketsOf(d.addr) = {}
        /\ acc' = [acc EXCEPT ![convSeed] = [state |-> "SYN_RECV", addr |-> d.addr,
                                            value |-> d.value + 1]]
        /\ UdpSend(SynAndAck(d.addr, d.value + 1, convSeed))
  BY DEF OnSyn
<1>2. d \in net /\ d.kind = "SYN" /\ d.addr \in Ports /\ d.value \in Values
  BY Received DEF ServerReads, TypeInv, TypeOK
<1>3. convSeed \in Convs /\ acc \in [Convs -> Accepted]
  BY KCPAssumption DEF OnSyn, Convs, TypeInv, TypeOK
<1>4. QED
  BY <1>1, <1>2, <1>3 DEF OnSyn, ServerStep, UdpSend

LEMMA OneSocketNext ==
  ASSUME TypeInv, OneSocketPerAddress, [Next]_vars
  PROVE  OneSocketPerAddress'
<1>1. CASE UNCHANGED acc
  BY <1>1 DEF OneSocketPerAddress, Manager
<1>2. CASE OnSyn
  <2>1. PICK d \in net :
          /\ SocketsOf(d.addr) = {}
          /\ convSeed \in Convs
          /\ acc'[convSeed] = [state |-> "SYN_RECV", addr |-> d.addr, value |-> d.value + 1]
          /\ \A v \in Convs \ {convSeed} : acc'[v] = acc[v]
    BY <1>2, AcceptEffect
  <2>2. \A v \in Manager' : v # convSeed => v \in Manager /\ acc'[v].addr # d.addr
    BY <2>1 DEF Manager, SocketsOf
  <2>3. \A v \in Manager' : v # convSeed => acc'[v] = acc[v]
    BY <2>1 DEF Manager
  <2>4. acc'[convSeed].addr = d.addr
    BY <2>1
  <2>5. QED
    BY <2>2, <2>3, <2>4 DEF OneSocketPerAddress
<1>3. CASE OnlyCloses
  <2>1. \A v \in Manager' : v \in Manager /\ acc'[v].addr = acc[v].addr
    BY <1>3 DEF OnlyCloses, Manager
  <2>2. QED
    BY <2>1 DEF OneSocketPerAddress
<1>4. ASSUME NEW c \in Clients, Client(c)
      PROVE  UNCHANGED acc
  BY <1>4, ClientCases
  DEF ClientStep, Connect, OnSynAndAck, ConnectTimeout, ClientDisconnect, FinWaitEnds,
      OnCloseSocketFinished
<1>5. QED
  BY <1>1, <1>2, <1>3, <1>4, ServerOnlyCloses DEF Next, vars

(* The manager has one socket of an address at most.                       *)
THEOREM OneSocketPerAddressCorrect == SafeSpec => []OneSocketPerAddress
<1>1. Init => OneSocketPerAddress
  BY DEF Init, OneSocketPerAddress, Manager
<1>2. TypeInv /\ OneSocketPerAddress /\ [Next]_vars => OneSocketPerAddress'
  BY OneSocketNext
<1>3. QED
  BY <1>1, <1>2, TypeInit, TypeNext, PTL DEF SafeSpec

-----------------------------------------------------------------------------
(* The invariant that EndsMatch needs.                                     *)

(* Every conv from m_convSeed on is still unused.                          *)
SeedAhead == \A v \in Convs : v >= convSeed => acc[v].state = "unused"

(* A SYNACK that is anywhere in the network answers a SYN that was sent,   *)
(* and what it says is true of the accepted socket for as long as there is *)
(* one.                                                                    *)
NetworkTruthful ==
  \A d \in net : d.kind = "SYNACK" =>
    /\ Syn(d.addr, d.value - 1) \in net
    /\ d.conv < convSeed
    /\ acc[d.conv].addr = d.addr
    /\ d.conv \in Manager => acc[d.conv].value = d.value

(* A client that waits for an answer, with a value that its port had not   *)
(* sent before; and what it takes for the answer.                          *)
AsksAnew(c) == so[c].state = "SYN_SENT" /\ so[c].udp = "open" /\ so[c].since # 0

TakenBy(c, d) == d.kind = "SYNACK" /\ d.addr = so[c].port /\ d.value = so[c].value + 1

(* A client's socket has a conv only while it is connected, and then its   *)
(* port and value are those of the accepted socket; the conv is younger    *)
(* than a connect that asked anew, and so is every answer to one.          *)
SocketTruthful(c) ==
  /\ so[c].since <= convSeed
  /\ so[c].conv # 0 =>
       /\ so[c].conv < convSeed /\ so[c].since <= so[c].conv
       /\ so[c].state \in {"ESTABLISHED", "FIN_WAIT"} /\ so[c].udp = "open"
       /\ acc[so[c].conv].addr = so[c].port
       /\ so[c].conv \in Manager => acc[so[c].conv].value = so[c].value + 1
  /\ AsksAnew(c) => \A d \in net : TakenBy(c, d) => so[c].since <= d.conv

ClientTruthful == \A c \in Clients : SocketTruthful(c)

PortsDiffer ==
  \A b, c \in Clients :
    so[b].udp = "open" /\ so[c].udp = "open" /\ so[b].port = so[c].port => b = c

HandshakeInv == SeedAhead /\ NetworkTruthful /\ ClientTruthful /\ PortsDiffer

LEMMA HandshakeInit == Init => HandshakeInv
BY KCPAssumption
DEF Init, HandshakeInv, SeedAhead, NetworkTruthful, ClientTruthful, SocketTruthful, AsksAnew,
    PortsDiffer

(* The conv of a client is one that the server has given out.              *)
LEMMA ClientConv ==
  ASSUME TypeInv, ClientTruthful, NEW c \in Clients, so[c].conv # 0
  PROVE  so[c].conv \in Convs /\ so[c].conv < convSeed
BY DEF TypeInv, TypeOK, Socket, ClientTruthful, SocketTruthful

(* An acceptance takes the first unused conv, and tells the truth of it.   *)
LEMMA HandshakeAccept ==
  ASSUME TypeInv, HandshakeInv, OnSyn
  PROVE  HandshakeInv'
<1> USE DEF HandshakeInv
<1>1. PICK d \in net :
        /\ d.kind = "SYN" /\ d.addr \in Ports /\ d.value \in Values
        /\ SocketsOf(d.addr) = {}
        /\ convSeed \in Convs /\ convSeed' = convSeed + 1
        /\ acc'[convSeed] = [state |-> "SYN_RECV", addr |-> d.addr, value |-> d.value + 1]
        /\ \A v \in Convs \ {convSeed} : acc'[v] = acc[v]
        /\ net' = net \cup {SynAndAck(d.addr, d.value + 1, convSeed)}
        /\ UNCHANGED <<so, connects>>
  BY AcceptEffect
<1>2. net \subseteq Datagram /\ so \in [Clients -> Socket] /\ d \in Datagram
  BY <1>1 DEF TypeInv, TypeOK
<1>d. d = Syn(d.addr, d.value) /\ (d.value + 1) - 1 = d.value
  <2>1. d.value \in Nat
    BY <1>1, KCPAssumption
  <2>2. QED
    BY <1>1, <1>2, <2>1, ReceivedSyn
<1>3. SeedAhead'
  BY <1>1 DEF SeedAhead, Convs
<1>a. ASSUME NEW v \in Convs, v < convSeed
      PROVE  acc'[v] = acc[v] /\ v < convSeed' /\ (v \in Manager' <=> v \in Manager)
  BY <1>1, <1>a DEF Convs, Manager
<1>4. ASSUME NEW e \in net, e.kind = "SYNACK"
      PROVE  /\ Syn(e.addr, e.value - 1) \in net'
             /\ e.conv < convSeed'
             /\ acc'[e.conv].addr = e.addr
             /\ e.conv \in Manager' => acc'[e.conv].value = e.value
  <2>1. e.conv \in Convs /\ e.conv < convSeed
    BY <1>2, <1>4, Received DEF NetworkTruthful
  <2>2. QED
    BY <1>1, <1>4, <1>a, <2>1 DEF NetworkTruthful
<1> DEFINE f == SynAndAck(d.addr, d.value + 1, convSeed)
<1>f. f.addr = d.addr /\ f.value = d.value + 1 /\ f.conv = convSeed /\ f.kind = "SYNACK"
  BY DEF SynAndAck
<1>g. \A e \in net' : e \in net \/ e = f
  BY <1>1
<1> HIDE DEF f
<1>5. NetworkTruthful'
  <2>1. /\ Syn(f.addr, f.value - 1) \in net'
        /\ f.conv < convSeed'
        /\ acc'[f.conv].addr = f.addr
        /\ f.conv \in Manager' => acc'[f.conv].value = f.value
    <3>1. Syn(f.addr, f.value - 1) \in net'
      BY <1>1, <1>d, <1>f
    <3>2. f.conv < convSeed'
      BY <1>1, <1>f DEF Convs
    <3>3. QED
      BY <1>1, <1>f, <3>1, <3>2
  <2>2. QED
    BY <1>4, <1>g, <2>1 DEF NetworkTruthful
<1>6. ASSUME NEW c \in Clients
      PROVE  SocketTruthful(c)'
  <2>1. SocketTruthful(c) /\ so[c].since \in Nat /\ convSeed \in Nat
    BY <1>1, <1>2 DEF ClientTruthful, Socket, Convs
  <2>2. so[c].since <= convSeed'
    BY <1>1, <2>1 DEF SocketTruthful
  <2>3. so[c].conv # 0 =>
          /\ so[c].conv < convSeed' /\ so[c].since <= so[c].conv
          /\ so[c].state \in {"ESTABLISHED", "FIN_WAIT"} /\ so[c].udp = "open"
          /\ acc'[so[c].conv].addr = so[c].port
          /\ so[c].conv \in Manager' => acc'[so[c].conv].value = so[c].value + 1
    <3>1. so[c].conv # 0 => so[c].conv \in Convs /\ so[c].conv < convSeed
      BY ClientConv
    <3>2. QED
      BY <1>a, <2>1, <3>1 DEF SocketTruthful
  <2>4. AsksAnew(c) => \A e \in net' : TakenBy(c, e) => so[c].since <= e.conv
    BY <1>f, <1>g, <2>1 DEF SocketTruthful
  <2>5. QED
    BY <1>1, <2>2, <2>3, <2>4 DEF SocketTruthful, AsksAnew, TakenBy
<1>7. PortsDiffer'
  BY <1>1 DEF PortsDiffer
<1>9. QED
  BY <1>3, <1>5, <1>6, <1>7 DEF ClientTruthful

LEMMA HandshakeServer ==
  ASSUME TypeInv, HandshakeInv, OnlyCloses
  PROVE  HandshakeInv'
<1> USE DEF HandshakeInv, OnlyCloses
<1>1. SeedAhead'
  BY DEF SeedAhead
<1>2. NetworkTruthful'
  <2>1. ASSUME NEW d \in net, d.kind = "SYNACK"
        PROVE  d.conv \in Convs
    BY <2>1, Received DEF TypeInv, TypeOK
  <2>2. \A d \in net : d.kind = "SYNACK" =>
          /\ Syn(d.addr, d.value - 1) \in net'
          /\ d.conv < convSeed'
          /\ acc'[d.conv].addr = d.addr
          /\ d.conv \in Manager' => acc'[d.conv].value = d.value
    BY <2>1 DEF NetworkTruthful
  <2>3. QED
    BY <2>2 DEF NetworkTruthful
<1>3. ASSUME NEW c \in Clients
      PROVE  SocketTruthful(c)'
  <2>1. SocketTruthful(c) /\ (so[c].conv # 0 => so[c].conv \in Convs)
    BY ClientConv DEF ClientTruthful
  <2>2. \A d \in net' : TakenBy(c, d) => d \in net
    BY DEF TakenBy
  <2>3. AsksAnew(c)' = AsksAnew(c) /\ \A d : TakenBy(c, d)' = TakenBy(c, d)
    BY DEF AsksAnew, TakenBy
  <2>4. QED
    BY <2>1, <2>2, <2>3 DEF SocketTruthful
<1>4. PortsDiffer'
  BY DEF PortsDiffer
<1>5. QED
  BY <1>1, <1>2, <1>3, <1>4 DEF ClientTruthful

(* A step of client c: it tells nothing new of the server's sockets, and   *)
(* the other clients keep theirs; what is left to show of it.              *)
LEMMA HandshakeClient ==
  ASSUME HandshakeInv, ClientStep, NEW c \in Clients,
         \A b \in Clients \ {c} : so'[b] = so[b],
         net \subseteq net', \A d \in net' : d \in net \/ d.kind # "SYNACK",
         SocketTruthful(c)',
         so'[c].udp = "open" =>
           \/ so[c].udp = "open" /\ so'[c].port = so[c].port
           \/ \A b \in Clients \ {c} : so[b].udp = "open" => so[b].port # so'[c].port
  PROVE  HandshakeInv'
<1>1. Manager' = Manager /\ acc' = acc /\ convSeed' = convSeed
  BY DEF ClientStep, Manager
<1>2. SeedAhead' /\ NetworkTruthful'
  BY <1>1 DEF HandshakeInv, SeedAhead, NetworkTruthful
<1>3. ASSUME NEW b \in Clients, b # c
      PROVE  SocketTruthful(b)'
  <2>1. so'[b] = so[b] /\ SocketTruthful(b)
    BY <1>3 DEF HandshakeInv, ClientTruthful
  <2>2. AsksAnew(b)' = AsksAnew(b) /\ \A d : TakenBy(b, d)' = TakenBy(b, d)
    BY <2>1 DEF AsksAnew, TakenBy
  <2>3. \A d \in net' : TakenBy(b, d) => d \in net
    BY DEF TakenBy
  <2>4. QED
    BY <1>1, <2>1, <2>2, <2>3 DEF SocketTruthful
<1>4. ClientTruthful'
  BY <1>3 DEF ClientTruthful
<1>5. PortsDiffer'
  BY DEF HandshakeInv, PortsDiffer
<1>6. QED
  BY <1>2, <1>4, <1>5 DEF HandshakeInv

(* No answer to a value that its port has not sent is anywhere.            *)
LEMMA NothingToTake ==
  ASSUME NetworkTruthful, NEW p, NEW value \in Values, ~Repeats(p, value),
         NEW e \in net, e.kind = "SYNACK", e.addr = p, e.value = value + 1
  PROVE  FALSE
<1>1. e.value - 1 = value
  BY KCPAssumption
<1>2. Syn(p, value) \in net
  BY <1>1 DEF NetworkTruthful
<1>3. QED
  BY <1>2 DEF Repeats

LEMMA HandshakeClientStep ==
  ASSUME TypeInv, HandshakeInv, NEW c \in Clients, Client(c)
  PROVE  HandshakeInv'
<1>1. /\ so \in [Clients -> Socket] /\ so[c] \in Socket /\ net \subseteq Datagram
      /\ 0 \notin Manager /\ convSeed \in Nat
  BY KCPAssumption DEF TypeInv, TypeOK, Manager, Convs
<1>2. SocketTruthful(c)
  BY DEF HandshakeInv, ClientTruthful
<1>3. CASE Connect(c)
  <2>1. PICK p \in FreePorts, value \in Values :
          /\ so' = [so EXCEPT ![c] =
                      SynSent(@, p, value, IF Repeats(p, value) THEN 0 ELSE convSeed)]
          /\ net' = net \cup {Syn(p, value)}
    BY <1>3 DEF Connect, UdpSend
  <2>2. so[c].state = "CLOSED" /\ ClientStep
    BY <1>3 DEF Connect
  <2>3. so[c].conv = 0
    BY <1>2, <2>2 DEF SocketTruthful
  <2>4. /\ so'[c].conv = 0 /\ so'[c].value = value /\ so'[c].port = p
        /\ so'[c].since = IF Repeats(p, value) THEN 0 ELSE convSeed
        /\ \A b \in Clients \ {c} : so'[b] = so[b]
    BY <1>1, <2>1, <2>3 DEF SynSent, Socket
  <2>5. \A e \in net' : e \in net \/ e.kind = "SYN"
    BY <2>1 DEF Syn
  <2>6. ASSUME ~Repeats(p, value), NEW e \in net', TakenBy(c, e)'
        PROVE  FALSE
    <3>1. e \in net /\ e.kind = "SYNACK" /\ e.addr = p /\ e.value = value + 1
      BY <2>4, <2>5, <2>6 DEF TakenBy
    <3>2. QED
      BY <2>6, <3>1, NothingToTake DEF HandshakeInv
  <2>7. SocketTruthful(c)'
    <3>1. so'[c].since <= convSeed'
      BY <1>1, <2>2, <2>4 DEF ClientStep
    <3>2. AsksAnew(c)' => ~Repeats(p, value)
      BY <2>4 DEF AsksAnew
    <3>3. QED
      BY <2>4, <2>6, <3>1, <3>2 DEF SocketTruthful
  <2>8. \A b \in Clients : so[b].udp = "open" => so[b].port # p
    BY DEF FreePorts
  <2>9. QED
    BY <2>1, <2>2, <2>4, <2>5, <2>7, <2>8, HandshakeClient
<1>4. ASSUME so' = [so EXCEPT ![c] = so'[c]], ClientStep, net \subseteq net',
             \A d \in net' : d \in net \/ d.kind # "SYNACK",
             so'[c].state # "SYN_SENT", so'[c].conv \in {0, so[c].conv},
             so'[c].since \in {0, so[c].since},
             so'[c].udp = "open" => so[c].udp = "open" /\ so'[c].port = so[c].port,
             so'[c].conv # 0 => /\ so'[c].since = so[c].since /\ so'[c].udp = so[c].udp
                                /\ so'[c].port = so[c].port /\ so'[c].value = so[c].value
                                /\ so'[c].state \in {"ESTABLISHED", "FIN_WAIT"}
      PROVE  HandshakeInv'
  <2>1. Manager' = Manager /\ acc' = acc /\ convSeed' = convSeed
    BY <1>4 DEF ClientStep, Manager
  <2>2. so'[c].since <= convSeed'
    BY <1>1, <1>2, <1>4, <2>1 DEF SocketTruthful
  <2>3. SocketTruthful(c)'
    BY <1>2, <1>4, <2>1, <2>2 DEF SocketTruthful, AsksAnew
  <2>4. \A b \in Clients \ {c} : so'[b] = so[b]
    BY <1>1, <1>4
  <2>5. QED
    BY <1>4, <2>3, <2>4, HandshakeClient
<1>5. ASSUME ConnectFailed(c), ClientStep
      PROVE  HandshakeInv'
  <2>1. so' = [so EXCEPT ![c] = [Shutdown(so[c]) EXCEPT !.state = "CLOSED"]] /\ net' = net
    BY <1>5 DEF ConnectFailed
  <2>2. /\ so'[c].state = "CLOSED" /\ so'[c].conv = 0 /\ so'[c].since = 0
        /\ so'[c].udp # "open" /\ so' = [so EXCEPT ![c] = so'[c]]
    BY <1>1, <2>1 DEF Shutdown, Socket
  <2>3. QED
    BY <1>4, <1>5, <2>1, <2>2
<1>6. CASE OnSynAndAck(c)
  <2>1. PICK d \in ClientReads(c, "SYNACK") :
          IF d.value = so[c].value + 1 THEN Connected(c, d.conv) ELSE ConnectFailed(c)
    BY <1>6 DEF OnSynAndAck
  <2>2. so[c].state = "SYN_SENT" /\ ClientStep
    BY <1>6 DEF OnSynAndAck
  <2>3. CASE d.value = so[c].value + 1
    <3>1. /\ so' = [so EXCEPT ![c] = [@ EXCEPT !.state = "ESTABLISHED", !.conv = d.conv]]
          /\ net' = net \cup {Ack(so[c].port, d.conv + 1)}
      BY <2>1, <2>3 DEF Connected, UdpSend
    <3>2. /\ so'[c].state = "ESTABLISHED" /\ so'[c].conv = d.conv
          /\ so'[c].value = so[c].value /\ so'[c].port = so[c].port
          /\ so'[c].udp = so[c].udp /\ so'[c].since = so[c].since
          /\ \A b \in Clients \ {c} : so'[b] = so[b]
      BY <1>1, <3>1 DEF Socket
    <3>3. /\ d \in net /\ d.kind = "SYNACK" /\ d.addr = so[c].port /\ so[c].udp = "open"
          /\ d.conv < convSeed /\ acc[d.conv].addr = d.addr
          /\ d.conv \in Manager => acc[d.conv].value = d.value
      BY DEF ClientReads, HandshakeInv, NetworkTruthful
    <3>4. so[c].since <= d.conv
      <4>1. d.conv \in Nat
        BY <1>1, <3>3, Received DEF Convs
      <4>2. CASE so[c].since = 0
        BY <4>1, <4>2
      <4>3. CASE so[c].since # 0
        BY <1>2, <2>2, <2>3, <3>3, <4>3 DEF SocketTruthful, AsksAnew, TakenBy
      <4>4. QED
        BY <4>2, <4>3
    <3>5. Manager' = Manager /\ acc' = acc /\ convSeed' = convSeed
      BY <2>2 DEF ClientStep, Manager
    <3>6. SocketTruthful(c)'
      BY <1>2, <2>3, <3>2, <3>3, <3>4, <3>5 DEF SocketTruthful, AsksAnew
    <3>7. \A e \in net' : e \in net \/ e.kind = "ACK"
      BY <3>1 DEF Ack
    <3>8. QED
      BY <2>2, <3>1, <3>2, <3>6, <3>7, HandshakeClient
  <2>4. QED
    BY <1>5, <2>1, <2>2, <2>3
<1>7. CASE ConnectTimeout(c)
  BY <1>5, <1>7 DEF ConnectTimeout
<1>8. CASE ClientDisconnect(c)
  <2>1. /\ so[c].state = "ESTABLISHED" /\ so' = [so EXCEPT ![c].state = "FIN_WAIT"]
        /\ net' = net \cup {Fin(so[c].port, so[c].conv)} /\ ClientStep
    BY <1>8 DEF ClientDisconnect, UdpSend
  <2>2. /\ so'[c].state = "FIN_WAIT" /\ so'[c].conv = so[c].conv
        /\ so'[c].value = so[c].value /\ so'[c].port = so[c].port
        /\ so'[c].udp = so[c].udp /\ so'[c].since = so[c].since
        /\ so' = [so EXCEPT ![c] = so'[c]]
    BY <1>1, <2>1 DEF Socket
  <2>3. \A d \in net' : d \in net \/ d.kind = "FIN"
    BY <2>1 DEF Fin
  <2>4. QED
    BY <1>4, <2>1, <2>2, <2>3
<1>9. CASE FinWaitEnds(c)
  <2>1. /\ so[c].state = "FIN_WAIT" /\ so' = [so EXCEPT ![c] = Shutdown(so[c])]
        /\ net' = net /\ ClientStep
    BY <1>9 DEF FinWaitEnds
  <2>2. /\ so'[c].state = "FIN_WAIT" /\ so'[c].conv = 0 /\ so'[c].since = 0
        /\ so'[c].udp # "open" /\ so' = [so EXCEPT ![c] = so'[c]]
    BY <1>1, <2>1 DEF Shutdown, Socket
  <2>3. QED
    BY <1>4, <2>1, <2>2
<1>10. CASE OnCloseSocketFinished(c)
  <2>1. /\ so[c].udp = "closing"
        /\ so' = [so EXCEPT ![c] = [@ EXCEPT !.udp = "none", !.state = "CLOSED"]]
        /\ net' = net /\ ClientStep
    BY <1>10 DEF OnCloseSocketFinished
  <2>2. /\ so'[c].state = "CLOSED" /\ so'[c].conv = so[c].conv
        /\ so'[c].since = so[c].since /\ so'[c].udp = "none"
        /\ so' = [so EXCEPT ![c] = so'[c]]
    BY <1>1, <2>1 DEF Socket
  <2>3. so[c].conv = 0
    BY <1>2, <2>1 DEF SocketTruthful
  <2>4. QED
    BY <1>4, <2>1, <2>2, <2>3
<1>11. QED
  BY <1>3, <1>6, <1>7, <1>8, <1>9, <1>10, ClientCases

LEMMA HandshakeNext ==
  ASSUME TypeInv, HandshakeInv, [Next]_vars
  PROVE  HandshakeInv'
<1>1. CASE UNCHANGED vars
  BY <1>1
  DEF vars, HandshakeInv, SeedAhead, NetworkTruthful, ClientTruthful, SocketTruthful, AsksAnew,
      TakenBy, PortsDiffer, Manager
<1>2. QED
  BY <1>1, HandshakeAccept, HandshakeServer, HandshakeClientStep, ServerOnlyCloses DEF Next

(* Two clients that hold one conv have the port of its accepted socket,    *)
(* and no two clients have one port.                                       *)
LEMMA HandshakeEnds ==
  ASSUME TypeInv, HandshakeInv
  PROVE  EndsMatch
<1>1. ASSUME NEW c \in Clients, so[c].conv # 0,
             NEW b \in Clients, so[b].conv = so[c].conv
      PROVE  b = c
  <2>1. SocketTruthful(b) /\ SocketTruthful(c)
    BY DEF HandshakeInv, ClientTruthful
  <2>2. so[b].udp = "open" /\ so[c].udp = "open" /\ so[b].port = so[c].port
    BY <1>1, <2>1 DEF SocketTruthful
  <2>3. QED
    BY <2>2 DEF HandshakeInv, PortsDiffer
<1>2. QED
  BY <1>1 DEF HandshakeInv, ClientTruthful, SocketTruthful, EndsMatch

(* The two ends with a conv are ends of one handshake and of no other,     *)
(* whatever random values the connects draw and whatever the network does  *)
(* with their datagrams; and a client whose port had not drawn its value   *)
(* before is never joined to a socket that was accepted before it          *)
(* connected.                                                              *)
THEOREM EndsMatchCorrect == SafeSpec => []EndsMatch
<1>1. TypeInv /\ HandshakeInv => EndsMatch
  BY HandshakeEnds
<1>2. TypeInv /\ HandshakeInv /\ [Next]_vars => HandshakeInv'
  BY HandshakeNext
<1>3. QED
  BY <1>1, <1>2, TypeInit, TypeNext, HandshakeInit, PTL DEF SafeSpec

-----------------------------------------------------------------------------
(* KCPSocket implements KCPContract.  The invariant: what the callbacks    *)
(* made so far have to do with the sockets and the network.                *)

(* A conv that was given to a client answers no connect that still waits   *)
(* and asked anew, and only a client that was given a conv acknowledges    *)
(* it.                                                                     *)
GivenTruthful ==
  /\ \A v \in told.given : v < convSeed
  /\ \A d \in net : d.kind = "SYNACK" /\ d.conv \in told.given =>
       \A c \in Clients : AsksAnew(c) => ~TakenBy(c, d)
  /\ \A d \in net : d.kind = "ACK" => d.value - 1 \in told.given

Waiting(c) == IF so[c].since # 0 THEN "waiting" ELSE "repeating"

ClientTold ==
  \A c \in Clients : /\ so[c].state = "SYN_SENT" => told.cli[c] = Waiting(c)
                     /\ so[c].state \in {"ESTABLISHED", "FIN_WAIT"} => told.cli[c] = "up"
                     /\ so[c].state = "CLOSED" => told.cli[c] # "up"

ServerTold ==
  \A v \in Convs : /\ acc[v].state \in {"unused", "SYN_RECV"} => told.svr[v] = "none"
                   /\ acc[v].state \in {"ESTABLISHED", "CLOSE_WAIT"} => told.svr[v] = "up"
                   /\ acc[v].state \in {"CLOSED", "removed"} => told.svr[v] # "up"

ListenerTold ==
  /\ told.listener = "up" <=> listener.udp # "none"
  /\ listener.state = "LISTEN" => listener.udp = "open"
  /\ listener.udp # "open" => Manager = {}

ContractInv == GivenTruthful /\ ClientTold /\ ServerTold /\ ListenerTold

LEMMA ContractInit == Init => ContractInv /\ Promise!Init
BY KCPAssumption
DEF Init, ContractInv, GivenTruthful, ClientTold, ServerTold, ListenerTold, Manager, Convs,
    Promise!Init

-----------------------------------------------------------------------------
(* The parts of the history after a callback.                              *)

LEMMA ClientCalls ==
  ASSUME NEW t \in Told, NEW c \in Clients, NEW x \in {"waiting", "repeating", "idle"}
  PROVE  /\ LET u == [t EXCEPT !.cli[c] = x]
            IN  /\ u.cli = [t.cli EXCEPT ![c] = x]
                /\ u.given = t.given /\ u.svr = t.svr /\ u.listener = t.listener
                /\ u.calls = t.calls
         /\ LET u == [t EXCEPT !.cli[c] = x, !.calls = @ + 1]
            IN  /\ u.cli = [t.cli EXCEPT ![c] = x]
                /\ u.given = t.given /\ u.svr = t.svr /\ u.listener = t.listener
                /\ u.calls = t.calls + 1
         /\ \A v : LET u == [t EXCEPT !.cli[c] = "up", !.given = @ \cup {v}, !.calls = @ + 1]
                   IN  /\ u.cli = [t.cli EXCEPT ![c] = "up"]
                       /\ u.given = t.given \cup {v}
                       /\ u.svr = t.svr /\ u.listener = t.listener
                       /\ u.calls = t.calls + 1
BY DEF Told

LEMMA ServerCalls ==
  ASSUME NEW t \in Told
  PROVE  /\ \A v \in Convs, x \in {"up", "down"} :
              LET u == [t EXCEPT !.svr[v] = x, !.calls = @ + 1]
              IN  /\ u.svr = [t.svr EXCEPT ![v] = x]
                  /\ u.cli = t.cli /\ u.given = t.given /\ u.listener = t.listener
                  /\ u.calls = t.calls + 1
         /\ LET u == [t EXCEPT !.listener = "closed", !.calls = @ + 1]
            IN  /\ u.listener = "closed"
                /\ u.cli = t.cli /\ u.given = t.given /\ u.svr = t.svr
                /\ u.calls = t.calls + 1
BY DEF Told

Quiet == UNCHANGED <<told.cli, told.given, told.svr, told.listener, told.calls>>

LEMMA QuietStutters == Quiet => [Promise!Next]_(Promise!vars)
BY DEF Quiet, Promise!vars

-----------------------------------------------------------------------------
(* Steps of a client.                                                      *)

LEMMA GivenFrame ==
  ASSUME GivenTruthful, UNCHANGED convSeed, told'.given = told.given,
         \A d \in net' : d \in net \/ d.kind \notin {"SYNACK", "ACK"},
         \A b \in Clients : AsksAnew(b)' =>
              \/ AsksAnew(b) /\ so'[b].port = so[b].port /\ so'[b].value = so[b].value
              \/ \A d \in net : ~TakenBy(b, d)'
  PROVE  GivenTruthful'
<1>1. \A d \in net' : d.kind \in {"SYNACK", "ACK"} => d \in net
  OBVIOUS
<1>2. ASSUME NEW d \in net, d.kind = "SYNACK", d.conv \in told.given,
             NEW b \in Clients, AsksAnew(b)'
      PROVE  ~TakenBy(b, d)'
  BY <1>2 DEF GivenTruthful, TakenBy
<1>3. QED
  BY <1>1, <1>2 DEF GivenTruthful

LEMMA ContractClientFrame ==
  ASSUME ClientStep, ServerTold, ListenerTold,
         told'.svr = told.svr, told'.listener = told.listener
  PROVE  ServerTold' /\ ListenerTold'
BY DEF ClientStep, ServerTold, ListenerTold, Manager

(* What is left to show of a step of c: its own state against its own      *)
(* last callback.                                                          *)
LEMMA ClientToldFrame ==
  ASSUME ClientTold, NEW c \in Clients,
         \A b \in Clients \ {c} : so'[b] = so[b] /\ told'.cli[b] = told.cli[b],
         so'[c].state = "SYN_SENT" => told'.cli[c] = Waiting(c)',
         so'[c].state \in {"ESTABLISHED", "FIN_WAIT"} => told'.cli[c] = "up",
         so'[c].state = "CLOSED" => told'.cli[c] # "up"
  PROVE  ClientTold'
BY DEF ClientTold, Waiting

LEMMA ContractClientStep ==
  ASSUME TypeInv, HandshakeInv, ContractInv, NEW c \in Clients, Client(c)
  PROVE  ContractInv' /\ [Promise!Next]_(Promise!vars)
<1> USE DEF ContractInv
<1>1. /\ so \in [Clients -> Socket] /\ so[c] \in Socket /\ told \in Told
      /\ told.cli \in [Clients -> {"idle", "waiting", "repeating", "up"}]
      /\ net \subseteq Datagram
  BY DEF TypeInv, TypeOK, Told
<1>2. ASSUME ClientStep, Quiet,
             \A d \in net' : d \in net \/ d.kind \notin {"SYNACK", "ACK"},
             \A b \in Clients \ {c} : so'[b] = so[b],
             so'[c].state # "SYN_SENT",
             so'[c].state \in {"ESTABLISHED", "FIN_WAIT"} =>
               so[c].state \in {"ESTABLISHED", "FIN_WAIT"},
             so'[c].state = "CLOSED" => so[c].state \in {"CLOSED", "SYN_SENT"}
      PROVE  ContractInv' /\ [Promise!Next]_(Promise!vars)
  <2>1. GivenTruthful'
    BY <1>2, GivenFrame DEF ClientStep, Quiet, AsksAnew
  <2>2. ServerTold' /\ ListenerTold'
    BY <1>2, ContractClientFrame DEF Quiet
  <2>3. ClientTold'
    <3>1. \A b \in Clients \ {c} : Waiting(b)' = Waiting(b)
      BY <1>2 DEF Waiting
    <3>2. so'[c].state = "CLOSED" => told.cli[c] # "up"
      BY <1>2 DEF ClientTold, Waiting
    <3>3. QED
      BY <1>2, <3>1, <3>2 DEF ClientTold, Quiet
  <2>4. QED
    BY <1>2, <2>1, <2>2, <2>3, QuietStutters
<1>3. CASE Connect(c)
  <2>1. PICK p \in FreePorts, value \in Values :
          /\ so' = [so EXCEPT ![c] =
                      SynSent(@, p, value, IF Repeats(p, value) THEN 0 ELSE convSeed)]
          /\ told' = [told EXCEPT !.cli[c] =
                        IF Repeats(p, value) THEN "repeating" ELSE "waiting"]
          /\ net' = net \cup {Syn(p, value)}
    BY <1>3 DEF Connect, UdpSend
  <2> DEFINE x == IF Repeats(p, value) THEN "repeating" ELSE "waiting"
  <2>2. so[c].state = "CLOSED" /\ ClientStep /\ convSeed # 0
    BY <1>3, KCPAssumption DEF Connect, TypeInv, TypeOK
  <2>3. /\ so'[c].state = "SYN_SENT" /\ so'[c].value = value /\ so'[c].port = p
        /\ so'[c].since = IF Repeats(p, value) THEN 0 ELSE convSeed
        /\ \A b \in Clients \ {c} : so'[b] = so[b]
    BY <1>1, <2>1 DEF SynSent, Socket
  <2>x. x \in {"waiting", "repeating"} /\ x = Waiting(c)'
    BY <2>2, <2>3 DEF Waiting
  <2>y. told' = [told EXCEPT !.cli[c] = x]
    BY <2>1
  <2> HIDE DEF x
  <2>4. /\ told'.cli = [told.cli EXCEPT ![c] = x]
        /\ told'.given = told.given /\ told'.svr = told.svr
        /\ told'.listener = told.listener /\ told'.calls = told.calls
    BY <1>1, <2>x, <2>y, ClientCalls
  <2>5. \A d \in net' : d \in net \/ d.kind = "SYN"
    BY <2>1 DEF Syn
  <2>t. AsksAnew(c)' => \A d \in net : ~TakenBy(c, d)'
    <3>1. SUFFICES ASSUME AsksAnew(c)', NEW d \in net, TakenBy(c, d)' PROVE FALSE
      OBVIOUS
    <3>2. ~Repeats(p, value)
      BY <2>3, <3>1 DEF AsksAnew
    <3>3. d.kind = "SYNACK" /\ d.addr = p /\ d.value = value + 1
      BY <2>3, <3>1 DEF TakenBy
    <3>4. QED
      BY <3>2, <3>3, NothingToTake DEF HandshakeInv
  <2>6. GivenTruthful'
    <3>1. \A b \in Clients \ {c} : AsksAnew(b)' =>
            AsksAnew(b) /\ so'[b].port = so[b].port /\ so'[b].value = so[b].value
      BY <2>3 DEF AsksAnew
    <3>2. QED
      BY <2>2, <2>4, <2>5, <2>t, <3>1, GivenFrame DEF ClientStep
  <2>7. ServerTold' /\ ListenerTold'
    BY <2>2, <2>4, ContractClientFrame
  <2>8. ClientTold'
    BY <1>1, <2>3, <2>4, <2>x, ClientToldFrame
  <2>9. Promise!Connect(c)
    BY <2>2, <2>4, <2>x DEF Promise!Connect, ClientTold
  <2>10. QED
    BY <2>6, <2>7, <2>8, <2>9 DEF Promise!Next
<1>4. ASSUME ConnectFailed(c), so[c].state = "SYN_SENT", UNCHANGED connects, ClientStep
      PROVE  ContractInv' /\ [Promise!Next]_(Promise!vars)
  <2>1. /\ so' = [so EXCEPT ![c] = [Shutdown(@) EXCEPT !.state = "CLOSED"]] /\ net' = net
        /\ told' = [told EXCEPT !.cli[c] = "idle", !.calls = @ + 1]
    BY <1>4 DEF ConnectFailed
  <2>2. so'[c].state = "CLOSED" /\ \A b \in Clients \ {c} : so'[b] = so[b]
    BY <1>1, <2>1 DEF Shutdown, Socket
  <2>3. /\ told'.cli = [told.cli EXCEPT ![c] = "idle"]
        /\ told'.given = told.given /\ told'.svr = told.svr
        /\ told'.listener = told.listener /\ told'.calls = told.calls + 1
    BY <1>1, <2>1, ClientCalls
  <2>4. GivenTruthful'
    BY <1>4, <2>1, <2>2, <2>3, GivenFrame DEF ClientStep, AsksAnew
  <2>5. ServerTold' /\ ListenerTold'
    BY <1>4, <2>3, ContractClientFrame
  <2>6. ClientTold'
    BY <1>1, <2>2, <2>3, ClientToldFrame
  <2>7. Promise!Failed(c)
    BY <1>4, <2>3 DEF Promise!Failed, Promise!Waits, Promise!Call, ClientTold, Waiting
  <2>8. QED
    BY <2>4, <2>5, <2>6, <2>7 DEF Promise!Next
<1>5. CASE OnSynAndAck(c)
  <2>1. PICK d \in ClientReads(c, "SYNACK") :
          IF d.value = so[c].value + 1 THEN Connected(c, d.conv) ELSE ConnectFailed(c)
    BY <1>5 DEF OnSynAndAck
  <2>2. so[c].state = "SYN_SENT" /\ UNCHANGED connects /\ ClientStep
    BY <1>5 DEF OnSynAndAck
  <2>3. CASE d.value = so[c].value + 1
    <3> DEFINE v == d.conv
    <3>1. /\ so' = [so EXCEPT ![c] = [@ EXCEPT !.state = "ESTABLISHED", !.conv = v]]
          /\ net' = net \cup {Ack(so[c].port, v + 1)}
          /\ told' = [told EXCEPT !.cli[c] = "up", !.given = @ \cup {v}, !.calls = @ + 1]
      BY <2>1, <2>3 DEF Connected, UdpSend
    <3>2. d \in net /\ d.kind = "SYNACK" /\ v \in Convs /\ v \in Nat
      BY <1>1, Received, KCPAssumption DEF ClientReads, Convs
    <3>3. so'[c].state = "ESTABLISHED" /\ \A b \in Clients \ {c} : so'[b] = so[b]
      BY <1>1, <3>1 DEF Socket
    <3>4. /\ told'.cli = [told.cli EXCEPT ![c] = "up"]
          /\ told'.given = told.given \cup {v} /\ told'.svr = told.svr
          /\ told'.listener = told.listener /\ told'.calls = told.calls + 1
      BY <1>1, <3>1, ClientCalls
    <3>5. \A e \in net' : e \in net \/ (e.kind = "ACK" /\ e.value = v + 1)
      BY <3>1 DEF Ack
    <3>x. d.addr = so[c].port /\ so[c].udp = "open"
      BY DEF ClientReads
    <3>6. so[c].since # 0 => v \notin told.given
      BY <2>2, <2>3, <3>2, <3>x DEF GivenTruthful, AsksAnew, TakenBy
    <3>7. GivenTruthful'
      <4>1. \A w \in told'.given : w < convSeed'
        BY <2>2, <3>2, <3>4 DEF GivenTruthful, ClientStep, HandshakeInv, NetworkTruthful
      <4>2. \A e \in net' : e.kind = "ACK" => e.value - 1 \in told'.given
        BY <3>2, <3>4, <3>5 DEF GivenTruthful
      <4>3. \A e \in net' : e.kind = "SYNACK" => e \in net
        BY <3>5
      <4>4. ASSUME NEW e \in net, e.kind = "SYNACK", e.conv \in told'.given,
                   NEW b \in Clients, AsksAnew(b)'
            PROVE  ~TakenBy(b, e)'
        <5>1. b # c /\ so'[b] = so[b]
          BY <3>3, <4>4 DEF AsksAnew
        <5>2. AsksAnew(b) /\ (TakenBy(b, e)' => TakenBy(b, e))
          BY <4>4, <5>1 DEF AsksAnew, TakenBy
        <5>3. CASE e.conv \in told.given
          BY <4>4, <5>2, <5>3 DEF GivenTruthful
        <5>4. CASE e.conv = v
          <6>1. e.addr = so[c].port
            BY <3>2, <3>x, <4>4, <5>4 DEF HandshakeInv, NetworkTruthful
          <6>2. so[b].port # so[c].port
            BY <3>x, <5>1, <5>2 DEF HandshakeInv, PortsDiffer, AsksAnew
          <6>3. QED
            BY <5>2, <6>1, <6>2 DEF TakenBy
        <5>5. QED
          BY <3>4, <4>4, <5>3, <5>4
      <4>5. QED
        BY <4>1, <4>2, <4>3, <4>4 DEF GivenTruthful
    <3>8. ServerTold' /\ ListenerTold'
      BY <2>2, <3>4, ContractClientFrame
    <3>9. ClientTold'
      BY <1>1, <3>3, <3>4, ClientToldFrame
    <3>10. Promise!Connected(c, v)
      <4>1. told.cli[c] = Waiting(c)
        BY <2>2 DEF ClientTold
      <4>2. QED
        BY <3>4, <3>6, <4>1 DEF Promise!Connected, Promise!Waits, Promise!Call, Waiting
    <3>11. QED
      BY <3>2, <3>7, <3>8, <3>9, <3>10 DEF Promise!Next
  <2>4. QED
    BY <1>4, <2>1, <2>2, <2>3
<1>6. CASE ConnectTimeout(c)
  BY <1>4, <1>6 DEF ConnectTimeout
<1>7. CASE ClientDisconnect(c)
  <2>1. /\ so[c].state = "ESTABLISHED" /\ so' = [so EXCEPT ![c].state = "FIN_WAIT"]
        /\ net' = net \cup {Fin(so[c].port, so[c].conv)}
        /\ UNCHANGED <<connects, told>> /\ ClientStep
    BY <1>7 DEF ClientDisconnect, UdpSend
  <2>2. so'[c].state = "FIN_WAIT" /\ \A b \in Clients \ {c} : so'[b] = so[b]
    BY <1>1, <2>1 DEF Socket
  <2>3. \A d \in net' : d \in net \/ d.kind = "FIN"
    BY <2>1 DEF Fin
  <2>4. QED
    BY <1>1, <1>2, <2>1, <2>2, <2>3 DEF Quiet
<1>8. CASE FinWaitEnds(c)
  <2>1. /\ so[c].state = "FIN_WAIT" /\ so' = [so EXCEPT ![c] = Shutdown(@)]
        /\ UNCHANGED <<connects, net, told>> /\ ClientStep
    BY <1>8 DEF FinWaitEnds
  <2>2. so'[c].state = "FIN_WAIT" /\ \A b \in Clients \ {c} : so'[b] = so[b]
    BY <1>1, <2>1 DEF Shutdown, Socket
  <2>3. QED
    BY <1>1, <1>2, <2>1, <2>2 DEF Quiet
<1>9. CASE OnCloseSocketFinished(c)
  <2>1. /\ so[c].udp = "closing"
        /\ so' = [so EXCEPT ![c] = [@ EXCEPT !.udp = "none", !.state = "CLOSED"]]
        /\ told' = IF so[c].state = "FIN_WAIT"
                     THEN [told EXCEPT !.cli[c] = "idle", !.calls = @ + 1] ELSE told
        /\ UNCHANGED <<connects, net>> /\ ClientStep
    BY <1>9 DEF OnCloseSocketFinished
  <2>2. so'[c].state = "CLOSED" /\ \A b \in Clients \ {c} : so'[b] = so[b]
    BY <1>1, <2>1 DEF Socket
  <2>3. CASE so[c].state = "FIN_WAIT"
    <3>1. /\ told'.cli = [told.cli EXCEPT ![c] = "idle"]
          /\ told'.given = told.given /\ told'.svr = told.svr
          /\ told'.listener = told.listener /\ told'.calls = told.calls + 1
      BY <1>1, <2>1, <2>3, ClientCalls
    <3>2. GivenTruthful'
      BY <2>1, <2>2, <3>1, GivenFrame DEF ClientStep, AsksAnew
    <3>3. ServerTold' /\ ListenerTold'
      BY <2>1, <3>1, ContractClientFrame
    <3>4. ClientTold'
      BY <1>1, <2>2, <3>1, ClientToldFrame
    <3>5. Promise!ClientClosed(c)
      BY <2>3, <3>1 DEF Promise!ClientClosed, Promise!Call, ClientTold
    <3>6. QED
      BY <3>2, <3>3, <3>4, <3>5 DEF Promise!Next
  <2>4. CASE so[c].state # "FIN_WAIT"
    <3>1. so[c].state # "ESTABLISHED"
      BY <1>1, <2>1 DEF HandshakeInv, ClientTruthful, SocketTruthful, TypeInv, Addressed, Socket, Convs
    <3>2. so[c].state \in {"CLOSED", "SYN_SENT"}
      BY <1>1, <2>4, <3>1 DEF Socket
    <3>3. QED
      BY <1>1, <1>2, <2>1, <2>2, <2>4, <3>2 DEF Quiet
  <2>5. QED
    BY <2>3, <2>4
<1>10. QED
  BY <1>3, <1>5, <1>6, <1>7, <1>8, <1>9, ClientCases

-----------------------------------------------------------------------------
(* Steps of the server.                                                    *)

LEMMA ContractAccept ==
  ASSUME TypeInv, HandshakeInv, ContractInv, OnSyn
  PROVE  ContractInv' /\ Quiet
<1> USE DEF ContractInv
<1>1. PICK d \in net :
        /\ d.kind = "SYN" /\ d.addr \in Ports /\ d.value \in Values
        /\ SocketsOf(d.addr) = {}
        /\ convSeed \in Convs /\ convSeed' = convSeed + 1
        /\ acc'[convSeed] = [state |-> "SYN_RECV", addr |-> d.addr, value |-> d.value + 1]
        /\ \A v \in Convs \ {convSeed} : acc'[v] = acc[v]
        /\ net' = net \cup {SynAndAck(d.addr, d.value + 1, convSeed)}
        /\ UNCHANGED <<so, connects>>
  BY AcceptEffect
<1>2. UNCHANGED <<listener, told>> /\ listener.state = "LISTEN"
  BY DEF OnSyn, ServerReads
<1>3. /\ told.given \subseteq Nat
      /\ convSeed \in Nat /\ \A v \in told.given : v < convSeed
  BY KCPAssumption DEF TypeInv, TypeOK, Convs, GivenTruthful
<1>4. \A e \in net' : e \in net \/ e = SynAndAck(d.addr, d.value + 1, convSeed)
  BY <1>1
<1>5. LET e == SynAndAck(d.addr, d.value + 1, convSeed)
      IN  e.kind = "SYNACK" /\ e.conv = convSeed
  BY DEF SynAndAck
<1>6. convSeed \notin told.given
  BY <1>3
<1>7. GivenTruthful'
  <2>1. \A v \in told'.given : v < convSeed'
    BY <1>1, <1>2, <1>3
  <2>2. \A e \in net' : e.kind = "SYNACK" /\ e.conv \in told'.given => e \in net
    BY <1>2, <1>4, <1>5, <1>6
  <2>3. \A c \in Clients : \A e : AsksAnew(c)' = AsksAnew(c) /\ TakenBy(c, e)' = TakenBy(c, e)
    BY <1>1 DEF AsksAnew, TakenBy
  <2>4. \A e \in net' : e.kind = "ACK" => e.value - 1 \in told'.given
    BY <1>2, <1>4, <1>5 DEF GivenTruthful
  <2>5. \A e \in net' : e.kind = "SYNACK" /\ e.conv \in told'.given =>
          \A c \in Clients : AsksAnew(c)' => ~TakenBy(c, e)'
    BY <1>2, <2>2, <2>3 DEF GivenTruthful
  <2>6. QED
    BY <2>1, <2>4, <2>5 DEF GivenTruthful
<1>8. ClientTold'
  BY <1>1, <1>2 DEF ClientTold, Waiting
<1>9. ServerTold'
  <2>1. told.svr[convSeed] = "none"
    BY <1>1, <1>3 DEF ServerTold, HandshakeInv, SeedAhead
  <2>2. QED
    BY <1>1, <1>2, <2>1 DEF ServerTold
<1>10. ListenerTold'
  BY <1>2 DEF ListenerTold
<1>11. QED
  BY <1>2, <1>7, <1>8, <1>9, <1>10 DEF Quiet

(* The other steps give no conv to a client.                               *)
LEMMA GivenServer ==
  ASSUME ContractInv, OnlyCloses, told'.given = told.given, told'.cli = told.cli
  PROVE  GivenTruthful' /\ ClientTold'
<1>1. \A d \in net' : d.kind \in {"SYNACK", "ACK"} => d \in net
  BY DEF OnlyCloses
<1>2. GivenTruthful'
  BY <1>1 DEF ContractInv, GivenTruthful, OnlyCloses, AsksAnew, TakenBy
<1>3. ClientTold'
  BY DEF ContractInv, ClientTold, OnlyCloses, Waiting
<1>4. QED
  BY <1>2, <1>3

LEMMA ContractServerStep ==
  ASSUME TypeInv, HandshakeInv, ContractInv, Server
  PROVE  ContractInv' /\ [Promise!Next]_(Promise!vars)
<1> USE DEF ContractInv
<1>1. /\ acc \in [Convs -> Accepted] /\ told \in Told
      /\ told.svr \in [Convs -> {"none", "up", "down"}]
      /\ \A v \in Manager : v \in Convs /\ acc[v].state \notin {"unused", "removed"}
      /\ listener \in [state : {"LISTEN", "STOP_LISTEN", "CLOSED"},
                       udp : {"open", "closing", "none"}]
  BY DEF TypeInv, TypeOK, Told, Manager
<1>2. CASE OnSyn
  BY <1>2, ContractAccept, QuietStutters
<1>3. OnSyn \/ OnlyCloses
  BY ServerOnlyCloses
<1> SUFFICES ASSUME OnlyCloses
             PROVE  ContractInv' /\ [Promise!Next]_(Promise!vars)
  BY <1>2, <1>3
<1>4. Manager' \subseteq Manager
  BY DEF OnlyCloses
<1>5. ASSUME NEW v \in Manager, Announce(v)
      PROVE  ContractInv' /\ [Promise!Next]_(Promise!vars)
  <2>1. /\ acc[v].state = "SYN_RECV" /\ listener.state = "LISTEN"
        /\ acc' = [acc EXCEPT ![v].state = "ESTABLISHED"]
        /\ told' = [told EXCEPT !.svr[v] = "up", !.calls = @ + 1]
        /\ UNCHANGED <<net, listener, convSeed>>
    BY <1>5 DEF Announce
  <2>2. v \in told.given
    BY <1>5 DEF Announce, GivenTruthful
  <2>3. /\ told'.svr = [told.svr EXCEPT ![v] = "up"]
        /\ told'.cli = told.cli /\ told'.given = told.given
        /\ told'.listener = told.listener /\ told'.calls = told.calls + 1
    BY <1>1, <2>1, ServerCalls
  <2>4. acc'[v].state = "ESTABLISHED" /\ \A w \in Convs \ {v} : acc'[w] = acc[w]
    BY <1>1, <2>1 DEF Accepted
  <2>5. ServerTold'
    BY <1>1, <2>3, <2>4 DEF ServerTold
  <2>6. ListenerTold'
    BY <1>4, <2>1, <2>3 DEF ListenerTold
  <2>7. Promise!NewConnection(v)
    BY <1>1, <2>1, <2>2, <2>3
    DEF Promise!NewConnection, Promise!Call, ServerTold, ListenerTold
  <2>8. QED
    BY <1>1, <2>3, <2>5, <2>6, <2>7, GivenServer DEF Promise!Next
<1>6. ASSUME NEW v \in Manager, ServerDisconnect(v)
      PROVE  ContractInv' /\ [Promise!Next]_(Promise!vars)
  <2>1. /\ acc[v].state = "ESTABLISHED"
        /\ acc' = [acc EXCEPT ![v].state = "CLOSE_WAIT"]
        /\ UNCHANGED <<listener, told>>
    BY <1>6 DEF ServerDisconnect
  <2>2. acc'[v].state = "CLOSE_WAIT" /\ \A w \in Convs \ {v} : acc'[w] = acc[w]
    BY <1>1, <2>1 DEF Accepted
  <2>3. ServerTold'
    BY <1>1, <2>1, <2>2 DEF ServerTold
  <2>4. ListenerTold'
    BY <1>4, <2>1 DEF ListenerTold
  <2>5. QED
    BY <2>1, <2>3, <2>4, GivenServer, QuietStutters DEF Quiet
<1>7. ASSUME NEW v \in Manager, Sweep(v)
      PROVE  ContractInv' /\ [Promise!Next]_(Promise!vars)
  <2>1. /\ acc' = [acc EXCEPT ![v] = [@ EXCEPT !.state = "removed", !.value = 0]]
        /\ told' = IF acc[v].state = "CLOSE_WAIT"
                     THEN [told EXCEPT !.svr[v] = "down", !.calls = @ + 1] ELSE told
        /\ UNCHANGED <<net, listener, convSeed>>
    BY <1>7 DEF Sweep, Remove
  <2>2. acc'[v].state = "removed" /\ \A w \in Convs \ {v} : acc'[w] = acc[w]
    BY <1>1, <2>1 DEF Accepted
  <2>3. CASE acc[v].state = "CLOSE_WAIT"
    <3>1. /\ told'.svr = [told.svr EXCEPT ![v] = "down"]
          /\ told'.cli = told.cli /\ told'.given = told.given
          /\ told'.listener = told.listener /\ told'.calls = told.calls + 1
      BY <1>1, <2>1, <2>3, ServerCalls
    <3>2. ServerTold'
      BY <1>1, <2>2, <3>1 DEF ServerTold
    <3>3. ListenerTold'
      BY <1>4, <2>1, <3>1 DEF ListenerTold
    <3>4. Promise!AcceptedClosed(v)
      BY <1>1, <2>3, <3>1 DEF Promise!AcceptedClosed, Promise!Call, ServerTold
    <3>5. QED
      BY <1>1, <3>1, <3>2, <3>3, <3>4, GivenServer DEF Promise!Next
  <2>4. CASE acc[v].state # "CLOSE_WAIT"
    <3>1. UNCHANGED told /\ acc[v].state \in {"SYN_RECV", "CLOSED"}
      BY <1>1, <1>7, <2>1, <2>4 DEF Sweep, Accepted
    <3>2. ServerTold'
      BY <1>1, <2>2, <3>1 DEF ServerTold
    <3>3. ListenerTold'
      BY <1>4, <2>1, <3>1 DEF ListenerTold
    <3>4. QED
      BY <3>1, <3>2, <3>3, GivenServer, QuietStutters DEF Quiet
  <2>5. QED
    BY <2>3, <2>4
<1>8. CASE StopListen
  <2>1. /\ acc' = [v \in Convs |->
              [acc[v] EXCEPT !.state = CASE @ = "ESTABLISHED" -> "CLOSE_WAIT"
                                         [] @ = "SYN_RECV" -> "CLOSED"
                                         [] OTHER -> @]]
        /\ listener.state = "LISTEN" /\ listener' = [listener EXCEPT !.state = "STOP_LISTEN"]
        /\ UNCHANGED told
    BY <1>8 DEF StopListen
  <2>2. \A v \in Convs :
          /\ acc[v].state = "ESTABLISHED" => acc'[v].state = "CLOSE_WAIT"
          /\ acc[v].state = "SYN_RECV" => acc'[v].state = "CLOSED"
          /\ acc[v].state \notin {"ESTABLISHED", "SYN_RECV"} => acc'[v].state = acc[v].state
    BY <1>1, <2>1 DEF Accepted
  <2>3. ServerTold'
    BY <1>1, <2>1, <2>2 DEF ServerTold
  <2>4. ListenerTold'
    BY <1>1, <1>4, <2>1 DEF ListenerTold
  <2>5. QED
    BY <2>1, <2>3, <2>4, GivenServer, QuietStutters DEF Quiet
<1>9. CASE StopListenTick
  <2>1. /\ listener = [state |-> "STOP_LISTEN", udp |-> "open"] /\ Manager = {}
        /\ listener' = [listener EXCEPT !.udp = "closing"]
        /\ UNCHANGED <<acc, told>>
    BY <1>9 DEF StopListenTick
  <2>2. ServerTold' /\ ListenerTold'
    BY <1>4, <2>1 DEF ServerTold, ListenerTold
  <2>3. QED
    BY <2>1, <2>2, GivenServer, QuietStutters DEF Quiet
<1>10. CASE ListenerClosed
  <2>1. /\ listener.udp = "closing" /\ listener' = [state |-> "CLOSED", udp |-> "none"]
        /\ told' = [told EXCEPT !.listener = "closed", !.calls = @ + 1]
        /\ UNCHANGED acc
    BY <1>10 DEF ListenerClosed
  <2>2. /\ told'.listener = "closed" /\ told'.calls = told.calls + 1
        /\ told'.cli = told.cli /\ told'.given = told.given /\ told'.svr = told.svr
    BY <1>1, <2>1, ServerCalls
  <2>3. ServerTold' /\ ListenerTold'
    BY <1>4, <2>1, <2>2 DEF ServerTold, ListenerTold
  <2>4. \A v \in Convs : told.svr[v] # "up"
    BY <1>1, <2>1 DEF ListenerTold, ServerTold, Manager
  <2>5. Promise!ListenerClosed
    BY <2>1, <2>2, <2>4 DEF Promise!ListenerClosed, Promise!Call, ListenerTold
  <2>6. QED
    BY <2>2, <2>3, <2>5, GivenServer DEF Promise!Next
<1>11. QED
  BY <1>2, <1>5, <1>6, <1>7, <1>8, <1>9, <1>10, ServerCases

(* Every behaviour of KCPSocket is one of KCPContract, with the history of *)
(* callbacks for its variables: over any network and whatever values are   *)
(* drawn, a server announces only what a client was given, each once; and  *)
(* a conv is given again only to a connect whose port had sent its value   *)
(* before.                                                                 *)
THEOREM ContractCorrect == SafeSpec => ImplementsContract
<1> DEFINE Inv == TypeInv /\ HandshakeInv /\ ContractInv
<1>1. Init => Inv /\ Promise!Init
  BY TypeInit, HandshakeInit, ContractInit
<1>2. Inv /\ [Next]_vars => Inv' /\ [Promise!Next]_(Promise!vars)
  <2>1. ASSUME Inv, UNCHANGED vars
        PROVE  ContractInv' /\ [Promise!Next]_(Promise!vars)
    <3>1. ContractInv'
      BY <2>1
      DEF vars, ContractInv, GivenTruthful, AsksAnew, TakenBy, ClientTold, Waiting,
          ServerTold, ListenerTold, Manager
    <3>2. QED
      BY <2>1, <3>1, QuietStutters DEF vars, Quiet
  <2>2. ASSUME Inv, [Next]_vars PROVE TypeInv' /\ HandshakeInv'
    BY <2>2, TypeNext, HandshakeNext
  <2>3. ASSUME Inv, Next
        PROVE  ContractInv' /\ [Promise!Next]_(Promise!vars)
    BY <2>2, <2>3, ContractClientStep, ContractServerStep DEF Next
  <2>4. QED
    BY <2>1, <2>2, <2>3
<1> HIDE DEF Inv
<1>3. QED
  BY <1>1, <1>2, PTL DEF SafeSpec, ImplementsContract, Promise!Spec
=============================================================================
