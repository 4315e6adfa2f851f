----------------------------- MODULE KCPSocket -----------------------------
(***************************************************************************)
(* The connections of KCPSocket over UDP: a listening socket with the      *)
(* sockets its KCPSocketManager holds, and the sockets of clients.         *)
(*                                                                         *)
(*      client                         server                              *)
(*      SYN_SENT     -- SYN value -->                                      *)
(*                   <-- SYNACK value + 1, conv --   SYN_RECV              *)
(*      ESTABLISHED  -- ACK conv + 1 -->             ESTABLISHED           *)
(*      FIN_WAIT     <-- FIN conv -->                CLOSE_WAIT            *)
(*                                                                         *)
(* The network is the set of all datagrams ever sent: any of them may be   *)
(* read at any later time, again and again, or never.  Loss, delay, order  *)
(* and duplication are in that, and so is every datagram the timers send   *)
(* again.  A timeout may come at any time in its state: no duration is     *)
(* modelled.  Data and the heartbeat are left out, but for what they do to *)
(* the connection: SilenceTooLong.                                         *)
(*                                                                         *)
(* A connect draws its value at random from 1999 of them, so values        *)
(* repeat: a connect may draw the value of an earlier one of its port, and *)
(* then reads answers to that one as its own.  Whether it did is kept in   *)
(* history (since), for the properties that only hold when it did not.     *)
(*                                                                         *)
(* Assumed: m_convSeed does not wrap, and all datagrams are from these     *)
(* sockets (what a client does with others is in KCPClient).               *)
(***************************************************************************)
EXTENDS Naturals, FiniteSets

CONSTANTS
  Clients,      \* the sockets of clients
  Ports,        \* the addresses they are bound to, one after the other
  Values,       \* what m_randValue is drawn from: 1000 .. 2998
  MaxConnects,  \* bound: connects of a behaviour
  MaxConvs      \* bound: sockets accepted

ASSUME KCPAssumption ==
  Values \subseteq Nat \ {0} /\ MaxConnects \in Nat /\ MaxConvs \in Nat

VARIABLES
  so,        \* so[c]: the socket of a client
  connects,  \* connects made so far
  listener,  \* the listening socket: [state, udp]
  convSeed,  \* m_convSeed, from 0
  acc,       \* acc[v]: the accepted socket with conv v
  net,       \* the datagrams sent so far
  told       \* the callbacks made (history): see KCPContract

vars == <<so, connects, listener, convSeed, acc, net, told>>

Convs   == 1 .. MaxConvs      \* 10000 and so on; 0 is "no conv"
Answers == {n + 1 : n \in Values}
NoPort  == "no port"

\* since: m_convSeed at the connect, if its port had never sent that value; else
\* 0 (history).
Socket == [state : {"CLOSED", "SYN_SENT", "ESTABLISHED", "FIN_WAIT"},
           conv : Convs \cup {0},
           value : Values \cup {0},            \* m_randValue
           udp : {"none", "open", "closing"},  \* m_udp; its close is pending
           port : Ports \cup {NoPort},
           since : 0 .. MaxConvs + 1]

Accepted == [state : {"unused", "SYN_RECV", "ESTABLISHED", "CLOSE_WAIT", "CLOSED",
                      "removed"},
             addr : Ports \cup {NoPort},
             value : Answers \cup {0}]   \* m_randValue

Datagram == [kind : {"SYN"}, addr : Ports, value : Values]
       \cup [kind : {"ACK"}, addr : Ports, value : 2 .. MaxConvs + 1]
       \cup [kind : {"FIN", "FIN_TO_CLIENT"}, addr : Ports, conv : Convs]
       \cup [kind : {"SYNACK"}, addr : Ports, value : Answers, conv : Convs]

TypeOK ==
  /\ so \in [Clients -> Socket]
  /\ connects \in 0 .. MaxConnects
  /\ listener \in [state : {"LISTEN", "STOP_LISTEN", "CLOSED"}, udp : {"open", "closing", "none"}]
  /\ convSeed \in 1 .. MaxConvs + 1
  /\ acc \in [Convs -> Accepted]
  /\ net \subseteq Datagram
  /\ told \in [cli : [Clients -> {"idle", "waiting", "repeating", "up"}],
               given : SUBSET Convs, svr : [Convs -> {"none", "up", "down"}],
               listener : {"up", "closed"}, calls : Nat]

Init ==
  /\ so = [c \in Clients |-> [state |-> "CLOSED", conv |-> 0, value |-> 0,
                              udp |-> "none", port |-> NoPort, since |-> 0]]
  /\ connects = 0
  /\ listener = [state |-> "LISTEN", udp |-> "open"]
  /\ convSeed = 1
  /\ acc = [v \in Convs |-> [state |-> "unused", addr |-> NoPort, value |-> 0]]
  /\ net = {}
  /\ told = [cli |-> [c \in Clients |-> "idle"], given |-> {},
             svr |-> [v \in Convs |-> "none"], listener |-> "up", calls |-> 0]

Syn(p, value)           == [kind |-> "SYN", addr |-> p, value |-> value]
SynAndAck(p, value, v)  == [kind |-> "SYNACK", addr |-> p, value |-> value, conv |-> v]
Ack(p, value)           == [kind |-> "ACK", addr |-> p, value |-> value]
Fin(p, v)               == [kind |-> "FIN", addr |-> p, conv |-> v]
FinToClient(p, v)       == [kind |-> "FIN_TO_CLIENT", addr |-> p, conv |-> v]

UdpSend(d) == net' = net \cup {d}

-----------------------------------------------------------------------------
\* A client's socket.

ClientStep == UNCHANGED <<listener, convSeed, acc>>

\* shutdownSocket of a client's socket: conv and value are reset, the idle
\* timer stops, uv_close.  The state is the caller's.
Shutdown(s) == [s EXCEPT !.conv = 0, !.value = 0, !.since = 0,
                         !.udp = IF @ = "none" THEN "none" ELSE "closing"]

FreePorts == Ports \ {so[c].port : c \in {c \in Clients : so[c].udp = "open"}}

\* SYN_SENT, with a value drawn at random.  An m_udp that a failed connect left
\* behind is used again, though libuv is closing it.
SynSent(s, p, value, since) ==
  [s EXCEPT !.state = "SYN_SENT", !.value = value, !.port = p, !.since = since,
            !.udp = IF @ = "none" THEN "open" ELSE @]

\* The port has sent a SYN with this value before, for whoever had it.
Repeats(p, value) == Syn(p, value) \in net

\* connect: only in CLOSED; the system chooses the port.
Connect(c) ==
  /\ so[c].state = "CLOSED"
  /\ connects < MaxConnects
  /\ connects' = connects + 1
  /\ \E p \in FreePorts, value \in Values :
       /\ so' = [so EXCEPT ![c] =
                    SynSent(@, p, value, IF Repeats(p, value) THEN 0 ELSE convSeed)]
       /\ told' = [told EXCEPT !.cli[c] =
                      IF Repeats(p, value) THEN "repeating" ELSE "waiting"]
       /\ UdpSend(Syn(p, value))
  /\ ClientStep

\* connectResult of a failure: the callback, CLOSED, shutdownSocket.
ConnectFailed(c) ==
  /\ told' = [told EXCEPT !.cli[c] = "idle", !.calls = @ + 1]
  /\ so' = [so EXCEPT ![c] = [Shutdown(@) EXCEPT !.state = "CLOSED"]]
  /\ UNCHANGED net

\* Mutant: the ACK carries the conv itself.
ConnectedAcksConv(c, v) ==
  /\ told' = [told EXCEPT !.cli[c] = "up", !.given = @ \cup {v}, !.calls = @ + 1]
  /\ so' = [so EXCEPT ![c] = [@ EXCEPT !.state = "ESTABLISHED", !.conv = v]]
  /\ UdpSend(Ack(so[c].port, v))

\* connectResult(1)
Connected(c, v) ==
  /\ told' = [told EXCEPT !.cli[c] = "up", !.given = @ \cup {v}, !.calls = @ + 1]
  /\ so' = [so EXCEPT ![c] = [@ EXCEPT !.state = "ESTABLISHED", !.conv = v]]
  /\ UdpSend(Ack(so[c].port, v + 1))

\* uv_on_after_read of a socket that is not closing
ClientReads(c, kind) == {d \in net : /\ so[c].udp = "open"
                                     /\ d.addr = so[c].port /\ d.kind = kind}

\* Mutant: the answer is not compared with the value that was sent.
OnSynAndAckUnchecked(c) ==
  /\ so[c].state = "SYN_SENT"
  /\ \E d \in ClientReads(c, "SYNACK") : Connected(c, d.conv)
  /\ UNCHANGED connects /\ ClientStep

\* onUdpRead, kcp_is_syn_and_ack
OnSynAndAck(c) ==
  /\ so[c].state = "SYN_SENT"
  /\ \E d \in ClientReads(c, "SYNACK") :
       IF d.value = so[c].value + 1 THEN Connected(c, d.conv) ELSE ConnectFailed(c)
  /\ UNCHANGED connects /\ ClientStep

\* checkLogic, SYN_SENT for three seconds
ConnectTimeout(c) ==
  /\ so[c].state = "SYN_SENT" /\ so[c].udp = "open"
  /\ ConnectFailed(c)
  /\ UNCHANGED connects /\ ClientStep

\* disconnect of a client's socket.  Before the SYNACK the conv is 0 and the
\* call does nothing.
ClientDisconnect(c) ==
  /\ so[c].state = "ESTABLISHED"
  /\ so' = [so EXCEPT ![c].state = "FIN_WAIT"]
  /\ UdpSend(Fin(so[c].port, so[c].conv))
  /\ UNCHANGED <<connects, told>> /\ ClientStep

\* The client's connection has no socket on the server any more: nothing that
\* resets m_heartbeatLoseCount will come.
AcceptedGone(c) ==
  so[c].conv # 0 /\ acc[so[c].conv].state \notin {"SYN_RECV", "ESTABLISHED"}

\* checkLogic: nothing was read for a minute.  (It may be with the peer alive.)
ClientSilence(c) == AcceptedGone(c) /\ ClientDisconnect(c)

FinWaitEnds(c) ==
  /\ so[c].state = "FIN_WAIT" /\ so[c].udp = "open"
  /\ so' = [so EXCEPT ![c] = Shutdown(@)]
  /\ UNCHANGED <<connects, net, told>> /\ ClientStep

\* onUdpRead, kcp_is_fin
ClientOnFin(c) ==
  /\ \E d \in ClientReads(c, "FIN_TO_CLIENT") : d.conv = so[c].conv
  /\ ClientDisconnect(c) \/ FinWaitEnds(c)

\* Mutant: only a FIN of the server ends FIN_WAIT.
FinWaitNoTimeout(c) ==
  (\E d \in ClientReads(c, "FIN_TO_CLIENT") : d.conv = so[c].conv) /\ FinWaitEnds(c)

\* checkLogic, FIN_WAIT for a second
FinWaitTimeout(c) == FinWaitEnds(c)

\* onCloseSocketFinished
OnCloseSocketFinished(c) ==
  /\ so[c].udp = "closing"
  /\ told' = IF so[c].state = "FIN_WAIT"
               THEN [told EXCEPT !.cli[c] = "idle", !.calls = @ + 1] ELSE told
  /\ so' = [so EXCEPT ![c] = [@ EXCEPT !.udp = "none", !.state = "CLOSED"]]
  /\ UNCHANGED <<connects, net>> /\ ClientStep

-----------------------------------------------------------------------------
\* The listening socket and the sockets it accepts.

ServerStep == UNCHANGED <<so, connects>>

\* The sockets in m_allSocket, and those of an address.
Manager    == {v \in Convs : acc[v].state \notin {"unused", "removed"}}
SocketsOf(p) == {v \in Manager : acc[v].addr = p}

\* onUdpRead of the listening socket: in STOP_LISTEN it reads nothing.
ServerReads(kind) == {d \in net : listener.state = "LISTEN" /\ d.kind = kind}

\* Mutant: a SYN is accepted from an address that has a socket.
OnSynAgain ==
  /\ convSeed <= MaxConvs
  /\ \E d \in ServerReads("SYN") :
       /\ acc' = [acc EXCEPT ![convSeed] = [state |-> "SYN_RECV", addr |-> d.addr,
                                           value |-> d.value + 1]]
       /\ UdpSend(SynAndAck(d.addr, d.value + 1, convSeed))
  /\ convSeed' = convSeed + 1
  /\ UNCHANGED <<listener, told>> /\ ServerStep

\* accept, svr_connect
OnSyn ==
  /\ convSeed <= MaxConvs
  /\ \E d \in ServerReads("SYN") :
       /\ SocketsOf(d.addr) = {}
       /\ acc' = [acc EXCEPT ![convSeed] = [state |-> "SYN_RECV", addr |-> d.addr,
                                           value |-> d.value + 1]]
       /\ UdpSend(SynAndAck(d.addr, d.value + 1, convSeed))
  /\ convSeed' = convSeed + 1
  /\ UNCHANGED <<listener, told>> /\ ServerStep

\* shutdownSocket of an accepted socket: m_closeCall in CLOSE_WAIT only; the
\* manager forgets the socket, and frees it when it was never online.
Remove(v) ==
  /\ acc' = [acc EXCEPT ![v] = [@ EXCEPT !.state = "removed", !.value = 0]]
  /\ told' = IF acc[v].state = "CLOSE_WAIT"
               THEN [told EXCEPT !.svr[v] = "down", !.calls = @ + 1] ELSE told
  /\ UNCHANGED <<net, listener, convSeed>> /\ ServerStep

\* Mutant: any ACK of the address will do.
OnAckUnchecked ==
  \E d \in ServerReads("ACK") : \E v \in SocketsOf(d.addr) :
    /\ acc[v].state = "SYN_RECV"
    /\ acc' = [acc EXCEPT ![v].state = "ESTABLISHED"]
    /\ told' = [told EXCEPT !.svr[v] = "up", !.calls = @ + 1]
    /\ UNCHANGED <<net, listener, convSeed>> /\ ServerStep

\* onUdpRead, kcp_is_ack: with the right value the socket is announced; with
\* another one acceptFailed.
OnAck ==
  \E d \in ServerReads("ACK") : \E v \in SocketsOf(d.addr) :
    /\ acc[v].state = "SYN_RECV"
    /\ IF v = d.value - 1
         THEN /\ acc' = [acc EXCEPT ![v].state = "ESTABLISHED"]
              /\ told' = [told EXCEPT !.svr[v] = "up", !.calls = @ + 1]
              /\ UNCHANGED <<net, listener, convSeed>> /\ ServerStep
         ELSE Remove(v)

\* disconnect of an accepted socket: the application's, or after a FIN
ServerDisconnect(v) ==
  /\ acc[v].state = "ESTABLISHED"
  /\ acc' = [acc EXCEPT ![v].state = "CLOSE_WAIT"]
  /\ UdpSend(FinToClient(acc[v].addr, v))
  /\ UNCHANGED <<listener, convSeed, told>> /\ ServerStep

\* onUdpRead, kcp_is_fin
ServerOnFin ==
  \E d \in ServerReads("FIN") : \E v \in SocketsOf(d.addr) :
    /\ d.conv = v
    /\ ServerDisconnect(v) \/ (acc[v].state = "CLOSE_WAIT" /\ Remove(v))

\* No client holds the connection: nothing that resets m_heartbeatLoseCount
\* will come.
ClientGone(v) == ~ \E c \in Clients : so[c].conv = v /\ so[c].state = "ESTABLISHED"

\* checkLogic: nothing was read for a minute.  (It may be with the peer alive.)
ServerSilence(v) == ClientGone(v) /\ ServerDisconnect(v)


\* Mutant: a CLOSED socket is not swept up.
AcceptedTimeoutNotClosed(v) == acc[v].state \in {"SYN_RECV", "CLOSE_WAIT"} /\ Remove(v)

\* checkLogic: SYN_RECV for five seconds, CLOSE_WAIT for one, CLOSED
AcceptedTimeout(v) == acc[v].state \in {"SYN_RECV", "CLOSE_WAIT", "CLOSED"} /\ Remove(v)

\* disconnect of the listening socket, with disconnectAll.
StopListen ==
  /\ listener.state = "LISTEN"
  /\ listener' = [listener EXCEPT !.state = "STOP_LISTEN"]
  /\ acc' = [v \in Convs |->
              [acc[v] EXCEPT !.state = CASE @ = "ESTABLISHED" -> "CLOSE_WAIT"
                                         [] @ = "SYN_RECV" -> "CLOSED"
                                         [] OTHER -> @]]
  /\ net' = net \cup {FinToClient(acc[v].addr, v) : v \in {v \in Convs : acc[v].state = "ESTABLISHED"}}
  /\ UNCHANGED <<convSeed, told>> /\ ServerStep

\* checkLogic, STOP_LISTEN.  (disconnectAll again finds nothing to do.)
StopListenTick ==
  /\ listener = [state |-> "STOP_LISTEN", udp |-> "open"]
  /\ Manager = {}
  /\ listener' = [listener EXCEPT !.udp = "closing"]
  /\ UNCHANGED <<convSeed, acc, net, told>> /\ ServerStep

\* onCloseSocketFinished of the listening socket
ListenerClosed ==
  /\ listener.udp = "closing"
  /\ listener' = [state |-> "CLOSED", udp |-> "none"]
  /\ told' = [told EXCEPT !.listener = "closed", !.calls = @ + 1]
  /\ UNCHANGED <<convSeed, acc, net>> /\ ServerStep

-----------------------------------------------------------------------------
Client(c) == \/ Connect(c) \/ OnSynAndAck(c) \/ ConnectTimeout(c)
             \/ ClientDisconnect(c) \/ ClientSilence(c)
             \/ ClientOnFin(c) \/ FinWaitTimeout(c) \/ OnCloseSocketFinished(c)

Server == \/ OnSyn \/ OnAck \/ ServerOnFin
          \/ \E v \in Convs : ServerDisconnect(v) \/ ServerSilence(v) \/ AcceptedTimeout(v)
          \/ StopListen \/ StopListenTick \/ ListenerClosed

Next == Server \/ \E c \in Clients : Client(c)

\* The timers run and libuv calls back.  No datagram need ever arrive.
Fairness ==
  /\ \A c \in Clients : /\ WF_vars(ConnectTimeout(c)) /\ WF_vars(ClientSilence(c))
                        /\ WF_vars(FinWaitTimeout(c)) /\ WF_vars(OnCloseSocketFinished(c))
  /\ \A v \in Convs : WF_vars(ServerSilence(v)) /\ WF_vars(AcceptedTimeout(v))
  /\ WF_vars(StopListenTick) /\ WF_vars(ListenerClosed)

SafeSpec == Init /\ [][Next]_vars
Spec     == SafeSpec /\ Fairness

-----------------------------------------------------------------------------
\* getSocketBySockAddr finds one socket at most: never two of an address.
OneSocketPerAddress == \A v, w \in Manager : acc[v].addr = acc[w].addr => v = w

\* The two ends with a conv are those of one handshake.  Whatever values are
\* drawn: the accepted socket answers a SYN of the port the client has now, with
\* the client's value, and no other client has its conv.  And when the port had
\* not drawn the value before: the socket was accepted after the connect, so
\* none that an earlier connect left behind is taken up.
EndsMatch ==
  \A c \in Clients : so[c].conv # 0 =>
    /\ so[c].conv \in Manager =>
         /\ acc[so[c].conv].addr = so[c].port
         /\ acc[so[c].conv].value = so[c].value + 1
    /\ \A b \in Clients : so[b].conv = so[c].conv => b = c
    /\ so[c].since <= so[c].conv

\* The callbacks on both sides, in whatever order datagrams arrive, are those
\* of KCPContract: a connect is answered once, and with a conv nobody had unless
\* it drew a value again; a server hears only of connections a client was given,
\* and everything announced is closed once.
Promise == INSTANCE KCPContract WITH
  cli <- told.cli, given <- told.given, svr <- told.svr,
  listener <- told.listener, calls <- told.calls
ImplementsContract == Promise!Spec

-----------------------------------------------------------------------------
\* Every connect is answered and every socket a client leaves is closed,
\* without a datagram arriving.  (But not a connect on a handle that closes.)
ClientSettles ==
  \A c \in Clients :
    (so[c].state = "FIN_WAIT" \/ (so[c].state = "SYN_SENT" /\ so[c].udp = "open"))
      ~> so[c].state \in {"CLOSED", "ESTABLISHED"} /\ told.cli[c] \in {"idle", "up"}

\* A connect that drew a value again was answered with an old conv.
Rejoined(v) == \E c \in Clients : so[c].conv = v /\ so[c].since = 0


\* A listening socket that is told to stop reports its close.
ListenerStops == listener.state = "STOP_LISTEN" ~> told.listener = "closed"
=============================================================================
