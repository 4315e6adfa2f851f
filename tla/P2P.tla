-------------------------------- MODULE P2P --------------------------------
(***************************************************************************)
(* Peers that find each other through a turn and punch through their NATs: *)
(* P2PPeer and P2PTurn, each over a P2PPipe.                               *)
(*                                                                         *)
(* The network is the set of all datagrams sent so far; any may be read at *)
(* any time, again, or never, so what a timer sends again is there already.*)
(* A count of tries is a timeout that may come at any time.  A call is the *)
(* step in which the loop thread executes its operation; the two queues    *)
(* between the threads are those of ThreadQueue.                           *)
(*                                                                         *)
(* Abstracted: the data sent over kcp; getLocalAddressIPV4Info finds an    *)
(* address for every peer.  The turn is not stopped, a stopped peer is not *)
(* started again.                                                          *)
(***************************************************************************)
EXTENDS Naturals, FiniteSets, P2PPipe

CONSTANTS
  Peers,
  Turn,
  MaxEvents  \* bound: calls, PINGs and sessions that fall silent, in all

ASSUME TurnAssumption   == Turn \notin Peers
ASSUME BoundsAssumption == MaxEvents \in Nat

VARIABLES
  lan,        \* the peers are in one local network, behind one address
  running,    \* the peers that have not been stopped
  pipe,       \* pipe[n]: m_pipe of a peer or the turn
  login,      \* login[p]: "idle", "trying", "in": m_isStopConnectToTurn, m_isConnectTurn
  connectTo,  \* connectTo[p][q]: the entry of q in m_connectToPeerSessionMng, or "none"
  accepted,   \* accepted[p]: the keys of m_acceptPerrSessionMng
  burrow,     \* burrow[p][a]: the entry of m_burrowManager, by its isClient, or "none"
  peerData,   \* the keys of the turn's m_key_peerDataMap
  net,        \* the datagrams sent
  asked,      \* <<p, q>>: p has asked for q (history)
  lost,       \* a session has been removed for its silence (history)
  events      \* counts up to MaxEvents

peerVars == <<login, connectTo, accepted, burrow>>
vars == <<lan, running, pipe, peerVars, peerData, net, asked, lost, events>>

Nodes     == Peers \cup {Turn}
Public(n) == <<"public", n>>
Local(p)  == <<"local", p>>
Owner(a)  == a[2]
PeerAddrs == {Public(p) : p \in Peers} \cup {Local(p) : p \in Peers}
Addrs     == PeerAddrs \cup {Public(Turn)}
NoAddr    == <<"none">>   \* sendToAddr.key = 0

\* The address that a reader at address a sees as n's.
SourceTo(n, a) == IF a[1] = "local" THEN Local(n) ELSE Public(n)

Datagram ==
  [from : Addrs, to : Addrs,
   kind : {"PING", "PONG", "CREATE_KCP", "CREATE_KCP_RESULT", "DISCONNECT", "LOGIN", "LOGIN_RESULT"}]
  \cup [from : Addrs, to : Addrs, kind : {"START_BURROW"}, key : PeerAddrs]
  \cup [from : Addrs, to : Addrs, kind : {"HELLO"}, isClient : BOOLEAN]
  \cup [from : Addrs, to : Addrs, kind : {"CHECK_PEER"}, toKey : Peers]
  \cup [from : Addrs, to : Addrs, kind : {"CHECK_PEER_RESULT"}, toKey : Peers,
        code : 0 .. 2, tarAddr : PeerAddrs]

Entry   == [state : {"none", "CHECKING", "CONNECTING", "CONNECT"}, addr : PeerAddrs \cup {NoAddr}]
NoEntry == [state |-> "none", addr |-> NoAddr]

-----------------------------------------------------------------------------
\* Datagrams

To(n, a, kind) == [from |-> SourceTo(n, a), to |-> a, kind |-> kind]

CheckPeer(p, q) ==
  [from |-> Public(p), to |-> Public(Turn), kind |-> "CHECK_PEER", toKey |-> q]
CheckPeerResult(p, q, code, addr) ==
  [from |-> Public(Turn), to |-> Public(p), kind |-> "CHECK_PEER_RESULT",
   toKey |-> q, code |-> code, tarAddr |-> addr]
StartBurrow(q, key) ==
  [from |-> Public(Turn), to |-> Public(q), kind |-> "START_BURROW", key |-> key]
Hello(p, a, role) ==
  [from |-> SourceTo(p, a), to |-> a, kind |-> "HELLO", isClient |-> role = "client"]

\* start's first operation has been executed.
Init ==
  /\ lan \in BOOLEAN
  /\ running = Peers
  /\ pipe = [n \in Nodes |-> EmptyPipe]
  /\ login = [p \in Peers |-> "trying"]
  /\ connectTo = [p \in Peers |-> [q \in Peers |-> NoEntry]]
  /\ accepted = [p \in Peers |-> {}]
  /\ burrow = [p \in Peers |-> [a \in PeerAddrs |-> "none"]]
  /\ peerData = {} /\ asked = {} /\ lost = FALSE /\ events = 0
  /\ net = {To(p, Public(Turn), "LOGIN") : p \in Peers}

-----------------------------------------------------------------------------
\* What a callback of the pipe does to a peer.

\* startBurrow: an entry that is there keeps what it sends.
Burrow(p, a, role) ==
  /\ burrow' = [burrow EXCEPT ![p][a] = IF @ = "none" THEN role ELSE @]
  /\ net' = IF burrow[p][a] = "none" THEN net \cup {Hello(p, a, role)} ELSE net

\* The entry that a session with address a belongs to, by key or by sendToAddr.
ByKey(p, a)  == {q \in Peers : connectTo[p][q].state # "none" /\ Public(q) = a}
ByAddr(p, a) == {q \in Peers : connectTo[p][q].state # "none" /\ connectTo[p][q].addr = a}

Entries(p, a) == IF ByKey(p, a) # {} THEN ByKey(p, a) ELSE ByAddr(p, a)

\* onPipeRemoveSessionCallback: an entry of connectTo hides one of accepted.
OnSessionRemove(p, a) ==
  IF a = Public(Turn)
    THEN /\ login' = [login EXCEPT ![p] = "idle"]
         /\ UNCHANGED <<connectTo, accepted, burrow>>
    ELSE /\ IF Entries(p, a) = {}
              THEN accepted' = [accepted EXCEPT ![p] = @ \ {a}] /\ UNCHANGED connectTo
              ELSE /\ \E q \in Entries(p, a) : connectTo' = [connectTo EXCEPT ![p][q] = NoEntry]
                   /\ UNCHANGED accepted
         /\ UNCHANGED <<login, burrow>>

\* onPipeNewKcpCreateCallback, tag 0: the connect has succeeded.
OnKcpCreated(p, a) ==
  /\ burrow' = [burrow EXCEPT ![p][a] = "none"]
  /\ IF Entries(p, a) = {} THEN UNCHANGED connectTo
     ELSE \E q \in Entries(p, a) : connectTo' = [connectTo EXCEPT ![p][q].state = "CONNECT"]
  /\ UNCHANGED <<login, accepted>>

\* onPipeNewKcpCreateCallback, tag 1: a connection of the other's.
OnKcpAccepted(p, a) ==
  /\ burrow' = [burrow EXCEPT ![p][a] = "none"]
  /\ accepted' = [accepted EXCEPT ![p] = @ \cup {a}]
  /\ UNCHANGED <<login, connectTo>>

-----------------------------------------------------------------------------
\* The calls and timers of a peer.

Acts(p) == p \in running /\ UNCHANGED <<lan, running>>

\* Bound: a step that could be taken for ever.
Counts == events < MaxEvents /\ events' = events + 1

\* The operation that start and restartConnectTurn push; LOGIN is sent again
\* every 200 ms until an answer comes or ten tries have been made.
RestartConnectTurn(p) ==
  /\ Acts(p) /\ Counts /\ login[p] # "in"
  /\ login' = [login EXCEPT ![p] = "trying"]
  /\ net' = net \cup {To(p, Public(Turn), "LOGIN")}
  /\ UNCHANGED <<pipe, connectTo, accepted, burrow, peerData, asked, lost>>

ConnectTurnFails(p) ==
  /\ Acts(p) /\ login[p] = "trying"
  /\ login' = [login EXCEPT ![p] = "idle"]
  /\ UNCHANGED <<pipe, connectTo, accepted, burrow, peerData, net, asked, lost, events>>

\* connectToPeer: CHECK_PEER is sent once.
ConnectToPeer(p, q) ==
  /\ Acts(p) /\ Counts /\ p # q /\ connectTo[p][q].state = "none"
  /\ connectTo' = [connectTo EXCEPT ![p][q] = [state |-> "CHECKING", addr |-> NoAddr]]
  /\ net' = net \cup {CheckPeer(p, q)}
  /\ asked' = asked \cup {<<p, q>>}
  /\ UNCHANGED <<pipe, login, accepted, burrow, peerData, lost>>

\* disconnect tells the other end and leaves its own as it is.
Disconnect(p, a) ==
  /\ Acts(p) /\ Counts /\ a \in pipe[p].sessions
  /\ net' = net \cup {To(p, a, "DISCONNECT")}
  /\ UNCHANGED <<pipe, peerVars, peerData, asked, lost>>

\* onTimerRun: a connect that is not answered.
ConnectTimesOut(p, q) ==
  /\ Acts(p) /\ connectTo[p][q].state \in {"CHECKING", "CONNECTING"}
  /\ connectTo' = [connectTo EXCEPT ![p][q] = NoEntry]
  /\ UNCHANGED <<pipe, login, accepted, burrow, peerData, net, asked, lost, events>>

\* onTimerRun: twenty HELLOs have been sent.
BurrowEnds(p, a) ==
  /\ Acts(p) /\ burrow[p][a] # "none"
  /\ burrow' = [burrow EXCEPT ![p][a] = "none"]
  /\ UNCHANGED <<pipe, login, connectTo, accepted, peerData, net, asked, lost, events>>

\* stop: every session is told, and each is removed with its callback; what
\* is left in the peer nobody sees again.
Stop(p) ==
  /\ Counts /\ p \in running
  /\ running' = running \ {p}
  /\ net' = net \cup {To(p, a, "DISCONNECT") : a \in pipe[p].sessions}
  /\ pipe' = [pipe EXCEPT ![p] = EmptyPipe]
  /\ login' = [login EXCEPT ![p] = "idle"]
  /\ connectTo' = [connectTo EXCEPT ![p] = [q \in Peers |-> NoEntry]]
  /\ accepted' = [accepted EXCEPT ![p] = {}]
  /\ burrow' = [burrow EXCEPT ![p] = [a \in PeerAddrs |-> "none"]]
  /\ UNCHANGED <<lan, peerData, asked, lost>>

-----------------------------------------------------------------------------
\* P2PPipe::heartCheck of a peer or the turn.

Ping(n, a) ==
  /\ Counts /\ n \in running \cup {Turn} /\ a \in pipe[n].sessions
  /\ net' = net \cup {To(n, a, "PING")}
  /\ UNCHANGED <<lan, running, pipe, peerVars, peerData, asked, lost>>

\* Nothing came from a for more than five seconds.
Silence(n, a) ==
  /\ Counts /\ n \in running \cup {Turn} /\ a \in pipe[n].sessions
  /\ lost' = TRUE
  /\ pipe' = [pipe EXCEPT ![n] = RemoveSession(@, a)]
  /\ IF n = Turn THEN peerData' = peerData \ {Owner(a)} /\ UNCHANGED peerVars
                 ELSE OnSessionRemove(n, a) /\ UNCHANGED peerData
  /\ UNCHANGED <<lan, running, net, asked>>

-----------------------------------------------------------------------------
\* P2PPipe::on_udp_read of a peer p.

Reads(p, d) ==
  /\ d \in net /\ d.to \in {Public(p), Local(p)}
  /\ Acts(p) /\ UNCHANGED <<peerData, asked, lost, events>>

Hears(p, d) == pipe' = [pipe EXCEPT ![p] = RecvData(@, d.from)]

OnPing(p, d) ==
  /\ Reads(p, d) /\ d.kind = "PING" /\ Hears(p, d)
  /\ net' = net \cup {To(p, d.from, "PONG")}
  /\ UNCHANGED peerVars

OnPong(p, d) ==
  /\ Reads(p, d) /\ d.kind = "PONG" /\ Hears(p, d)
  /\ UNCHANGED <<net, peerVars>>

\* on_recv_createKcp: answered even when there is a kcp already.
OnCreateKcp(p, d) ==
  /\ Reads(p, d) /\ d.kind = "CREATE_KCP"
  /\ pipe' = [pipe EXCEPT ![p] = CreateKcp(RecvData(@, d.from), d.from)]
  /\ net' = net \cup {To(p, d.from, "CREATE_KCP_RESULT")}
  /\ IF IsNewKcp(RecvData(pipe[p], d.from), d.from)
       THEN OnKcpCreated(p, d.from) ELSE UNCHANGED peerVars

OnCreateKcpResult(p, d) ==
  /\ Reads(p, d) /\ d.kind = "CREATE_KCP_RESULT"
  /\ pipe' = [pipe EXCEPT ![p] = CreateKcp(RecvData(@, d.from), d.from)]
  /\ IF IsNewKcp(RecvData(pipe[p], d.from), d.from)
       THEN OnKcpAccepted(p, d.from) ELSE UNCHANGED peerVars
  /\ UNCHANGED net

\* Mutant: the session is erased without its callback.
OnDisconnectSilently(p, d) ==
  /\ Reads(p, d) /\ d.kind = "DISCONNECT"
  /\ pipe' = [pipe EXCEPT ![p] = RemoveSession(@, d.from)]
  /\ UNCHANGED <<net, peerVars>>

\* on_recv_disconnect; a stranger's session is made and removed.
OnDisconnect(p, d) ==
  /\ Reads(p, d) /\ d.kind = "DISCONNECT"
  /\ pipe' = [pipe EXCEPT ![p] = RemoveSession(@, d.from)]
  /\ OnSessionRemove(p, d.from)
  /\ UNCHANGED net

OnLoginResult(p, d) ==
  /\ Reads(p, d) /\ d.kind = "LOGIN_RESULT" /\ Hears(p, d)
  /\ login' = [login EXCEPT ![p] = "in"]
  /\ UNCHANGED <<net, connectTo, accepted, burrow>>

OnStartBurrow(p, d) ==
  /\ Reads(p, d) /\ d.kind = "START_BURROW" /\ Hears(p, d)
  /\ Burrow(p, d.key, "target")
  /\ UNCHANGED <<login, connectTo, accepted>>

\* Mutant: every HELLO is answered.
OnHelloOfAny(p, d) ==
  /\ Reads(p, d) /\ d.kind = "HELLO" /\ Hears(p, d)
  /\ net' = net \cup {To(p, d.from, "CREATE_KCP")}
  /\ UNCHANGED peerVars

\* doSendCreateKcp
OnHello(p, d) ==
  /\ Reads(p, d) /\ d.kind = "HELLO" /\ Hears(p, d)
  /\ net' = IF d.isClient THEN net \cup {To(p, d.from, "CREATE_KCP")} ELSE net
  /\ UNCHANGED peerVars

\* CHECK_PEER_RESULT, an entry for its key that may be in any state.
Checked(p, d) ==
  /\ Reads(p, d) /\ d.kind = "CHECK_PEER_RESULT" /\ Hears(p, d)
  /\ connectTo[p][d.toKey].state # "none"
  /\ UNCHANGED <<login, accepted>>

\* The target is a client of ours: status 3.
AnswerClientSession(p, d) ==
  /\ Checked(p, d) /\ d.tarAddr \in accepted[p]
  /\ connectTo' = [connectTo EXCEPT ![p][d.toKey] = NoEntry]
  /\ UNCHANGED <<net, burrow>>

\* The turn does not know both: status 0.
AnswerNotFound(p, d) ==
  /\ Checked(p, d) /\ d.tarAddr \notin accepted[p] /\ d.code = 2
  /\ connectTo' = [connectTo EXCEPT ![p][d.toKey] = NoEntry]
  /\ UNCHANGED <<net, burrow>>

\* The peer sends HELLOs to the address it was given.
BurrowToTarget(p, d) ==
  /\ Checked(p, d) /\ d.tarAddr \notin accepted[p] /\ d.code \in {0, 1}
  /\ connectTo' = [connectTo EXCEPT ![p][d.toKey] = [state |-> "CONNECTING", addr |-> d.tarAddr]]
  /\ Burrow(p, d.tarAddr, "client")

\* No entry: the answer is too late.
OnResultTooLate(p, d) ==
  /\ Reads(p, d) /\ d.kind = "CHECK_PEER_RESULT" /\ Hears(p, d)
  /\ connectTo[p][d.toKey].state = "none"
  /\ UNCHANGED <<net, peerVars>>

PeerReads(p, d) ==
  \/ OnPing(p, d) \/ OnPong(p, d) \/ OnCreateKcp(p, d) \/ OnCreateKcpResult(p, d)
  \/ OnDisconnect(p, d) \/ OnLoginResult(p, d) \/ OnStartBurrow(p, d) \/ OnHello(p, d)
  \/ AnswerClientSession(p, d) \/ AnswerNotFound(p, d) \/ BurrowToTarget(p, d)
  \/ OnResultTooLate(p, d)

-----------------------------------------------------------------------------
\* P2PTurn

TurnReads(d, kind) ==
  /\ d \in net /\ d.to = Public(Turn) /\ d.kind = kind
  /\ pipe' = [pipe EXCEPT ![Turn] =
                IF kind = "DISCONNECT" THEN RemoveSession(@, d.from) ELSE RecvData(@, d.from)]
  /\ UNCHANGED <<lan, running, peerVars, asked, lost, events>>

TurnOnPing(d) ==
  TurnReads(d, "PING") /\ net' = net \cup {To(Turn, d.from, "PONG")} /\ UNCHANGED peerData

TurnOnPong(d) == TurnReads(d, "PONG") /\ UNCHANGED <<net, peerData>>

TurnOnDisconnect(d) ==
  TurnReads(d, "DISCONNECT") /\ peerData' = peerData \ {Owner(d.from)} /\ UNCHANGED net

OnLogin(d) ==
  /\ TurnReads(d, "LOGIN")
  /\ peerData' = peerData \cup {Owner(d.from)}
  /\ net' = net \cup {To(Turn, d.from, "LOGIN_RESULT")}

\* CHECK_PEER: in one local network the target's local address will do (code
\* 1); else (0) the target is told to burrow towards the one that asks.
OnCheckPeer(d) ==
  /\ TurnReads(d, "CHECK_PEER")
  /\ LET p == Owner(d.from)
         code == IF {p, d.toKey} \subseteq peerData THEN IF lan THEN 1 ELSE 0 ELSE 2
     IN net' = net \cup
                 {CheckPeerResult(p, d.toKey, code,
                                  IF code = 1 THEN Local(d.toKey) ELSE Public(d.toKey))} \cup
                 (IF code = 0 THEN {StartBurrow(d.toKey, Public(p))} ELSE {})
  /\ UNCHANGED peerData

-----------------------------------------------------------------------------
Next ==
  \/ \E p \in Peers :
       \/ RestartConnectTurn(p) \/ ConnectTurnFails(p) \/ Stop(p)
       \/ \E q \in Peers : ConnectToPeer(p, q) \/ ConnectTimesOut(p, q)
       \/ \E a \in PeerAddrs : Disconnect(p, a) \/ BurrowEnds(p, a)
       \/ \E d \in net : PeerReads(p, d)
  \/ \E n \in Nodes : \E a \in pipe[n].sessions : Ping(n, a) \/ Silence(n, a)
  \/ \E d \in net :
       TurnOnPing(d) \/ TurnOnPong(d) \/ TurnOnDisconnect(d) \/ OnLogin(d) \/ OnCheckPeer(d)

SafeSpec == Init /\ [][Next]_vars

-----------------------------------------------------------------------------
TypeOK ==
  /\ lan \in BOOLEAN /\ running \subseteq Peers
  /\ pipe \in [Nodes -> [sessions : SUBSET Addrs, kcp : SUBSET Addrs]]
  /\ \A n \in Nodes : pipe[n].kcp \subseteq pipe[n].sessions
  /\ login \in [Peers -> {"idle", "trying", "in"}]
  /\ connectTo \in [Peers -> [Peers -> Entry]]
  /\ accepted \in [Peers -> SUBSET PeerAddrs]
  /\ burrow \in [Peers -> [PeerAddrs -> {"none", "target", "client"}]]
  /\ peerData \subseteq Peers /\ net \subseteq Datagram /\ asked \subseteq Peers \X Peers
  /\ lost \in BOOLEAN /\ events \in 0 .. MaxEvents

\* Nobody is told of a new connection (onPipeNewKcpCreateCallback, tag 1) but
\* from a peer whose application called connectToPeer for it, and no channel
\* exists that neither end asked for, whatever the network repeats or delays.
NobodyUninvited ==
  \A p \in Peers :
    /\ \A a \in accepted[p] : <<Owner(a), p>> \in asked
    /\ \A a \in pipe[p].kcp : <<Owner(a), p>> \in asked \/ <<p, Owner(a)>> \in asked

\* A connection that was reported as a success has a kcp channel until the
\* application is told of its end (onPipeRemoveSessionCallback).
ChannelBacked ==
  \A p, q \in Peers : connectTo[p][q].state = "CONNECT" =>
    {Public(q), connectTo[p][q].addr} \cap pipe[p].kcp # {}

\* As long as no session was removed, two peers that connect to each other at
\* the same time never both take themselves for the accepting end.
Undisturbed == ~lost /\ \A d \in net : d.kind # "DISCONNECT"
RolesDiffer ==
  Undisturbed => \A p, q \in Peers : \A make \in {"public", "local"} :
    ~(<<make, q>> \in accepted[p] /\ <<make, p>> \in accepted[q])

\* Status 3 of the connect callback: the target is connected to this peer as a
\* client.  So whenever AnswerClientSession can be taken, there is a channel.
Waits(p, q) == connectTo[p][q].state \in {"CHECKING", "CONNECTING"}
ClientStatusTrue ==
  \A d \in {d \in net : d.kind = "CHECK_PEER_RESULT"} :
    LET p == Owner(d.to)
    IN Waits(p, d.toKey) /\ d.tarAddr \in accepted[p] => d.tarAddr \in pipe[p].kcp
=============================================================================
