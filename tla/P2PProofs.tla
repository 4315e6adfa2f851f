----------------------------- MODULE P2PProofs -----------------------------
(***************************************************************************)
(* The peers and the turn of P2P, for any set of peers, over a network     *)
(* that loses, repeats, delays and reorders.                               *)
(***************************************************************************)
EXTENDS P2P, TLAPS

-----------------------------------------------------------------------------
(* Addresses.                                                              *)

LEMMA Addresses ==
  /\ \A n \in Nodes : /\ Owner(Public(n)) = n /\ Owner(Local(n)) = n
                      /\ Public(n)[1] = "public" /\ Local(n)[1] = "local"
  /\ \A n, m \in Nodes : /\ Public(n) # Local(m) /\ Public(n) # NoAddr /\ Local(n) # NoAddr
                         /\ Public(n) = Public(m) => n = m
                         /\ Local(n) = Local(m) => n = m
  /\ Turn \in Nodes /\ Turn \notin Peers /\ Peers \subseteq Nodes
  /\ PeerAddrs \subseteq Addrs /\ Public(Turn) \in Addrs /\ Public(Turn) \notin PeerAddrs
BY TurnAssumption DEF Owner, Public, Local, NoAddr, Nodes, PeerAddrs, Addrs

LEMMA AddrCases ==
  ASSUME NEW a \in Addrs
  PROVE  /\ a = Public(Turn) \/ a \in PeerAddrs
         /\ a \in PeerAddrs => /\ Owner(a) \in Peers
                               /\ a = Public(Owner(a)) \/ a = Local(Owner(a))
BY Addresses DEF PeerAddrs, Addrs

(* What a peer at the address that a sees sends and gets.                  *)
LEMMA Sources ==
  ASSUME NEW p \in Peers
  PROVE  /\ \A a \in Addrs : SourceTo(p, a) \in PeerAddrs /\ Owner(SourceTo(p, a)) = p
         /\ SourceTo(p, Public(Turn)) = Public(p)
         /\ SourceTo(Turn, Public(p)) = Public(Turn)
         /\ \A q \in Peers : /\ SourceTo(p, Public(q)) = Public(p)
                             /\ SourceTo(p, Local(q)) = Local(p)
BY Addresses DEF SourceTo, PeerAddrs

-----------------------------------------------------------------------------
(* Where a datagram of each kind may come from and go to.                  *)

BetweenPeers(d) ==
  /\ d.kind \in {"PING", "PONG", "DISCONNECT", "HELLO", "CREATE_KCP", "CREATE_KCP_RESULT"}
  /\ d.from \in PeerAddrs /\ d.to \in PeerAddrs
  /\ d.from = SourceTo(Owner(d.from), d.to) /\ d.to = SourceTo(Owner(d.to), d.from)

ToTurn(d) ==
  /\ d.kind \in {"PING", "PONG", "DISCONNECT", "LOGIN", "CHECK_PEER"}
  /\ d.to = Public(Turn) /\ \E p \in Peers : d.from = Public(p)

FromTurn(d) ==
  /\ d.kind \in {"PING", "PONG", "LOGIN_RESULT", "CHECK_PEER_RESULT", "START_BURROW"}
  /\ d.from = Public(Turn) /\ \E p \in Peers : d.to = Public(p)

Routed(d) == d \in Datagram /\ (BetweenPeers(d) \/ ToTurn(d) \/ FromTurn(d))

LEMMA PeerSends ==
  ASSUME NEW p \in Peers, NEW a \in PeerAddrs
  PROVE  /\ \A kind \in {"PING", "PONG", "DISCONNECT", "CREATE_KCP", "CREATE_KCP_RESULT"} :
              Routed(To(p, a, kind))
         /\ \A role \in {"client", "target"} : Routed(Hello(p, a, role))
<1>1. /\ SourceTo(p, a) \in PeerAddrs /\ Owner(SourceTo(p, a)) = p
      /\ SourceTo(p, a) \in Addrs /\ a \in Addrs
      /\ a = SourceTo(Owner(a), SourceTo(p, a))
  BY Addresses, AddrCases, Sources
<1>2. ASSUME NEW kind \in {"PING", "PONG", "DISCONNECT", "CREATE_KCP", "CREATE_KCP_RESULT"}
      PROVE  Routed(To(p, a, kind))
  <2>1. BetweenPeers(To(p, a, kind))
    BY <1>1 DEF To, BetweenPeers
  <2>2. To(p, a, kind) \in Datagram
    BY <1>1 DEF To, Datagram
  <2>3. QED
    BY <2>1, <2>2 DEF Routed
<1>3. ASSUME NEW role \in {"client", "target"}
      PROVE  Routed(Hello(p, a, role))
  <2>1. BetweenPeers(Hello(p, a, role))
    BY <1>1 DEF Hello, BetweenPeers
  <2>2. Hello(p, a, role) \in Datagram
    BY <1>1 DEF Hello, Datagram
  <2>3. QED
    BY <2>1, <2>2 DEF Routed
<1>4. QED
  BY <1>2, <1>3

LEMMA PeerSendsTurn ==
  ASSUME NEW p \in Peers
  PROVE  /\ \A kind \in {"PING", "PONG", "DISCONNECT", "LOGIN"} : Routed(To(p, Public(Turn), kind))
         /\ \A q \in Peers : Routed(CheckPeer(p, q))
<1>1. /\ SourceTo(p, Public(Turn)) = Public(p)
      /\ Public(p) \in Addrs /\ Public(Turn) \in Addrs
  BY Addresses, Sources DEF Addrs, PeerAddrs
<1>2. ASSUME NEW kind \in {"PING", "PONG", "DISCONNECT", "LOGIN"}
      PROVE  Routed(To(p, Public(Turn), kind))
  <2>1. ToTurn(To(p, Public(Turn), kind))
    BY <1>1 DEF To, ToTurn
  <2>2. To(p, Public(Turn), kind) \in Datagram
    BY <1>1 DEF To, Datagram
  <2>3. QED
    BY <2>1, <2>2 DEF Routed
<1>3. ASSUME NEW q \in Peers
      PROVE  Routed(CheckPeer(p, q))
  <2>1. ToTurn(CheckPeer(p, q))
    BY <1>1 DEF CheckPeer, ToTurn
  <2>2. CheckPeer(p, q) \in Datagram
    BY <1>1 DEF CheckPeer, Datagram
  <2>3. QED
    BY <2>1, <2>2 DEF Routed
<1>4. QED
  BY <1>2, <1>3

LEMMA TurnSends ==
  ASSUME NEW p \in Peers
  PROVE  /\ \A kind \in {"PING", "PONG", "LOGIN_RESULT"} : Routed(To(Turn, Public(p), kind))
         /\ \A key \in PeerAddrs : Routed(StartBurrow(p, key))
         /\ \A q \in Peers, code \in 0 .. 2, addr \in PeerAddrs :
              Routed(CheckPeerResult(p, q, code, addr))
<1>1. /\ SourceTo(Turn, Public(p)) = Public(Turn)
      /\ Public(p) \in Addrs /\ Public(Turn) \in Addrs
  BY Addresses, Sources DEF Addrs, PeerAddrs
<1>2. ASSUME NEW kind \in {"PING", "PONG", "LOGIN_RESULT"}
      PROVE  Routed(To(Turn, Public(p), kind))
  <2>1. FromTurn(To(Turn, Public(p), kind))
    BY <1>1 DEF To, FromTurn
  <2>2. To(Turn, Public(p), kind) \in Datagram
    BY <1>1 DEF To, Datagram
  <2>3. QED
    BY <2>1, <2>2 DEF Routed
<1>3. ASSUME NEW key \in PeerAddrs
      PROVE  Routed(StartBurrow(p, key))
  <2>1. FromTurn(StartBurrow(p, key))
    BY <1>1 DEF StartBurrow, FromTurn
  <2>2. StartBurrow(p, key) \in Datagram
    BY <1>1 DEF StartBurrow, Datagram
  <2>3. QED
    BY <2>1, <2>2 DEF Routed
<1>4. ASSUME NEW q \in Peers, NEW code \in 0 .. 2, NEW addr \in PeerAddrs
      PROVE  Routed(CheckPeerResult(p, q, code, addr))
  <2>1. FromTurn(CheckPeerResult(p, q, code, addr))
    BY <1>1 DEF CheckPeerResult, FromTurn
  <2>2. CheckPeerResult(p, q, code, addr) \in Datagram
    BY <1>1 DEF CheckPeerResult, Datagram
  <2>3. QED
    BY <2>1, <2>2 DEF Routed
<1>5. QED
  BY <1>2, <1>3, <1>4

(* What a peer reads, and the fields it uses.                              *)
LEMMA PeerGets ==
  ASSUME NEW d, Routed(d), NEW p \in Peers, d.to \in {Public(p), Local(p)}
  PROVE  /\ d.from \in Addrs /\ Owner(d.to) = p /\ d.to = SourceTo(p, d.from)
         /\ d.kind \in {"DISCONNECT", "HELLO", "CREATE_KCP", "CREATE_KCP_RESULT"} =>
              d.from \in PeerAddrs /\ d.from = SourceTo(Owner(d.from), d.to)
         /\ d.kind = "HELLO" => d.isClient \in BOOLEAN
         /\ d.kind = "START_BURROW" => d.key \in PeerAddrs
         /\ d.kind = "CHECK_PEER_RESULT" => /\ d.toKey \in Peers /\ d.tarAddr \in PeerAddrs
                                            /\ d.code \in 0 .. 2
<1>1. Owner(d.to) = p /\ d.to # Public(Turn)
  BY Addresses
<1>2. BetweenPeers(d) \/ FromTurn(d)
  BY <1>1 DEF Routed, ToTurn
<1>3. d \in Datagram
  BY DEF Routed
<1>4. d.from \in Addrs /\ d.to = SourceTo(p, d.from)
  BY <1>1, <1>2, Addresses, Sources DEF BetweenPeers, FromTurn
<1>5. d.kind \in {"DISCONNECT", "HELLO", "CREATE_KCP", "CREATE_KCP_RESULT"} =>
        d.from \in PeerAddrs /\ d.from = SourceTo(Owner(d.from), d.to)
  BY <1>2 DEF BetweenPeers, FromTurn
<1>6. d.kind = "HELLO" => d.isClient \in BOOLEAN
  BY <1>3 DEF Datagram
<1>7. d.kind = "START_BURROW" => d.key \in PeerAddrs
  BY <1>3 DEF Datagram
<1>8. d.kind = "CHECK_PEER_RESULT" => /\ d.toKey \in Peers /\ d.tarAddr \in PeerAddrs
                                      /\ d.code \in 0 .. 2
  BY <1>3 DEF Datagram
<1>9. QED
  BY <1>1, <1>4, <1>5, <1>6, <1>7, <1>8

LEMMA TurnGets ==
  ASSUME NEW d, Routed(d), d.to = Public(Turn)
  PROVE  /\ Owner(d.from) \in Peers /\ d.from = Public(Owner(d.from)) /\ d.from \in Addrs
         /\ d.kind = "CHECK_PEER" => d.toKey \in Peers
<1>1. ToTurn(d)
  BY Addresses DEF Routed, BetweenPeers, FromTurn
<1>2. d.kind = "CHECK_PEER" => d.toKey \in Peers
  BY DEF Routed, Datagram
<1>3. QED
  BY <1>1, <1>2, Addresses DEF ToTurn, Addrs, PeerAddrs

-----------------------------------------------------------------------------
(* The types.  What is sent is of a kind its sender sends, and the turn    *)
(* has a session only with peers: the type invariant needs that no         *)
(* CREATE_KCP_RESULT and no START_BURROW names the turn as a peer.         *)

PeersTyped ==
  /\ login \in [Peers -> {"idle", "trying", "in"}]
  /\ connectTo \in [Peers -> [Peers -> Entry]]
  /\ accepted \in [Peers -> SUBSET PeerAddrs]
  /\ burrow \in [Peers -> [PeerAddrs -> {"none", "target", "client"}]]

Pipe == [sessions : SUBSET Addrs, kcp : SUBSET Addrs]

PipesTyped ==
  /\ pipe \in [Nodes -> Pipe]
  /\ \A n \in Nodes : pipe[n].kcp \subseteq pipe[n].sessions
  /\ pipe[Turn].sessions \subseteq {Public(p) : p \in Peers}

NetRouted == \A d \in net : Routed(d)

RestTyped ==
  /\ lan \in BOOLEAN /\ running \subseteq Peers
  /\ peerData \subseteq Peers /\ asked \subseteq Peers \X Peers
  /\ lost \in BOOLEAN /\ events \in 0 .. MaxEvents

TypeInv == PeersTyped /\ PipesTyped /\ NetRouted /\ RestTyped

LEMMA TypeInvIsTyped == TypeInv => TypeOK
<1>1. NetRouted => net \subseteq Datagram
  BY DEF NetRouted, Routed
<1>2. QED
  BY <1>1 DEF TypeInv, TypeOK, PeersTyped, PipesTyped, RestTyped, Pipe

LEMMA PipeOperations ==
  ASSUME NEW s \in Pipe, s.kcp \subseteq s.sessions, NEW a \in Addrs
  PROVE  /\ LET t == RecvData(s, a)
            IN  /\ t \in Pipe /\ t.sessions = s.sessions \cup {a} /\ t.kcp = s.kcp
                /\ IsNewKcp(t, a) <=> a \notin s.kcp
         /\ LET t == CreateKcp(RecvData(s, a), a)
            IN  t \in Pipe /\ t.sessions = s.sessions \cup {a} /\ t.kcp = s.kcp \cup {a}
         /\ LET t == RemoveSession(s, a)
            IN  t \in Pipe /\ t.sessions = s.sessions \ {a} /\ t.kcp = s.kcp \ {a}
<1>1. LET t == RecvData(s, a)
      IN  /\ t \in Pipe /\ t.sessions = s.sessions \cup {a} /\ t.kcp = s.kcp
          /\ IsNewKcp(t, a) <=> a \notin s.kcp
  BY DEF RecvData, Pipe, IsNewKcp
<1>2. LET t == CreateKcp(RecvData(s, a), a)
      IN  t \in Pipe /\ t.sessions = s.sessions \cup {a} /\ t.kcp = s.kcp \cup {a}
  <2> DEFINE r == RecvData(s, a)
  <2>1. r \in Pipe /\ r.sessions = s.sessions \cup {a} /\ r.kcp = s.kcp
    BY <1>1
  <2>2. IsNewKcp(r, a) <=> a \notin s.kcp
    BY <1>1
  <2> HIDE DEF r
  <2>3. LET t == CreateKcp(r, a)
        IN  t \in Pipe /\ t.sessions = s.sessions \cup {a} /\ t.kcp = s.kcp \cup {a}
    BY <2>1, <2>2 DEF CreateKcp, Pipe
  <2>4. QED
    BY <2>3 DEF r
<1>3. LET t == RemoveSession(s, a)
      IN  t \in Pipe /\ t.sessions = s.sessions \ {a} /\ t.kcp = s.kcp \ {a}
  BY DEF RemoveSession, Pipe
<1>4. QED
  BY <1>1, <1>2, <1>3

(* The pipe of one node changes.                                           *)
LEMMA PipesFrame ==
  ASSUME PipesTyped, NEW n \in Nodes, NEW s \in Pipe, pipe' = [pipe EXCEPT ![n] = s],
         s.kcp \subseteq s.sessions,
         n = Turn => s.sessions \subseteq {Public(p) : p \in Peers}
  PROVE  PipesTyped'
BY DEF PipesTyped

(* What arrives: a session for its sender, and a channel when kcp is made. *)
LEMMA PipesHear ==
  ASSUME PipesTyped, NEW n \in Nodes, NEW a \in Addrs,
         n = Turn => \E p \in Peers : a = Public(p),
         \/ pipe' = [pipe EXCEPT ![n] = RecvData(@, a)]
         \/ pipe' = [pipe EXCEPT ![n] = CreateKcp(RecvData(@, a), a)]
         \/ pipe' = [pipe EXCEPT ![n] = RemoveSession(@, a)]
  PROVE  PipesTyped'
<1>1. pipe[n] \in Pipe /\ pipe[n].kcp \subseteq pipe[n].sessions
  BY DEF PipesTyped
<1>2. PICK s : /\ pipe' = [pipe EXCEPT ![n] = s]
               /\ s \in {RecvData(pipe[n], a), CreateKcp(RecvData(pipe[n], a), a),
                         RemoveSession(pipe[n], a)}
  OBVIOUS
<1>3. s \in Pipe /\ s.kcp \subseteq s.sessions /\ s.sessions \subseteq pipe[n].sessions \cup {a}
  BY <1>1, <1>2, PipeOperations
<1>4. n = Turn => s.sessions \subseteq {Public(p) : p \in Peers}
  BY <1>3 DEF PipesTyped
<1>5. QED
  BY <1>2, <1>3, <1>4, PipesFrame

(* What the callbacks and startBurrow do to a peer.                        *)
LEMMA EntryChanges ==
  ASSUME NEW e \in Entry, NEW addr \in PeerAddrs \cup {NoAddr},
         NEW state \in {"none", "CHECKING", "CONNECTING", "CONNECT"}
  PROVE  /\ [e EXCEPT !.state = state] \in Entry
         /\ [e EXCEPT !.state = state].state = state /\ [e EXCEPT !.state = state].addr = e.addr
         /\ [state |-> state, addr |-> addr] \in Entry
         /\ NoEntry \in Entry /\ NoEntry.state = "none" /\ NoEntry.addr = NoAddr
BY DEF Entry, NoEntry

LEMMA SessionRemoveTyped ==
  ASSUME PeersTyped, NEW p \in Peers, NEW a \in Addrs, OnSessionRemove(p, a)
  PROVE  PeersTyped'
<1>1. NoEntry \in Entry
  BY DEF NoEntry, Entry
<1>2. CASE a = Public(Turn)
  BY <1>2 DEF OnSessionRemove, PeersTyped
<1>3. CASE a # Public(Turn) /\ Entries(p, a) = {}
  <2>1. accepted' = [accepted EXCEPT ![p] = @ \ {a}] /\ UNCHANGED <<login, connectTo, burrow>>
    BY <1>3 DEF OnSessionRemove
  <2>2. QED
    BY <2>1 DEF PeersTyped
<1>4. CASE a # Public(Turn) /\ Entries(p, a) # {}
  <2>1. PICK q \in Peers : /\ connectTo' = [connectTo EXCEPT ![p][q] = NoEntry]
                           /\ UNCHANGED <<login, accepted, burrow>>
    BY <1>4 DEF OnSessionRemove, Entries, ByKey, ByAddr
  <2>2. QED
    BY <1>1, <2>1 DEF PeersTyped
<1>5. QED
  BY <1>2, <1>3, <1>4

LEMMA KcpCreatedTyped ==
  ASSUME PeersTyped, NEW p \in Peers, NEW a \in PeerAddrs, OnKcpCreated(p, a)
  PROVE  PeersTyped'
<1>1. burrow' = [burrow EXCEPT ![p][a] = "none"] /\ UNCHANGED <<login, accepted>>
  BY DEF OnKcpCreated
<1>2. connectTo' \in [Peers -> [Peers -> Entry]]
  <2>1. CASE Entries(p, a) = {}
    BY <2>1 DEF OnKcpCreated, PeersTyped
  <2>2. CASE Entries(p, a) # {}
    <3>1. PICK q \in Peers : connectTo' = [connectTo EXCEPT ![p][q].state = "CONNECT"]
      BY <2>2 DEF OnKcpCreated, Entries, ByKey, ByAddr
    <3>2. connectTo[p][q] \in Entry
      BY DEF PeersTyped
    <3>3. PICK e \in Entry : connectTo' = [connectTo EXCEPT ![p][q] = e]
      BY <3>1, <3>2, EntryChanges
    <3>4. QED
      BY <3>3 DEF PeersTyped
  <2>3. QED
    BY <2>1, <2>2
<1>3. QED
  BY <1>1, <1>2 DEF PeersTyped

LEMMA KcpAcceptedTyped ==
  ASSUME PeersTyped, NEW p \in Peers, NEW a \in PeerAddrs, OnKcpAccepted(p, a)
  PROVE  PeersTyped'
BY DEF OnKcpAccepted, PeersTyped

LEMMA BurrowTyped ==
  ASSUME PeersTyped, NetRouted, NEW p \in Peers, NEW a \in PeerAddrs,
         NEW role \in {"client", "target"}, Burrow(p, a, role)
  PROVE  burrow' \in [Peers -> [PeerAddrs -> {"none", "target", "client"}]] /\ NetRouted'
<1>1. burrow' \in [Peers -> [PeerAddrs -> {"none", "target", "client"}]]
  BY DEF Burrow, PeersTyped
<1>2. net' \subseteq net \cup {Hello(p, a, role)}
  BY DEF Burrow
<1>3. QED
  BY <1>1, <1>2, PeerSends DEF NetRouted

-----------------------------------------------------------------------------
LEMMA TypeInit == Init => TypeInv
<1> SUFFICES ASSUME Init PROVE TypeInv
  OBVIOUS
<1>1. PeersTyped
  BY DEF Init, PeersTyped, Entry, NoEntry
<1>2. PipesTyped
  BY DEF Init, PipesTyped, Pipe, EmptyPipe, Nodes
<1>3. NetRouted
  BY PeerSendsTurn DEF Init, NetRouted
<1>4. RestTyped
  <2>1. events \in 0 .. MaxEvents
    BY BoundsAssumption DEF Init
  <2>2. QED
    BY <2>1 DEF Init, RestTyped
<1>5. QED
  BY <1>1, <1>2, <1>3, <1>4 DEF TypeInv

(* Ping, Disconnect and Stop send to whom there is a session with.         *)
LEMMA NodeSends ==
  ASSUME PipesTyped, NEW n \in Nodes, NEW a \in pipe[n].sessions
  PROVE  /\ a \in Addrs
         /\ Routed(To(n, a, "PING"))
         /\ n # Turn => Routed(To(n, a, "DISCONNECT"))
<1>1. a \in Addrs
  BY DEF PipesTyped, Pipe
<1>2. CASE n = Turn
  <2>1. PICK p \in Peers : a = Public(p)
    BY <1>2 DEF PipesTyped
  <2>2. QED
    BY <1>1, <1>2, <2>1, TurnSends
<1>3. CASE n \in Peers
  BY <1>1, <1>3, Addresses, AddrCases, PeerSends, PeerSendsTurn
<1>4. QED
  BY <1>2, <1>3 DEF Nodes

(* A step of a peer's own.                                                 *)
LEMMA TypePeerStep ==
  ASSUME TypeInv, NEW p \in Peers,
         \/ RestartConnectTurn(p) \/ ConnectTurnFails(p) \/ Stop(p)
         \/ \E q \in Peers : ConnectToPeer(p, q) \/ ConnectTimesOut(p, q)
         \/ \E a \in PeerAddrs : Disconnect(p, a) \/ BurrowEnds(p, a)
  PROVE  TypeInv'
<1> USE DEF TypeInv
<1>1. Counts => events' \in 0 .. MaxEvents
  BY BoundsAssumption DEF Counts, RestTyped
<1>2. CASE RestartConnectTurn(p)
  <2>1. PeersTyped'
    BY <1>2 DEF RestartConnectTurn, PeersTyped
  <2>2. PipesTyped'
    BY <1>2 DEF RestartConnectTurn, PipesTyped
  <2>3. NetRouted'
    BY <1>2, PeerSendsTurn DEF RestartConnectTurn, NetRouted
  <2>4. RestTyped'
    BY <1>1, <1>2 DEF RestartConnectTurn, Acts, RestTyped
  <2>5. QED
    BY <2>1, <2>2, <2>3, <2>4
<1>3. CASE ConnectTurnFails(p)
  BY <1>3 DEF ConnectTurnFails, Acts, PeersTyped, PipesTyped, NetRouted, RestTyped
<1>4. CASE Stop(p)
  <2>1. PeersTyped'
    BY <1>4 DEF Stop, PeersTyped, NoEntry, Entry
  <2>2. PipesTyped'
    <3>1. /\ EmptyPipe \in Pipe /\ EmptyPipe.kcp \subseteq EmptyPipe.sessions
          /\ p \in Nodes /\ p # Turn
      BY Addresses DEF EmptyPipe, Pipe
    <3>2. QED
      BY <1>4, <3>1, PipesFrame DEF Stop
  <2>3. NetRouted'
    BY <1>4, NodeSends, Addresses DEF Stop, NetRouted
  <2>4. RestTyped'
    BY <1>1, <1>4 DEF Stop, RestTyped
  <2>5. QED
    BY <2>1, <2>2, <2>3, <2>4
<1>5. ASSUME NEW q \in Peers, ConnectToPeer(p, q)
      PROVE  TypeInv'
  <2>1. PeersTyped'
    <3>1. [state |-> "CHECKING", addr |-> NoAddr] \in Entry
      BY DEF Entry
    <3>2. QED
      BY <1>5, <3>1 DEF ConnectToPeer, PeersTyped
  <2>2. PipesTyped'
    BY <1>5 DEF ConnectToPeer, PipesTyped
  <2>3. NetRouted'
    BY <1>5, PeerSendsTurn DEF ConnectToPeer, NetRouted
  <2>4. RestTyped'
    BY <1>1, <1>5 DEF ConnectToPeer, Acts, RestTyped
  <2>5. QED
    BY <2>1, <2>2, <2>3, <2>4
<1>6. ASSUME NEW q \in Peers, ConnectTimesOut(p, q)
      PROVE  TypeInv'
  <2>1. PeersTyped'
    BY <1>6 DEF ConnectTimesOut, PeersTyped, NoEntry, Entry
  <2>2. PipesTyped' /\ NetRouted' /\ RestTyped'
    BY <1>6 DEF ConnectTimesOut, Acts, PipesTyped, NetRouted, RestTyped
  <2>3. QED
    BY <2>1, <2>2
<1>7. ASSUME NEW a \in PeerAddrs, Disconnect(p, a)
      PROVE  TypeInv'
  <2>1. PeersTyped' /\ PipesTyped'
    BY <1>7 DEF Disconnect, peerVars, PeersTyped, PipesTyped
  <2>2. NetRouted'
    BY <1>7, NodeSends, Addresses DEF Disconnect, NetRouted
  <2>3. RestTyped'
    BY <1>1, <1>7 DEF Disconnect, Acts, RestTyped
  <2>4. QED
    BY <2>1, <2>2, <2>3
<1>8. ASSUME NEW a \in PeerAddrs, BurrowEnds(p, a)
      PROVE  TypeInv'
  <2>1. PeersTyped'
    BY <1>8 DEF BurrowEnds, PeersTyped
  <2>2. PipesTyped' /\ NetRouted' /\ RestTyped'
    BY <1>8 DEF BurrowEnds, Acts, PipesTyped, NetRouted, RestTyped
  <2>3. QED
    BY <2>1, <2>2
<1>9. QED
  BY <1>2, <1>3, <1>4, <1>5, <1>6, <1>7, <1>8

LEMMA TypeNodeStep ==
  ASSUME TypeInv, NEW n \in Nodes, NEW a \in pipe[n].sessions, Ping(n, a) \/ Silence(n, a)
  PROVE  TypeInv'
<1> USE DEF TypeInv
<1>1. a \in Addrs /\ (n = Turn => \E p \in Peers : a = Public(p))
  BY DEF PipesTyped, Pipe
<1>2. Counts => events' \in 0 .. MaxEvents
  BY BoundsAssumption DEF Counts, RestTyped
<1>3. CASE Ping(n, a)
  <2>1. PeersTyped' /\ PipesTyped'
    BY <1>3 DEF Ping, peerVars, PeersTyped, PipesTyped
  <2>2. NetRouted'
    BY <1>3, NodeSends DEF Ping, NetRouted
  <2>3. RestTyped'
    BY <1>2, <1>3 DEF Ping, RestTyped
  <2>4. QED
    BY <2>1, <2>2, <2>3
<1>4. CASE Silence(n, a)
  <2>1. PipesTyped'
    BY <1>1, <1>4, PipesHear DEF Silence
  <2>2. NetRouted'
    BY <1>4 DEF Silence, NetRouted
  <2>3. PeersTyped'
    <3>1. CASE n = Turn
      BY <1>4, <3>1 DEF Silence, peerVars, PeersTyped
    <3>2. CASE n # Turn
      BY <1>1, <1>4, <3>2, SessionRemoveTyped DEF Silence, Nodes
    <3>3. QED
      BY <3>1, <3>2
  <2>4. RestTyped'
    <3>1. peerData' \subseteq Peers /\ lost' \in BOOLEAN /\ UNCHANGED <<lan, running, asked>>
      BY <1>4 DEF Silence, RestTyped
    <3>2. events' \in 0 .. MaxEvents
      BY <1>2, <1>4 DEF Silence
    <3>3. QED
      BY <3>1, <3>2 DEF RestTyped
  <2>5. QED
    BY <2>1, <2>2, <2>3, <2>4
<1>5. QED
  BY <1>3, <1>4

LEMMA TypePeerReads ==
  ASSUME TypeInv, NEW p \in Peers, NEW d \in net, PeerReads(p, d)
  PROVE  TypeInv'
<1> USE DEF TypeInv
<1>1. Reads(p, d)
  BY DEF PeerReads, OnPing, OnPong, OnCreateKcp, OnCreateKcpResult, OnDisconnect, OnLoginResult,
         OnStartBurrow, OnHello, Checked, AnswerClientSession, AnswerNotFound, BurrowToTarget,
         OnResultTooLate
<1>2. /\ d.from \in Addrs
      /\ d.kind \in {"DISCONNECT", "HELLO", "CREATE_KCP", "CREATE_KCP_RESULT"} =>
           d.from \in PeerAddrs
      /\ d.kind = "START_BURROW" => d.key \in PeerAddrs
      /\ d.kind = "CHECK_PEER_RESULT" => d.toKey \in Peers /\ d.tarAddr \in PeerAddrs
  BY <1>1, PeerGets DEF Reads, NetRouted
<1>3. p \in Nodes /\ p # Turn
  BY Addresses
<1>4. PipesTyped'
  <2>1. \/ pipe' = [pipe EXCEPT ![p] = RecvData(@, d.from)]
        \/ pipe' = [pipe EXCEPT ![p] = CreateKcp(RecvData(@, d.from), d.from)]
        \/ pipe' = [pipe EXCEPT ![p] = RemoveSession(@, d.from)]
    BY DEF PeerReads, OnPing, OnPong, OnCreateKcp, OnCreateKcpResult, OnDisconnect,
           OnLoginResult, OnStartBurrow, OnHello, Checked, AnswerClientSession, AnswerNotFound,
           BurrowToTarget, OnResultTooLate, Hears
  <2>2. QED
    BY <1>2, <1>3, <2>1, PipesHear
<1>5. RestTyped'
  BY <1>1 DEF Reads, Acts, RestTyped
<1>6. CASE OnPing(p, d)
  <2>1. Routed(To(p, d.from, "PONG"))
    BY <1>2, AddrCases, PeerSends, PeerSendsTurn
  <2>2. PeersTyped' /\ NetRouted'
    BY <1>6, <2>1 DEF OnPing, peerVars, PeersTyped, NetRouted
  <2>3. QED
    BY <1>4, <1>5, <2>2
<1>7. CASE OnPong(p, d) \/ OnResultTooLate(p, d)
  BY <1>4, <1>5, <1>7 DEF OnPong, OnResultTooLate, peerVars, PeersTyped, NetRouted
<1>8. CASE OnCreateKcp(p, d)
  <2>1. d.from \in PeerAddrs
    BY <1>2, <1>8 DEF OnCreateKcp
  <2>2. NetRouted'
    BY <1>8, <2>1, PeerSends DEF OnCreateKcp, NetRouted
  <2>3. PeersTyped'
    BY <1>8, <2>1, KcpCreatedTyped DEF OnCreateKcp, peerVars, PeersTyped
  <2>4. QED
    BY <1>4, <1>5, <2>2, <2>3
<1>9. CASE OnCreateKcpResult(p, d)
  <2>1. d.from \in PeerAddrs
    BY <1>2, <1>9 DEF OnCreateKcpResult
  <2>2. NetRouted'
    BY <1>9 DEF OnCreateKcpResult, NetRouted
  <2>3. PeersTyped'
    BY <1>9, <2>1, KcpAcceptedTyped DEF OnCreateKcpResult, peerVars, PeersTyped
  <2>4. QED
    BY <1>4, <1>5, <2>2, <2>3
<1>10. CASE OnDisconnect(p, d)
  <2>1. PeersTyped'
    BY <1>2, <1>10, SessionRemoveTyped DEF OnDisconnect
  <2>2. NetRouted'
    BY <1>10 DEF OnDisconnect, NetRouted
  <2>3. QED
    BY <1>4, <1>5, <2>1, <2>2
<1>11. CASE OnLoginResult(p, d)
  <2>1. PeersTyped'
    BY <1>11 DEF OnLoginResult, PeersTyped
  <2>2. NetRouted'
    BY <1>11 DEF OnLoginResult, NetRouted
  <2>3. QED
    BY <1>4, <1>5, <2>1, <2>2
<1>12. CASE OnStartBurrow(p, d)
  <2>1. d.key \in PeerAddrs /\ Burrow(p, d.key, "target") /\ UNCHANGED <<login, connectTo, accepted>>
    BY <1>2, <1>12 DEF OnStartBurrow
  <2>2. burrow' \in [Peers -> [PeerAddrs -> {"none", "target", "client"}]] /\ NetRouted'
    BY <2>1, BurrowTyped
  <2>3. QED
    BY <1>4, <1>5, <2>1, <2>2 DEF PeersTyped
<1>13. CASE OnHello(p, d)
  <2>1. d.from \in PeerAddrs
    BY <1>2, <1>13 DEF OnHello
  <2>2. NetRouted'
    <3>1. net' \subseteq net \cup {To(p, d.from, "CREATE_KCP")}
      BY <1>13 DEF OnHello
    <3>2. QED
      BY <2>1, <3>1, PeerSends DEF NetRouted
  <2>3. PeersTyped'
    BY <1>13 DEF OnHello, peerVars, PeersTyped
  <2>4. QED
    BY <1>4, <1>5, <2>2, <2>3
<1>14. CASE AnswerClientSession(p, d) \/ AnswerNotFound(p, d)
  <2>1. d.toKey \in Peers /\ NoEntry \in Entry
    BY <1>2, <1>14 DEF AnswerClientSession, AnswerNotFound, Checked, NoEntry, Entry
  <2>2. connectTo' = [connectTo EXCEPT ![p][d.toKey] = NoEntry] /\ UNCHANGED <<login, accepted, net, burrow>>
    BY <1>14 DEF AnswerClientSession, AnswerNotFound, Checked
  <2>3. QED
    BY <1>4, <1>5, <2>1, <2>2 DEF PeersTyped, NetRouted
<1>15. CASE BurrowToTarget(p, d)
  <2>1. d.toKey \in Peers /\ d.tarAddr \in PeerAddrs
    BY <1>2, <1>15 DEF BurrowToTarget, Checked
  <2>2. [state |-> "CONNECTING", addr |-> d.tarAddr] \in Entry
    BY <2>1 DEF Entry
  <2>3. /\ connectTo' = [connectTo EXCEPT ![p][d.toKey] = [state |-> "CONNECTING", addr |-> d.tarAddr]]
        /\ UNCHANGED <<login, accepted>> /\ Burrow(p, d.tarAddr, "client")
    BY <1>15 DEF BurrowToTarget, Checked
  <2>4. burrow' \in [Peers -> [PeerAddrs -> {"none", "target", "client"}]] /\ NetRouted'
    BY <2>1, <2>3, BurrowTyped
  <2>5. QED
    BY <1>4, <1>5, <2>1, <2>2, <2>3, <2>4 DEF PeersTyped
<1>16. QED
  BY <1>6, <1>7, <1>8, <1>9, <1>10, <1>11, <1>12, <1>13, <1>14, <1>15 DEF PeerReads

LEMMA TypeTurnReads ==
  ASSUME TypeInv, NEW d \in net,
         TurnOnPing(d) \/ TurnOnPong(d) \/ TurnOnDisconnect(d) \/ OnLogin(d) \/ OnCheckPeer(d)
  PROVE  TypeInv'
<1> USE DEF TypeInv
<1>1. PICK kind : TurnReads(d, kind)
  BY DEF TurnOnPing, TurnOnPong, TurnOnDisconnect, OnLogin, OnCheckPeer
<1>2. /\ Owner(d.from) \in Peers /\ d.from = Public(Owner(d.from)) /\ d.from \in Addrs
      /\ d.kind = "CHECK_PEER" => d.toKey \in Peers
  BY <1>1, TurnGets DEF TurnReads, NetRouted
<1>3. PeersTyped'
  BY <1>1 DEF TurnReads, peerVars, PeersTyped
<1>4. PipesTyped'
  <2>1. \/ pipe' = [pipe EXCEPT ![Turn] = RecvData(@, d.from)]
        \/ pipe' = [pipe EXCEPT ![Turn] = RemoveSession(@, d.from)]
    BY <1>1 DEF TurnReads
  <2>2. QED
    BY <1>2, <2>1, PipesHear, Addresses
<1>5. RestTyped'
  <2>1. peerData' \subseteq Peers
    BY <1>2 DEF TurnOnPing, TurnOnPong, TurnOnDisconnect, OnLogin, OnCheckPeer, RestTyped
  <2>2. QED
    BY <1>1, <2>1 DEF TurnReads, RestTyped
<1>6. NetRouted'
  <2>1. CASE TurnOnPing(d)
    BY <1>2, <2>1, TurnSends DEF TurnOnPing, NetRouted
  <2>2. CASE TurnOnPong(d) \/ TurnOnDisconnect(d)
    BY <2>2 DEF TurnOnPong, TurnOnDisconnect, NetRouted
  <2>3. CASE OnLogin(d)
    BY <1>2, <2>3, TurnSends DEF OnLogin, NetRouted
  <2>4. CASE OnCheckPeer(d)
    <3>1. PICK code \in 0 .. 2, addr \in {Local(d.toKey), Public(d.toKey)} :
            net' \subseteq net \cup {CheckPeerResult(Owner(d.from), d.toKey, code, addr),
                                     StartBurrow(d.toKey, Public(Owner(d.from)))}
      BY <2>4 DEF OnCheckPeer
    <3>2. d.toKey \in Peers
      BY <1>2, <2>4 DEF OnCheckPeer, TurnReads
    <3>3. addr \in PeerAddrs /\ Public(Owner(d.from)) \in PeerAddrs
      BY <1>2, <3>1, <3>2 DEF PeerAddrs
    <3>4. /\ Routed(CheckPeerResult(Owner(d.from), d.toKey, code, addr))
          /\ Routed(StartBurrow(d.toKey, Public(Owner(d.from))))
      BY <1>2, <3>2, <3>3, TurnSends
    <3>5. QED
      BY <3>1, <3>4 DEF NetRouted
  <2>5. QED
    BY <2>1, <2>2, <2>3, <2>4
<1>7. QED
  BY <1>3, <1>4, <1>5, <1>6

LEMMA TypeStep == TypeInv /\ [Next]_vars => TypeInv'
<1> SUFFICES ASSUME TypeInv, [Next]_vars PROVE TypeInv'
  OBVIOUS
<1>1. CASE UNCHANGED vars
  BY <1>1 DEF vars, peerVars, TypeInv, PeersTyped, PipesTyped, NetRouted, RestTyped
<1>2. CASE Next
  BY <1>2, TypePeerStep, TypeNodeStep, TypePeerReads, TypeTurnReads DEF Next
<1>3. QED
  BY <1>1, <1>2

\* Every state of the peers, the turn and the network is one of the program's:
\* nothing that is read names a peer, an address or an entry that is not there.
THEOREM TypeCorrect == SafeSpec => []TypeOK
BY TypeInit, TypeStep, TypeInvIsTyped, PTL DEF SafeSpec

-----------------------------------------------------------------------------
(* The invariant.  A datagram is the trace of what its sender had done: it *)
(* is read long after, but net and asked only grow, so what it says of     *)
(* them is still true.                                                     *)

Invited(d) ==
  /\ d.kind = "CHECK_PEER" => <<Owner(d.from), d.toKey>> \in asked
  /\ d.kind = "CHECK_PEER_RESULT" =>
       <<Owner(d.to), d.toKey>> \in asked /\ d.tarAddr \in {Public(d.toKey), Local(d.toKey)}
  /\ d.kind = "HELLO" /\ d.isClient => <<Owner(d.from), Owner(d.to)>> \in asked
  /\ d.kind = "CREATE_KCP" => <<Owner(d.to), Owner(d.from)>> \in asked
  /\ d.kind = "CREATE_KCP_RESULT" => <<Owner(d.from), Owner(d.to)>> \in asked

AllInvited == \A d \in net : Invited(d)

(* The address of an entry is one of the peer's that the entry is for.     *)
EntriesNamed ==
  \A p, q \in Peers : connectTo[p][q].addr \in {NoAddr, Public(q), Local(q)}

(* A peer accepts a channel only of one that said it has its end of it,    *)
(* and says so only when it has.                                           *)
Opened(q, a) == [from |-> a, to |-> SourceTo(q, a), kind |-> "CREATE_KCP_RESULT"]

AcceptedAnswered == \A p \in Peers : \A a \in accepted[p] : Opened(p, a) \in net

OpenedHeld ==
  Undisturbed => \A d \in net : d.kind = "CREATE_KCP_RESULT" => d.to \in pipe[Owner(d.from)].kcp

SafeInv ==
  /\ AllInvited /\ EntriesNamed /\ NobodyUninvited /\ ChannelBacked
  /\ AcceptedAnswered /\ OpenedHeld /\ RolesDiffer

LEMMA SafeInit == Init => SafeInv
<1> SUFFICES ASSUME Init PROVE SafeInv
  OBVIOUS
<1>1. \A d \in net : d.kind = "LOGIN"
  BY DEF Init, To
<1>2. \A p \in Peers : accepted[p] = {} /\ pipe[p].kcp = {}
  BY Addresses DEF Init, EmptyPipe
<1>3. \A p, q \in Peers : connectTo[p][q].state = "none" /\ connectTo[p][q].addr = NoAddr
  BY DEF Init, NoEntry
<1>4. AllInvited
  BY <1>1 DEF AllInvited, Invited
<1>5. EntriesNamed /\ ChannelBacked
  BY <1>3 DEF EntriesNamed, ChannelBacked
<1>6. NobodyUninvited /\ AcceptedAnswered /\ RolesDiffer
  BY <1>2 DEF NobodyUninvited, AcceptedAnswered, RolesDiffer
<1>7. OpenedHeld
  BY <1>1 DEF OpenedHeld
<1>8. QED
  BY <1>4, <1>5, <1>6, <1>7 DEF SafeInv

(* What was sent and asked for stays so, and so does a disturbance.        *)
Grows == net \subseteq net' /\ asked \subseteq asked' /\ (lost => lost')

LEMMA DisturbanceStays == ASSUME Grows, Undisturbed' PROVE Undisturbed
BY DEF Grows, Undisturbed

LEMMA InvitedFrame ==
  ASSUME AllInvited, Grows, \A d \in net' : d \in net \/ Invited(d)'
  PROVE  AllInvited'
<1>1. ASSUME NEW d \in net
      PROVE  Invited(d)'
  BY <1>1 DEF AllInvited, Invited, Grows
<1>2. QED
  BY <1>1 DEF AllInvited

LEMMA Harmless ==
  ASSUME NEW d, d.kind \in {"PING", "PONG", "DISCONNECT", "LOGIN", "LOGIN_RESULT", "START_BURROW"}
  PROVE  Invited(d)'
BY DEF Invited

(* A step that makes no channel and ends none.                             *)
Channels == /\ AcceptedAnswered /\ NobodyUninvited /\ ChannelBacked /\ OpenedHeld /\ RolesDiffer

LEMMA ChannelsFrame ==
  ASSUME TypeInv, Channels, Grows, accepted' = accepted,
         \A p \in Peers : pipe'[p].kcp = pipe[p].kcp,
         \A p, q \in Peers : connectTo'[p][q].state = "CONNECT" => connectTo'[p][q] = connectTo[p][q],
         \A d \in net' : d.kind = "CREATE_KCP_RESULT" => d \in net
  PROVE  Channels'
<1> USE DEF Channels
<1>1. NobodyUninvited'
  BY DEF NobodyUninvited, Grows
<1>2. ChannelBacked'
  BY DEF ChannelBacked
<1>3. AcceptedAnswered'
  BY DEF AcceptedAnswered, Grows
<1>4. RolesDiffer'
  <2>1. Undisturbed' => Undisturbed
    BY DisturbanceStays
  <2>2. QED
    BY <2>1 DEF RolesDiffer
<1>5. OpenedHeld'
  <2>1. Undisturbed' => Undisturbed
    BY DisturbanceStays
  <2>2. \A d \in net : d.kind = "CREATE_KCP_RESULT" => Owner(d.from) \in Peers
    BY AddrCases, Addresses
    DEF TypeInv, NetRouted, Routed, BetweenPeers, ToTurn, FromTurn
  <2>3. QED
    BY <2>1, <2>2 DEF OpenedHeld
<1>6. QED
  BY <1>1, <1>2, <1>3, <1>4, <1>5

-----------------------------------------------------------------------------
(* A session is removed: the entry it belongs to goes with its channel.    *)
LEMMA EntryOf ==
  ASSUME EntriesNamed, NEW p \in Peers, NEW q \in Peers, NEW a \in PeerAddrs,
         connectTo[p][q].state # "none", a \in {Public(q), connectTo[p][q].addr}
  PROVE  Entries(p, a) = {q}
<1>1. \A r \in Peers : connectTo[p][r].addr = a => r = Owner(a)
  BY Addresses, AddrCases DEF EntriesNamed
<1>2. \A r \in Peers : Public(r) = a => r = Owner(a)
  BY Addresses
<1>3. Owner(a) = q
  BY <1>1, <1>2
<1>4. CASE a = Public(q)
  BY <1>2, <1>3, <1>4 DEF Entries, ByKey
<1>5. CASE a # Public(q)
  <2>1. ByKey(p, a) = {}
    BY <1>2, <1>3, <1>5 DEF ByKey
  <2>2. ByAddr(p, a) = {q}
    BY <1>1, <1>3, <1>5 DEF ByAddr
  <2>3. QED
    BY <2>1, <2>2 DEF Entries
<1>6. QED
  BY <1>4, <1>5

LEMMA SessionRemoveKeeps ==
  ASSUME TypeInv, EntriesNamed, NobodyUninvited, ChannelBacked, AcceptedAnswered, Grows,
         NEW p \in Peers, NEW a \in Addrs, OnSessionRemove(p, a),
         pipe'[p].kcp = pipe[p].kcp \ {a},
         \A r \in Peers \ {p} : pipe'[r].kcp = pipe[r].kcp
  PROVE  EntriesNamed' /\ NobodyUninvited' /\ ChannelBacked' /\ AcceptedAnswered'
<1>1. connectTo \in [Peers -> [Peers -> Entry]] /\ accepted \in [Peers -> SUBSET PeerAddrs]
  BY DEF TypeInv, PeersTyped
<1>2. accepted' = accepted \/ accepted' = [accepted EXCEPT ![p] = @ \ {a}]
  BY DEF OnSessionRemove
<1>3. \A r \in Peers : accepted'[r] \subseteq accepted[r] /\ pipe'[r].kcp \subseteq pipe[r].kcp
  BY <1>1, <1>2
<1>4. NobodyUninvited' /\ AcceptedAnswered'
  BY <1>3 DEF NobodyUninvited, AcceptedAnswered, Grows
<1>5. \/ connectTo' = connectTo /\ (a = Public(Turn) \/ Entries(p, a) = {})
      \/ \E q \in Entries(p, a) : connectTo' = [connectTo EXCEPT ![p][q] = NoEntry]
  BY DEF OnSessionRemove
<1>6. ASSUME NEW q \in Peers, NEW r \in Peers
      PROVE  connectTo'[q][r] = connectTo[q][r] \/ connectTo'[q][r] = NoEntry
  BY <1>1, <1>5 DEF Entries, ByKey, ByAddr
<1>7. EntriesNamed'
  BY <1>6 DEF EntriesNamed, NoEntry
<1>8. ASSUME NEW q \in Peers, NEW r \in Peers, connectTo'[q][r].state = "CONNECT"
      PROVE  {Public(r), connectTo'[q][r].addr} \cap pipe'[q].kcp # {}
  <2>1. connectTo'[q][r] = connectTo[q][r]
    BY <1>6, <1>8 DEF NoEntry
  <2>2. {Public(r), connectTo[q][r].addr} \cap pipe[q].kcp # {}
    BY <1>8, <2>1 DEF ChannelBacked
  <2>3. CASE q # p
    BY <2>1, <2>2, <2>3
  <2>4. CASE q = p /\ a \notin {Public(r), connectTo[p][r].addr}
    BY <2>1, <2>2, <2>4
  <2>5. CASE q = p /\ a \in {Public(r), connectTo[p][r].addr}
    <3>1. a \in PeerAddrs /\ a # Public(Turn)
      BY <2>5, Addresses DEF EntriesNamed, Addrs, PeerAddrs
    <3>2. Entries(p, a) = {r}
      BY <1>8, <2>1, <2>5, <3>1, EntryOf
    <3>3. connectTo' = [connectTo EXCEPT ![p][r] = NoEntry]
      BY <1>5, <3>1, <3>2
    <3>4. connectTo'[q][r].state = "none"
      BY <1>1, <2>5, <3>3 DEF NoEntry
    <3>5. QED
      BY <1>8, <3>4
  <2>6. QED
    BY <2>3, <2>4, <2>5
<1>9. QED
  BY <1>4, <1>7, <1>8 DEF ChannelBacked

(* The pipes of the peers after the pipe of one of them has changed.       *)
LEMMA ChannelOf ==
  ASSUME PipesTyped, NEW n \in Nodes, NEW a \in Addrs
  PROVE  /\ pipe' = [pipe EXCEPT ![n] = RecvData(@, a)] =>
              \A r \in Nodes : pipe'[r].kcp = pipe[r].kcp
         /\ pipe' = [pipe EXCEPT ![n] = CreateKcp(RecvData(@, a), a)] =>
              /\ pipe'[n].kcp = pipe[n].kcp \cup {a}
              /\ \A r \in Nodes \ {n} : pipe'[r].kcp = pipe[r].kcp
         /\ pipe' = [pipe EXCEPT ![n] = RemoveSession(@, a)] =>
              /\ pipe'[n].kcp = pipe[n].kcp \ {a}
              /\ \A r \in Nodes \ {n} : pipe'[r].kcp = pipe[r].kcp
         /\ IsNewKcp(RecvData(pipe[n], a), a) <=> a \notin pipe[n].kcp
<1>1. /\ pipe \in [Nodes -> Pipe] /\ pipe[n] \in Pipe
      /\ pipe[n].kcp \subseteq pipe[n].sessions
  BY DEF PipesTyped
<1>2. /\ RecvData(pipe[n], a).kcp = pipe[n].kcp
      /\ CreateKcp(RecvData(pipe[n], a), a).kcp = pipe[n].kcp \cup {a}
      /\ RemoveSession(pipe[n], a).kcp = pipe[n].kcp \ {a}
      /\ IsNewKcp(RecvData(pipe[n], a), a) <=> a \notin pipe[n].kcp
  BY <1>1, PipeOperations
<1>3. QED
  BY <1>1, <1>2

-----------------------------------------------------------------------------
(* Each step.                                                              *)

LEMMA SafePeerStep ==
  ASSUME TypeInv, SafeInv, NEW p \in Peers,
         \/ RestartConnectTurn(p) \/ ConnectTurnFails(p) \/ Stop(p)
         \/ \E q \in Peers : ConnectToPeer(p, q) \/ ConnectTimesOut(p, q)
         \/ \E a \in PeerAddrs : Disconnect(p, a) \/ BurrowEnds(p, a)
  PROVE  SafeInv'
<1> USE DEF SafeInv, Channels
<1>1. connectTo \in [Peers -> [Peers -> Entry]] /\ accepted \in [Peers -> SUBSET PeerAddrs]
  BY DEF TypeInv, PeersTyped
<1>2. CASE RestartConnectTurn(p)
  <2>1. /\ UNCHANGED <<pipe, connectTo, accepted, asked, lost>>
        /\ net' = net \cup {To(p, Public(Turn), "LOGIN")}
        /\ To(p, Public(Turn), "LOGIN").kind = "LOGIN"
    BY <1>2 DEF RestartConnectTurn, To
  <2>2. Grows
    BY <2>1 DEF Grows
  <2>3. AllInvited' /\ Channels'
    BY <2>1, <2>2, InvitedFrame, Harmless, ChannelsFrame
  <2>4. QED
    BY <2>1, <2>3 DEF EntriesNamed
<1>3. CASE ConnectTurnFails(p) \/ \E a \in PeerAddrs : BurrowEnds(p, a)
  <2>1. UNCHANGED <<pipe, connectTo, accepted, net, asked, lost>>
    BY <1>3 DEF ConnectTurnFails, BurrowEnds
  <2>2. Grows
    BY <2>1 DEF Grows
  <2>3. AllInvited' /\ Channels'
    BY <2>1, <2>2, InvitedFrame, ChannelsFrame
  <2>4. QED
    BY <2>1, <2>3 DEF EntriesNamed
<1>4. ASSUME NEW q \in Peers, ConnectToPeer(p, q)
      PROVE  SafeInv'
  <2>1. /\ UNCHANGED <<pipe, accepted, lost>>
        /\ net' = net \cup {CheckPeer(p, q)} /\ asked' = asked \cup {<<p, q>>}
        /\ connectTo' = [connectTo EXCEPT ![p][q] = [state |-> "CHECKING", addr |-> NoAddr]]
    BY <1>4 DEF ConnectToPeer
  <2>2. Grows
    BY <2>1 DEF Grows
  <2>3. CheckPeer(p, q).kind = "CHECK_PEER" /\ Invited(CheckPeer(p, q))'
    BY <2>1, Addresses DEF CheckPeer, Invited
  <2>4. \A r, s \in Peers : \/ connectTo'[r][s] = connectTo[r][s]
                            \/ connectTo'[r][s] = [state |-> "CHECKING", addr |-> NoAddr]
    BY <1>1, <2>1
  <2>5. AllInvited'
    BY <2>1, <2>2, <2>3, InvitedFrame
  <2>6. Channels'
    BY <2>1, <2>2, <2>3, <2>4, ChannelsFrame
  <2>7. QED
    BY <2>4, <2>5, <2>6 DEF EntriesNamed
<1>5. ASSUME NEW q \in Peers, ConnectTimesOut(p, q)
      PROVE  SafeInv'
  <2>1. /\ UNCHANGED <<pipe, accepted, net, asked, lost>>
        /\ connectTo' = [connectTo EXCEPT ![p][q] = NoEntry]
    BY <1>5 DEF ConnectTimesOut
  <2>2. Grows
    BY <2>1 DEF Grows
  <2>3. \A r, s \in Peers : connectTo'[r][s] = connectTo[r][s] \/ connectTo'[r][s] = NoEntry
    BY <1>1, <2>1
  <2>4. AllInvited' /\ Channels'
    BY <2>1, <2>2, <2>3, InvitedFrame, ChannelsFrame DEF NoEntry
  <2>5. QED
    BY <2>3, <2>4 DEF EntriesNamed, NoEntry
<1>6. ASSUME NEW a \in PeerAddrs, Disconnect(p, a)
      PROVE  SafeInv'
  <2>1. /\ UNCHANGED <<pipe, connectTo, accepted, asked, lost>>
        /\ net' = net \cup {To(p, a, "DISCONNECT")}
        /\ To(p, a, "DISCONNECT").kind = "DISCONNECT"
    BY <1>6 DEF Disconnect, peerVars, To
  <2>2. Grows
    BY <2>1 DEF Grows
  <2>3. AllInvited' /\ Channels'
    BY <2>1, <2>2, InvitedFrame, Harmless, ChannelsFrame
  <2>4. QED
    BY <2>1, <2>3 DEF EntriesNamed
<1>7. CASE Stop(p)
  <2>1. /\ UNCHANGED <<asked, lost>>
        /\ net' = net \cup {To(p, a, "DISCONNECT") : a \in pipe[p].sessions}
        /\ pipe' = [pipe EXCEPT ![p] = EmptyPipe]
        /\ connectTo' = [connectTo EXCEPT ![p] = [q \in Peers |-> NoEntry]]
        /\ accepted' = [accepted EXCEPT ![p] = {}]
    BY <1>7 DEF Stop
  <2>2. Grows
    BY <2>1 DEF Grows
  <2>3. \A d \in net' : d \in net \/ d.kind = "DISCONNECT"
    BY <2>1 DEF To
  <2>4. /\ pipe \in [Nodes -> Pipe] /\ p \in Nodes /\ Peers \subseteq Nodes
        /\ pipe[p].kcp \subseteq pipe[p].sessions
    BY Addresses DEF TypeInv, PipesTyped
  <2>5. /\ pipe'[p].kcp = {}
        /\ \A r \in Peers \ {p} : pipe'[r].kcp = pipe[r].kcp
        /\ accepted'[p] = {} /\ \A r \in Peers \ {p} : accepted'[r] = accepted[r]
    BY <1>1, <2>1, <2>4 DEF EmptyPipe
  <2>6. \A q, r \in Peers : IF q = p THEN connectTo'[q][r] = NoEntry
                                     ELSE connectTo'[q][r] = connectTo[q][r]
    BY <1>1, <2>1
  <2>7. AllInvited'
    BY <2>2, <2>3, InvitedFrame, Harmless
  <2>8. EntriesNamed'
    BY <2>6 DEF EntriesNamed, NoEntry
  <2>9. ChannelBacked'
    BY <2>5, <2>6 DEF ChannelBacked, NoEntry
  <2>10. NobodyUninvited'
    BY <2>2, <2>5 DEF NobodyUninvited, Grows
  <2>11. AcceptedAnswered'
    BY <2>2, <2>5 DEF AcceptedAnswered, Grows
  <2>12. RolesDiffer'
    BY <2>2, <2>5, DisturbanceStays DEF RolesDiffer
  <2>13. OpenedHeld'
    <3>1. ASSUME Undisturbed'
          PROVE  pipe'[p].kcp = pipe[p].kcp /\ Undisturbed
      <4>1. pipe[p].sessions = {}
        <5>1. \A a \in pipe[p].sessions : To(p, a, "DISCONNECT") \in net'
          BY <2>1
        <5>2. \A a : To(p, a, "DISCONNECT").kind = "DISCONNECT"
          BY DEF To
        <5>3. \A d \in net' : d.kind # "DISCONNECT"
          BY <3>1 DEF Undisturbed
        <5>4. QED
          BY <5>1, <5>2, <5>3
      <4>2. QED
        BY <2>2, <2>4, <2>5, <3>1, <4>1, DisturbanceStays
    <3>2. \A d \in net' : d.kind = "CREATE_KCP_RESULT" => d \in net /\ Owner(d.from) \in Peers
      BY <2>3, AddrCases, Addresses
      DEF TypeInv, NetRouted, Routed, BetweenPeers, ToTurn, FromTurn
    <3>3. QED
      BY <2>5, <3>1, <3>2 DEF OpenedHeld
  <2>14. QED
    BY <2>7, <2>8, <2>9, <2>10, <2>11, <2>12, <2>13
<1>8. QED
  BY <1>2, <1>3, <1>4, <1>5, <1>6, <1>7

LEMMA SafeNodeStep ==
  ASSUME TypeInv, SafeInv, NEW n \in Nodes, NEW a \in pipe[n].sessions, Ping(n, a) \/ Silence(n, a)
  PROVE  SafeInv'
<1> USE DEF SafeInv, Channels
<1>1. a \in Addrs /\ PipesTyped /\ Peers \subseteq Nodes
  BY Addresses DEF TypeInv, PipesTyped, Pipe
<1>2. CASE Ping(n, a)
  <2>1. /\ UNCHANGED <<pipe, connectTo, accepted, asked, lost>>
        /\ net' = net \cup {To(n, a, "PING")} /\ To(n, a, "PING").kind = "PING"
    BY <1>2 DEF Ping, peerVars, To
  <2>2. Grows
    BY <2>1 DEF Grows
  <2>3. AllInvited' /\ Channels'
    BY <2>1, <2>2, InvitedFrame, Harmless, ChannelsFrame
  <2>4. QED
    BY <2>1, <2>3 DEF EntriesNamed
<1>3. CASE Silence(n, a)
  <2>1. /\ UNCHANGED <<asked, net>> /\ lost' = TRUE
        /\ pipe' = [pipe EXCEPT ![n] = RemoveSession(@, a)]
    BY <1>3 DEF Silence
  <2>2. Grows /\ ~Undisturbed'
    BY <2>1 DEF Grows, Undisturbed
  <2>3. AllInvited'
    BY <2>1, <2>2, InvitedFrame
  <2>4. OpenedHeld' /\ RolesDiffer'
    BY <2>2 DEF OpenedHeld, RolesDiffer
  <2>5. pipe'[n].kcp = pipe[n].kcp \ {a} /\ \A r \in Nodes \ {n} : pipe'[r].kcp = pipe[r].kcp
    BY <1>1, <2>1, ChannelOf
  <2>6. CASE n = Turn
    <3>1. UNCHANGED <<connectTo, accepted>>
      BY <1>3, <2>6 DEF Silence, peerVars
    <3>2. Channels'
      BY <1>1, <2>1, <2>2, <2>5, <2>6, <3>1, ChannelsFrame, TurnAssumption
    <3>3. QED
      BY <2>3, <3>1, <3>2 DEF EntriesNamed
  <2>7. CASE n # Turn
    <3>1. n \in Peers /\ OnSessionRemove(n, a)
      BY <1>3, <2>7 DEF Silence, Nodes
    <3>2. EntriesNamed' /\ NobodyUninvited' /\ ChannelBacked' /\ AcceptedAnswered'
      BY <1>1, <2>2, <2>5, <3>1, SessionRemoveKeeps
    <3>3. QED
      BY <2>3, <2>4, <3>2
  <2>8. QED
    BY <2>6, <2>7
<1>4. QED
  BY <1>2, <1>3

(* A peer reads a datagram that makes no channel and ends none.            *)
LEMMA SafeQuietRead ==
  ASSUME TypeInv, SafeInv, NEW p \in Peers, NEW d \in net,
         \/ OnPing(p, d) \/ OnPong(p, d) \/ OnLoginResult(p, d) \/ OnStartBurrow(p, d)
         \/ OnHello(p, d) \/ AnswerClientSession(p, d) \/ AnswerNotFound(p, d)
         \/ BurrowToTarget(p, d) \/ OnResultTooLate(p, d)
  PROVE  SafeInv'
<1> USE DEF SafeInv, Channels
<1>1. Reads(p, d) /\ Hears(p, d)
  BY DEF OnPing, OnPong, OnLoginResult, OnStartBurrow, OnHello, Checked, AnswerClientSession,
         AnswerNotFound, BurrowToTarget, OnResultTooLate
<1>2. /\ Routed(d) /\ Invited(d) /\ d.to \in {Public(p), Local(p)}
      /\ UNCHANGED <<asked, lost>>
  BY <1>1 DEF Reads, TypeInv, NetRouted, AllInvited
<1>3. /\ d.from \in Addrs /\ Owner(d.to) = p /\ d.to = SourceTo(p, d.from)
      /\ d.kind = "HELLO" => d.from \in PeerAddrs /\ d.isClient \in BOOLEAN
      /\ d.kind = "CHECK_PEER_RESULT" => d.toKey \in Peers /\ d.tarAddr \in PeerAddrs
  BY <1>2, PeerGets
<1>4. \A r \in Peers : pipe'[r].kcp = pipe[r].kcp
  BY <1>1, <1>3, ChannelOf, Addresses DEF Hears, TypeInv
<1>5. connectTo \in [Peers -> [Peers -> Entry]]
  BY DEF TypeInv, PeersTyped
<1>6. ASSUME connectTo' = connectTo, accepted' = accepted,
             \/ net' = net
             \/ \E e : net' = net \cup {e} /\ e.kind # "CREATE_KCP_RESULT" /\ Invited(e)'
      PROVE  SafeInv'
  <2>1. Grows
    BY <1>2, <1>6 DEF Grows
  <2>2. AllInvited'
    BY <1>6, <2>1, InvitedFrame
  <2>3. Channels'
    BY <1>4, <1>6, <2>1, ChannelsFrame
  <2>4. QED
    BY <1>6, <2>2, <2>3 DEF EntriesNamed
<1>7. CASE OnPing(p, d)
  <2>1. To(p, d.from, "PONG").kind = "PONG"
    BY DEF To
  <2>2. QED
    BY <1>6, <1>7, <2>1, Harmless DEF OnPing, peerVars
<1>8. CASE OnPong(p, d) \/ OnLoginResult(p, d) \/ OnResultTooLate(p, d)
  BY <1>6, <1>8 DEF OnPong, OnLoginResult, OnResultTooLate, peerVars
<1>9. CASE OnStartBurrow(p, d)
  <2>1. /\ Burrow(p, d.key, "target") /\ UNCHANGED <<connectTo, accepted>>
    BY <1>9 DEF OnStartBurrow
  <2>2. Hello(p, d.key, "target").kind = "HELLO" /\ Invited(Hello(p, d.key, "target"))'
    BY DEF Hello, Invited
  <2>3. QED
    BY <1>6, <2>1, <2>2 DEF Burrow
<1>10. CASE OnHello(p, d)
  <2>1. UNCHANGED <<connectTo, accepted>>
    BY <1>10 DEF OnHello, peerVars
  <2>2. CASE ~d.isClient
    BY <1>6, <1>10, <2>1, <2>2 DEF OnHello
  <2>3. CASE d.isClient
    <3>1. d.kind = "HELLO" /\ net' = net \cup {To(p, d.from, "CREATE_KCP")}
      BY <1>10, <2>3 DEF OnHello
    <3>2. <<Owner(d.from), p>> \in asked'
      BY <1>2, <1>3, <2>3, <3>1 DEF Invited
    <3>3. To(p, d.from, "CREATE_KCP") = [from |-> d.to, to |-> d.from, kind |-> "CREATE_KCP"]
      BY <1>3 DEF To
    <3>4. /\ To(p, d.from, "CREATE_KCP").kind = "CREATE_KCP"
          /\ Invited(To(p, d.from, "CREATE_KCP"))'
      BY <1>3, <3>2, <3>3 DEF Invited
    <3>5. QED
      BY <1>6, <2>1, <3>1, <3>4
  <2>4. QED
    BY <2>2, <2>3
<1>11. CASE AnswerClientSession(p, d) \/ AnswerNotFound(p, d)
  <2>1. /\ connectTo' = [connectTo EXCEPT ![p][d.toKey] = NoEntry]
        /\ UNCHANGED <<accepted, net>> /\ d.kind = "CHECK_PEER_RESULT"
    BY <1>11 DEF AnswerClientSession, AnswerNotFound, Checked
  <2>2. Grows
    BY <1>2, <2>1 DEF Grows
  <2>3. \A r, s \in Peers : connectTo'[r][s] = connectTo[r][s] \/ connectTo'[r][s] = NoEntry
    BY <1>3, <1>5, <2>1
  <2>4. AllInvited'
    BY <2>1, <2>2, InvitedFrame
  <2>5. Channels'
    BY <1>4, <2>1, <2>2, <2>3, ChannelsFrame DEF NoEntry
  <2>6. QED
    BY <2>3, <2>4, <2>5 DEF EntriesNamed, NoEntry
<1>12. CASE BurrowToTarget(p, d)
  <2>1. /\ connectTo' = [connectTo EXCEPT ![p][d.toKey] =
                           [state |-> "CONNECTING", addr |-> d.tarAddr]]
        /\ Burrow(p, d.tarAddr, "client") /\ accepted' = accepted
        /\ d.kind = "CHECK_PEER_RESULT"
    BY <1>12 DEF BurrowToTarget, Checked
  <2>2. /\ <<p, d.toKey>> \in asked' /\ d.tarAddr \in {Public(d.toKey), Local(d.toKey)}
        /\ d.toKey \in Peers /\ d.tarAddr \in PeerAddrs /\ Owner(d.tarAddr) = d.toKey
    BY <1>2, <1>3, <2>1, Addresses DEF Invited
  <2>3. Invited(Hello(p, d.tarAddr, "client"))'
    <3>1. Owner(SourceTo(p, d.tarAddr)) = p
      BY <2>2, Sources, Addresses
    <3>2. QED
      BY <2>2, <3>1 DEF Hello, Invited
  <2>4. net' \subseteq net \cup {Hello(p, d.tarAddr, "client")} /\ net \subseteq net'
    BY <2>1 DEF Burrow
  <2>5. Hello(p, d.tarAddr, "client").kind = "HELLO"
    BY DEF Hello
  <2>6. Grows
    BY <1>2, <2>4 DEF Grows
  <2>7. \A r, s \in Peers :
          \/ connectTo'[r][s] = connectTo[r][s]
          \/ s = d.toKey /\ connectTo'[r][s] = [state |-> "CONNECTING", addr |-> d.tarAddr]
    BY <1>5, <2>1, <2>2
  <2>8. AllInvited'
    BY <2>3, <2>4, <2>6, InvitedFrame
  <2>9. Channels'
    BY <1>4, <2>1, <2>4, <2>5, <2>6, <2>7, ChannelsFrame
  <2>10. EntriesNamed'
    BY <2>2, <2>7 DEF EntriesNamed
  <2>11. QED
    BY <2>8, <2>9, <2>10
<1>13. QED
  BY <1>7, <1>8, <1>9, <1>10, <1>11, <1>12

(* The other end has a channel and asks for ours: made, and answered.      *)
LEMMA SafeCreateKcp ==
  ASSUME TypeInv, SafeInv, NEW p \in Peers, NEW d \in net, OnCreateKcp(p, d)
  PROVE  SafeInv'
<1> USE DEF SafeInv, Channels
<1>1. /\ Routed(d) /\ Invited(d) /\ d.to \in {Public(p), Local(p)} /\ d.kind = "CREATE_KCP"
      /\ UNCHANGED <<asked, lost>> /\ net' = net \cup {To(p, d.from, "CREATE_KCP_RESULT")}
      /\ pipe' = [pipe EXCEPT ![p] = CreateKcp(RecvData(@, d.from), d.from)]
  BY DEF OnCreateKcp, Reads, TypeInv, NetRouted, AllInvited
<1>2. /\ d.from \in PeerAddrs /\ d.from \in Addrs /\ Owner(d.to) = p
      /\ d.to = SourceTo(p, d.from)
  BY <1>1, PeerGets
<1>3. Grows
  BY <1>1 DEF Grows
<1>4. <<p, Owner(d.from)>> \in asked'
  BY <1>1, <1>2 DEF Invited
<1>5. /\ pipe'[p].kcp = pipe[p].kcp \cup {d.from}
      /\ \A r \in Peers \ {p} : pipe'[r].kcp = pipe[r].kcp
  <2>1. PipesTyped /\ p \in Nodes /\ Peers \subseteq Nodes
    BY Addresses DEF TypeInv
  <2>2. QED
    BY <1>1, <1>2, <2>1, ChannelOf
<1>6. /\ connectTo \in [Peers -> [Peers -> Entry]] /\ accepted' = accepted
  BY DEF TypeInv, PeersTyped, OnCreateKcp, OnKcpCreated, peerVars
<1>7. \A q, r \in Peers :
        \/ connectTo'[q][r] = connectTo[q][r]
        \/ /\ q = p /\ r \in Entries(p, d.from)
           /\ connectTo'[q][r] = [connectTo[q][r] EXCEPT !.state = "CONNECT"]
  <2>1. \/ connectTo' = connectTo
        \/ \E s \in Entries(p, d.from) : connectTo' = [connectTo EXCEPT ![p][s].state = "CONNECT"]
    BY DEF OnCreateKcp, OnKcpCreated, peerVars
  <2>2. CASE connectTo' = connectTo
    BY <2>2
  <2>3. ASSUME NEW s \in Entries(p, d.from),
               connectTo' = [connectTo EXCEPT ![p][s].state = "CONNECT"]
        PROVE  \A q, r \in Peers :
                 \/ connectTo'[q][r] = connectTo[q][r]
                 \/ /\ q = p /\ r \in Entries(p, d.from)
                    /\ connectTo'[q][r] = [connectTo[q][r] EXCEPT !.state = "CONNECT"]
    <3>1. s \in Peers
      BY DEF Entries, ByKey, ByAddr
    <3>2. QED
      BY <1>6, <2>3, <3>1
  <2>4. QED
    BY <2>1, <2>2, <2>3
<1>8. \A q, r \in Peers : connectTo'[q][r].addr = connectTo[q][r].addr
  <2>1. ASSUME NEW q \in Peers, NEW r \in Peers
        PROVE  connectTo'[q][r].addr = connectTo[q][r].addr
    <3>1. connectTo[q][r] \in Entry
      BY <1>6
    <3>2. [connectTo[q][r] EXCEPT !.state = "CONNECT"].addr = connectTo[q][r].addr
      BY <3>1 DEF Entry
    <3>3. QED
      BY <1>7, <3>2
  <2>2. QED
    BY <2>1
<1>9. EntriesNamed'
  BY <1>8 DEF EntriesNamed
<1>10. ChannelBacked'
  <2>1. ASSUME NEW q \in Peers, NEW r \in Peers, connectTo'[q][r].state = "CONNECT"
        PROVE  {Public(r), connectTo'[q][r].addr} \cap pipe'[q].kcp # {}
    <3>1. CASE connectTo'[q][r] = connectTo[q][r]
      BY <1>5, <2>1, <3>1 DEF ChannelBacked
    <3>2. CASE q = p /\ r \in Entries(p, d.from)
      <4>1. d.from \in {Public(r), connectTo[p][r].addr}
        BY <3>2 DEF Entries, ByKey, ByAddr
      <4>2. QED
        BY <1>5, <1>8, <3>2, <4>1
    <3>3. QED
      BY <1>7, <3>1, <3>2
  <2>2. QED
    BY <2>1 DEF ChannelBacked
<1>11. NobodyUninvited'
  BY <1>1, <1>4, <1>5, <1>6 DEF NobodyUninvited
<1>12. AcceptedAnswered'
  BY <1>1, <1>6 DEF AcceptedAnswered
<1>13. RolesDiffer'
  BY <1>3, <1>6, DisturbanceStays DEF RolesDiffer
<1>14. To(p, d.from, "CREATE_KCP_RESULT") =
         [from |-> d.to, to |-> d.from, kind |-> "CREATE_KCP_RESULT"]
  BY <1>2 DEF To
<1>15. AllInvited'
  <2>1. Invited(To(p, d.from, "CREATE_KCP_RESULT"))'
    BY <1>2, <1>4, <1>14 DEF Invited
  <2>2. QED
    BY <1>1, <1>3, <2>1, InvitedFrame
<1>16. OpenedHeld'
  <2>1. \A e \in net : e.kind = "CREATE_KCP_RESULT" => Owner(e.from) \in Peers
    BY AddrCases, Addresses DEF TypeInv, NetRouted, Routed, BetweenPeers, ToTurn, FromTurn
  <2>2. \A e \in net' : e.kind = "CREATE_KCP_RESULT" =>
          e \in net \/ (Owner(e.from) = p /\ e.to = d.from)
    BY <1>1, <1>2, <1>14
  <2>3. Undisturbed' => Undisturbed
    BY <1>3, DisturbanceStays
  <2>4. QED
    BY <1>5, <2>1, <2>2, <2>3 DEF OpenedHeld
<1>17. QED
  BY <1>9, <1>10, <1>11, <1>12, <1>13, <1>15, <1>16

(* The other end has made its channel: the peer accepts it, unless it has  *)
(* one of its own, and it has when the other accepted first.               *)
LEMMA SafeCreateKcpResult ==
  ASSUME TypeInv, SafeInv, NEW p \in Peers, NEW d \in net, OnCreateKcpResult(p, d)
  PROVE  SafeInv'
<1> USE DEF SafeInv, Channels
<1>1. /\ Routed(d) /\ Invited(d) /\ d.to \in {Public(p), Local(p)}
      /\ d.kind = "CREATE_KCP_RESULT" /\ UNCHANGED <<asked, lost, net>>
      /\ pipe' = [pipe EXCEPT ![p] = CreateKcp(RecvData(@, d.from), d.from)]
  BY DEF OnCreateKcpResult, Reads, TypeInv, NetRouted, AllInvited
<1>2. /\ d.from \in PeerAddrs /\ d.from \in Addrs /\ Owner(d.to) = p
      /\ d.to = SourceTo(p, d.from)
  BY <1>1, PeerGets
<1>3. <<Owner(d.from), p>> \in asked
  BY <1>1, <1>2 DEF Invited
<1>4. /\ pipe'[p].kcp = pipe[p].kcp \cup {d.from}
      /\ \A r \in Peers \ {p} : pipe'[r].kcp = pipe[r].kcp
      /\ IsNewKcp(RecvData(pipe[p], d.from), d.from) <=> d.from \notin pipe[p].kcp
  <2>1. PipesTyped /\ p \in Nodes /\ Peers \subseteq Nodes
    BY Addresses DEF TypeInv
  <2>2. QED
    BY <1>1, <1>2, <2>1, ChannelOf
<1>5. accepted \in [Peers -> SUBSET PeerAddrs]
  BY DEF TypeInv, PeersTyped
<1>6. /\ connectTo' = connectTo
      /\ \/ accepted' = accepted
         \/ d.from \notin pipe[p].kcp /\ accepted' = [accepted EXCEPT ![p] = @ \cup {d.from}]
  BY <1>4 DEF OnCreateKcpResult, OnKcpAccepted, peerVars
<1>7. \A q \in Peers : \A a \in accepted'[q] :
        a \in accepted[q] \/ (q = p /\ a = d.from /\ d.from \notin pipe[p].kcp)
  BY <1>5, <1>6
<1>8. AllInvited' /\ EntriesNamed'
  BY <1>1, <1>6 DEF AllInvited, Invited, EntriesNamed
<1>9. NobodyUninvited'
  BY <1>1, <1>3, <1>4, <1>7 DEF NobodyUninvited
<1>10. ChannelBacked'
  BY <1>4, <1>6 DEF ChannelBacked
<1>11. d = Opened(p, d.from)
  <2>1. d = [from |-> d.from, to |-> d.to, kind |-> "CREATE_KCP_RESULT"]
    BY <1>1 DEF Routed, Datagram
  <2>2. QED
    BY <1>2, <2>1 DEF Opened
<1>12. AcceptedAnswered'
  BY <1>1, <1>7, <1>11 DEF AcceptedAnswered
<1>13. OpenedHeld'
  <2>1. \A e \in net : e.kind = "CREATE_KCP_RESULT" => Owner(e.from) \in Peers
    BY AddrCases, Addresses DEF TypeInv, NetRouted, Routed, BetweenPeers, ToTurn, FromTurn
  <2>2. QED
    BY <1>1, <1>4, <2>1 DEF OpenedHeld, Undisturbed
<1>14. ASSUME Undisturbed, NEW q \in Peers, d.from \notin pipe[p].kcp, Owner(d.from) = q
       PROVE  d.to \notin accepted[q]
  <2>1. SUFFICES ASSUME d.to \in accepted[q] PROVE FALSE
    OBVIOUS
  <2>2. Opened(q, d.to) \in net
    BY <2>1 DEF AcceptedAnswered
  <2>3. d.from = SourceTo(q, d.to)
    BY <1>1, <1>14, PeerGets
  <2>4. Opened(q, d.to) = [from |-> d.to, to |-> d.from, kind |-> "CREATE_KCP_RESULT"]
    BY <2>3 DEF Opened
  <2>5. d.from \in pipe[p].kcp
    BY <1>2, <1>14, <2>2, <2>4 DEF OpenedHeld
  <2>6. QED
    BY <1>14, <2>5
<1>15. RolesDiffer'
  <2>1. SUFFICES ASSUME Undisturbed', NEW q \in Peers, NEW r \in Peers,
                        NEW make \in {"public", "local"},
                        <<make, r>> \in accepted'[q], <<make, q>> \in accepted'[r]
                 PROVE  FALSE
    BY DEF RolesDiffer
  <2>2. Undisturbed
    BY <1>1, <2>1 DEF Undisturbed
  <2>3. ~(<<make, r>> \in accepted[q] /\ <<make, q>> \in accepted[r])
    BY <2>2 DEF RolesDiffer
  <2>4. \A m \in {"public", "local"}, s \in Peers :
          d.from = <<m, s>> => Owner(d.from) = s /\ d.to = <<m, p>>
    BY <1>2 DEF Owner, SourceTo, Public, Local
  <2>5. \/ <<make, r>> = d.from /\ q = p /\ <<make, q>> \in accepted[r]
        \/ <<make, q>> = d.from /\ r = p /\ <<make, r>> \in accepted[q]
        \/ <<make, r>> = d.from /\ q = p /\ <<make, q>> = d.from
    BY <1>7, <2>1, <2>3
  <2>6. d.from \notin pipe[p].kcp
    BY <1>7, <2>1, <2>3
  <2>7. CASE <<make, r>> = d.from /\ q = p /\ <<make, q>> \in accepted[r]
    BY <1>14, <2>1, <2>2, <2>4, <2>6, <2>7
  <2>8. CASE <<make, q>> = d.from /\ r = p /\ <<make, r>> \in accepted[q]
    BY <1>14, <2>1, <2>2, <2>4, <2>6, <2>8
  <2>9. CASE <<make, r>> = d.from /\ q = p /\ <<make, q>> = d.from
    <3>1. d.to = d.from /\ Owner(d.from) = p
      BY <2>4, <2>9
    <3>2. d.to \in pipe[Owner(d.from)].kcp
      BY <1>1, <2>2 DEF OpenedHeld
    <3>3. QED
      BY <2>6, <3>1, <3>2
  <2>10. QED
    BY <2>5, <2>7, <2>8, <2>9
<1>16. QED
  BY <1>8, <1>9, <1>10, <1>12, <1>13, <1>15

LEMMA SafePeerReads ==
  ASSUME TypeInv, SafeInv, NEW p \in Peers, NEW d \in net, PeerReads(p, d)
  PROVE  SafeInv'
<1>1. CASE OnDisconnect(p, d)
  <2> USE DEF SafeInv, Channels
  <2>1. /\ d.kind = "DISCONNECT" /\ UNCHANGED <<net, asked, lost>> /\ OnSessionRemove(p, d.from)
        /\ pipe' = [pipe EXCEPT ![p] = RemoveSession(@, d.from)]
    BY <1>1 DEF OnDisconnect, Reads
  <2>2. d.from \in Addrs /\ PipesTyped /\ p \in Nodes /\ Peers \subseteq Nodes
    BY <1>1, PeerGets, Addresses DEF OnDisconnect, Reads, TypeInv, NetRouted
  <2>3. Grows /\ ~Undisturbed'
    BY <2>1 DEF Grows, Undisturbed
  <2>4. /\ pipe'[p].kcp = pipe[p].kcp \ {d.from}
        /\ \A r \in Peers \ {p} : pipe'[r].kcp = pipe[r].kcp
    BY <2>1, <2>2, ChannelOf
  <2>5. EntriesNamed' /\ NobodyUninvited' /\ ChannelBacked' /\ AcceptedAnswered'
    BY <2>1, <2>2, <2>3, <2>4, SessionRemoveKeeps
  <2>6. AllInvited'
    BY <2>1, <2>3, InvitedFrame
  <2>7. QED
    BY <2>3, <2>5, <2>6 DEF OpenedHeld, RolesDiffer
<1>2. QED
  BY <1>1, SafeQuietRead, SafeCreateKcp, SafeCreateKcpResult DEF PeerReads

LEMMA SafeTurnReads ==
  ASSUME TypeInv, SafeInv, NEW d \in net,
         TurnOnPing(d) \/ TurnOnPong(d) \/ TurnOnDisconnect(d) \/ OnLogin(d) \/ OnCheckPeer(d)
  PROVE  SafeInv'
<1> USE DEF SafeInv, Channels
<1>1. PICK kind : TurnReads(d, kind)
  BY DEF TurnOnPing, TurnOnPong, TurnOnDisconnect, OnLogin, OnCheckPeer
<1>2. /\ Routed(d) /\ Invited(d) /\ d.to = Public(Turn)
      /\ UNCHANGED <<connectTo, accepted, asked, lost>>
  BY <1>1 DEF TurnReads, peerVars, TypeInv, NetRouted, AllInvited
<1>3. /\ Owner(d.from) \in Peers /\ d.from = Public(Owner(d.from)) /\ d.from \in Addrs
      /\ d.kind = "CHECK_PEER" => d.toKey \in Peers
  BY <1>2, TurnGets
<1>4. \A r \in Peers : pipe'[r].kcp = pipe[r].kcp
  <2>1. \/ pipe' = [pipe EXCEPT ![Turn] = RecvData(@, d.from)]
        \/ pipe' = [pipe EXCEPT ![Turn] = RemoveSession(@, d.from)]
    BY <1>1 DEF TurnReads
  <2>2. PipesTyped /\ Turn \in Nodes /\ Peers \subseteq Nodes \ {Turn}
    BY Addresses DEF TypeInv
  <2>3. QED
    BY <1>3, <2>1, <2>2, ChannelOf
<1>5. ASSUME net \subseteq net',
             \A e \in net' : e \in net \/ (e.kind # "CREATE_KCP_RESULT" /\ Invited(e)')
      PROVE  SafeInv'
  <2>1. Grows
    BY <1>2, <1>5 DEF Grows
  <2>2. AllInvited'
    BY <1>5, <2>1, InvitedFrame
  <2>3. Channels'
    BY <1>2, <1>4, <1>5, <2>1, ChannelsFrame
  <2>4. QED
    BY <1>2, <2>2, <2>3 DEF EntriesNamed
<1>6. CASE TurnOnPing(d)
  <2>1. net' = net \cup {To(Turn, d.from, "PONG")} /\ To(Turn, d.from, "PONG").kind = "PONG"
    BY <1>6 DEF TurnOnPing, To
  <2>2. QED
    BY <1>5, <2>1, Harmless
<1>7. CASE TurnOnPong(d) \/ TurnOnDisconnect(d)
  BY <1>5, <1>7 DEF TurnOnPong, TurnOnDisconnect
<1>8. CASE OnLogin(d)
  <2>1. /\ net' = net \cup {To(Turn, d.from, "LOGIN_RESULT")}
        /\ To(Turn, d.from, "LOGIN_RESULT").kind = "LOGIN_RESULT"
    BY <1>8 DEF OnLogin, To
  <2>2. QED
    BY <1>5, <2>1, Harmless
<1>9. CASE OnCheckPeer(d)
  <2> DEFINE p == Owner(d.from)
  <2>1. PICK code \in 0 .. 2, addr \in {Local(d.toKey), Public(d.toKey)} :
          net' \subseteq net \cup {CheckPeerResult(p, d.toKey, code, addr),
                                 StartBurrow(d.toKey, Public(p))}
    BY <1>9 DEF OnCheckPeer
  <2>2. d.kind = "CHECK_PEER"
    BY <1>9 DEF OnCheckPeer, TurnReads
  <2>3. <<p, d.toKey>> \in asked'
    BY <1>2, <2>2 DEF Invited
  <2>4. /\ CheckPeerResult(p, d.toKey, code, addr).kind = "CHECK_PEER_RESULT"
        /\ Invited(CheckPeerResult(p, d.toKey, code, addr))'
    <3>1. Owner(Public(p)) = p
      BY <1>3, Addresses
    <3>2. QED
      BY <2>3, <3>1 DEF CheckPeerResult, Invited
  <2>5. /\ StartBurrow(d.toKey, Public(p)).kind = "START_BURROW"
        /\ Invited(StartBurrow(d.toKey, Public(p)))'
    BY DEF StartBurrow, Invited
  <2>6. net \subseteq net'
    BY <1>9 DEF OnCheckPeer
  <2>7. QED
    BY <1>5, <2>1, <2>4, <2>5, <2>6
<1>10. QED
  BY <1>6, <1>7, <1>8, <1>9

LEMMA SafeStep == TypeInv /\ SafeInv /\ [Next]_vars => SafeInv'
<1> SUFFICES ASSUME TypeInv, SafeInv, [Next]_vars PROVE SafeInv'
  OBVIOUS
<1>1. CASE UNCHANGED vars
  BY <1>1
  DEF vars, peerVars, SafeInv, AllInvited, Invited, EntriesNamed, NobodyUninvited, ChannelBacked,
      AcceptedAnswered, OpenedHeld, RolesDiffer, Undisturbed
<1>2. CASE Next
  BY <1>2, SafePeerStep, SafeNodeStep, SafePeerReads, SafeTurnReads DEF Next
<1>3. QED
  BY <1>1, <1>2

LEMMA SafeAlways == SafeSpec => [](TypeInv /\ SafeInv)
BY TypeInit, TypeStep, SafeInit, SafeStep, PTL DEF SafeSpec

\* NobodyUninvited, for any number of peers: whatever is repeated, delayed or
\* lost, an application is told of a connection only from a peer whose own
\* application called connectToPeer for it.
THEOREM UninvitedCorrect == SafeSpec => []NobodyUninvited
<1>1. SafeInv => NobodyUninvited
  BY DEF SafeInv
<1>2. QED
  BY <1>1, SafeAlways, PTL

\* ChannelBacked: a connect that was reported as a success has its channel until
\* the application is told of its end, whichever of the two addresses of the
\* peer the channel goes to.
THEOREM ChannelCorrect == SafeSpec => []ChannelBacked
<1>1. SafeInv => ChannelBacked
  BY DEF SafeInv
<1>2. QED
  BY <1>1, SafeAlways, PTL

\* RolesDiffer: two peers that connect to each other at the same time never both
\* take themselves for the accepting end, as long as no session was removed.
THEOREM RolesCorrect == SafeSpec => []RolesDiffer
<1>1. SafeInv => RolesDiffer
  BY DEF SafeInv
<1>2. QED
  BY <1>1, SafeAlways, PTL

=============================================================================
