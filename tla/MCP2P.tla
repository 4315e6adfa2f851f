------------------------------- MODULE MCP2P -------------------------------
(* Instances of P2P for TLC. *)
EXTENDS P2P, TLC

CONSTANTS A, B

\* What Init comes to when both peers have logged in.
LoggedIn ==
  /\ lan \in BOOLEAN
  /\ running = Peers
  /\ pipe = [n \in Nodes |->
              [sessions |-> IF n = Turn THEN {Public(p) : p \in Peers} ELSE {Public(Turn)},
               kcp |-> {}]]
  /\ login = [p \in Peers |-> "in"]
  /\ connectTo = [p \in Peers |-> [q \in Peers |-> NoEntry]]
  /\ accepted = [p \in Peers |-> {}]
  /\ burrow = [p \in Peers |-> [a \in PeerAddrs |-> "none"]]
  /\ peerData = Peers /\ asked = {} /\ lost = FALSE /\ events = 0
  /\ net = UNION {{To(p, Public(Turn), "LOGIN"), To(Turn, Public(p), "LOGIN_RESULT")} : p \in Peers}

LoggedInSpec == LoggedIn /\ [][Next]_vars

TwoPeers == {A, B}
Symmetry == Permutations(TwoPeers)
=============================================================================
