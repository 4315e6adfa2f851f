------------------------------ MODULE P2PPipe ------------------------------
(***************************************************************************)
(* P2PPipe: the addresses a UDP socket has heard from and, for some, a kcp *)
(* channel.  A peer and a turn own one each.  A pipe is a record           *)
(*   sessions   the keys of m_allSessionDataMap                            *)
(*   kcp        those whose kcp is not NULL                                *)
(***************************************************************************)

EmptyPipe == [sessions |-> {}, kcp |-> {}]

\* recvData: whoever sends anything has a session.
RecvData(pipe, a) == [pipe EXCEPT !.sessions = @ \cup {a}]

\* Mutant: the kcp is made although there is one.
IsNewKcpAlways(pipe, a) == a \in pipe.sessions

\* createKcp makes one.
IsNewKcp(pipe, a) == a \in pipe.sessions /\ a \notin pipe.kcp

CreateKcp(pipe, a) == IF IsNewKcp(pipe, a) THEN [pipe EXCEPT !.kcp = @ \cup {a}] ELSE pipe

\* Mutant: the session goes, its kcp stays.
RemoveSessionAlone(pipe, a) == [pipe EXCEPT !.sessions = @ \ {a}]

\* onSessionRemove and erase
RemoveSession(pipe, a) == [sessions |-> pipe.sessions \ {a}, kcp |-> pipe.kcp \ {a}]
=============================================================================
