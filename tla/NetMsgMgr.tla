------------------------------ MODULE NetMsgMgr ------------------------------
(***************************************************************************)
(* NetMsgMgr: messages and a heartbeat over the byte stream of one session.*)
(* A peer sends frames, a head of HeadLen bytes and for a message its id   *)
(* and data; the stream arrives in chunks cut anywhere.                    *)
(*                                                                         *)
(* A byte is its place in its frame; what a head says is looked up in the  *)
(* frame it belongs to.  HeadLen bytes that are no head (they come from    *)
(* the middle of a frame) may say anything.                                *)
(***************************************************************************)
EXTENDS Naturals, Sequences, FiniteSets

CONSTANTS
  HeadLen,       \* sizeof(NetMsgHead)
  IdLen,         \* sizeof(uint32_t), the message id
  MaxMsgLen,     \* NET_UV_MAX_MSG_LEN
  WriteMaxLen,   \* NET_UV_WRITE_MAX_LEN
  Fragments,     \* a block of the receive buffer holds so many fragments
  CheckTime,     \* m_heartBeatCheckTime
  LoseMaxCount,  \* m_heartBeatLoseMaxCount
  MaxFrames,     \* bound: frames of a connection
  MaxRead,       \* bound: bytes of a chunk
  Times          \* what time(NULL) may return

ASSUME NetMsgAssumption ==
  /\ {HeadLen, IdLen, WriteMaxLen, Fragments, MaxRead} \subseteq Nat \ {0}
  /\ {MaxMsgLen, CheckTime, LoseMaxCount, MaxFrames} \subseteq Nat
  /\ Times \subseteq Nat /\ Times # {}

\* A block of the receive buffer, 14000 bytes, holds a whole number of heads of 8:
\* onBuff reads a head from the first block alone.
ASSUME HeadsFitAssumption == (WriteMaxLen * Fragments) % HeadLen = 0

VARIABLES
  sent,     \* the frames of this connection, in the order they were sent
  wire,     \* the bytes sent and not yet read
  data,     \* the chunk that onBuff is working on; <<>>: onBuff is not running
  session,  \* the SessionInfo, with what its callbacks did: see NewSession
  cur,      \* m_curUpdateTime
  last      \* m_lastUpdateTime

vars == <<sent, wire, data, session, cur, last>>

\* Mutant: the blocks are one byte longer.
BlockSizeOdd == WriteMaxLen * Fragments + 1

BlockSize == WriteMaxLen * Fragments

Buf == INSTANCE Buffer

Frames == [kind : {"PING", "PONG"}, len : {0}] \cup [kind : {"MSG"}, len : 0 .. MaxMsgLen]

\* The heads a run of bytes may be taken for.
Heads == [kind : {"PING", "PONG", "?"}, len : {0}] \cup [kind : {"MSG"}, len : 0 .. MaxMsgLen + 1]

Byte == [frame : 0 .. MaxFrames, at : Nat]

-----------------------------------------------------------------------------
\* The peer's side of the stream.

FrameLen(f) == IF f.kind = "MSG" THEN HeadLen + IdLen + f.len ELSE HeadLen

FrameBytes(k, f) == [i \in 1 .. FrameLen(f) |-> [frame |-> k, at |-> i]]

\* A piece sendMsg cuts a frame into, each one send of the session, and the
\* bytes as they leave, piece after piece.
Piece(bytes, n) ==
  SubSeq(bytes, n * WriteMaxLen + 1, Buf!Least((n + 1) * WriteMaxLen, Len(bytes)))

InPieces(bytes) ==
  [i \in 1 .. Len(bytes) |-> Piece(bytes, (i - 1) \div WriteMaxLen)[((i - 1) % WriteMaxLen) + 1]]

Transmit(f) ==
  /\ session.on /\ Len(sent) < MaxFrames
  /\ sent' = Append(sent, f)
  /\ wire' = wire \o InPieces(FrameBytes(Len(sent) + 1, f))
  /\ UNCHANGED <<data, session, cur, last>>

\* sendMsg: data of up to NET_UV_MAX_MSG_LEN.
SendMsg(len) == len <= MaxMsgLen /\ Transmit([kind |-> "MSG", len |-> len])

\* The peer's heartbeat and its answer to ours.
SendBeat(kind) == Transmit([kind |-> kind, len |-> 0])

-----------------------------------------------------------------------------
\* The session.

\* createSessionInfo; got, pongs, pings and closing are the calls of
\* m_onMsgCall, m_sendCall and m_closeSocketCall for this connection (history).
NewSession == [on |-> TRUE, buf |-> Buf!Empty, lastRecv |-> cur, loseCount |-> 0,
               got |-> <<>>, pongs |-> 0, pings |-> 0, closing |-> FALSE]

NoSession == [NewSession EXCEPT !.on = FALSE, !.lastRecv = 0]

Init ==
  /\ sent = <<>> /\ wire = <<>> /\ data = <<>>
  /\ cur \in Times /\ last = cur
  /\ session = NoSession

OnConnect ==
  /\ data = <<>> /\ ~session.on
  /\ session' = NewSession
  /\ UNCHANGED <<sent, wire, data, cur, last>>

\* onDisconnect: the next connection starts with an empty stream.
OnDisconnect ==
  /\ data = <<>> /\ session.on
  /\ session' = NoSession
  /\ sent' = <<>> /\ wire' = <<>>
  /\ UNCHANGED <<data, cur, last>>

-----------------------------------------------------------------------------
\* onBuff.  The loop makes its calls one by one, and the peer goes on sending
\* while it runs, so that a turn of it is an action; whatever else the manager
\* does waits until onBuff has returned.

\* The application hands on a chunk that arrived.
Read ==
  /\ data = <<>> /\ session.on
  /\ \E n \in 1 .. Buf!Least(MaxRead, Len(wire)) :
       /\ data' = SubSeq(wire, 1, n)
       /\ wire' = SubSeq(wire, n + 1, Len(wire))
  /\ session' = [session EXCEPT !.lastRecv = cur, !.loseCount = 0,
                                !.buf = Buf!Add(@, data')]
  /\ UNCHANGED <<sent, cur, last>>

\* The bytes are the head of a frame.
IsHead(bytes) ==
  /\ Len(bytes) >= HeadLen /\ bytes[1].frame # 0
  /\ \A i \in 1 .. HeadLen : bytes[i] = [frame |-> bytes[1].frame, at |-> i]

\* The head at the front of the first block; g is what bytes that are no head
\* happen to say.
HeadAt(block, g) ==
  IF IsHead(block)
    THEN LET f == sent[block[1].frame]
         IN  [kind |-> f.kind, len |-> IF f.kind = "MSG" THEN IdLen + f.len ELSE 0]
    ELSE g

\* Mutant: what follows the message is taken from the front of the chunk.
FirstOf(chunk, n) == SubSeq(chunk, 1, n)

\* data + (len - n): the last n bytes of the chunk, and what is before it in
\* memory when it has fewer.
LastOf(chunk, n) ==
  [i \in 1 .. n |-> IF i + Len(chunk) > n THEN chunk[i + Len(chunk) - n]
                                          ELSE [frame |-> 0, at |-> 0]]

\* Illegal data: executeDisconnect, and the loop ends.
Refuse ==
  /\ session' = [session EXCEPT !.buf = Buf!Empty, !.closing = TRUE]
  /\ data' = <<>>

OnPing(h) ==
  /\ h.kind = "PING"
  /\ session' = [session EXCEPT !.pongs = @ + 1, !.buf = Buf!Pop(@, HeadLen)]
  /\ UNCHANGED data

OnPong(h) ==
  /\ h.kind = "PONG"
  /\ session' = [session EXCEPT !.buf = Buf!Pop(@, HeadLen)]
  /\ UNCHANGED data

IsLegal(h) == h.len \in IdLen .. MaxMsgLen

OnIllegalMsg(h) == h.kind = "MSG" /\ ~IsLegal(h) /\ Refuse

\* The message is not complete yet: the loop ends.
OnPartOfMsg(h) ==
  /\ h.kind = "MSG" /\ IsLegal(h) /\ session.buf.length < HeadLen + h.len
  /\ data' = <<>> /\ UNCHANGED session

\* It is handed on; what follows it in the buffer is read again from the end of
\* the chunk.
OnWholeMsg(h) ==
  LET total == HeadLen + h.len
      msg   == SubSeq(Buf!Bytes(session.buf), HeadLen + 1, total)
      rest  == LastOf(data, session.buf.length - total)
  IN  /\ h.kind = "MSG" /\ IsLegal(h) /\ session.buf.length >= total
      /\ session' = [session EXCEPT !.got = Append(@, msg), !.buf = Buf!Add(Buf!Empty, rest)]
      /\ UNCHANGED data

OnUnknown(h) == h.kind = "?" /\ Refuse

\* One turn of the loop with the head it finds.
OnHead(h) == \/ OnPing(h) \/ OnPong(h) \/ OnUnknown(h)
             \/ OnIllegalMsg(h) \/ OnPartOfMsg(h) \/ OnWholeMsg(h)

Turn ==
  /\ data # <<>> /\ session.buf.length >= HeadLen
  /\ \E g \in Heads : OnHead(HeadAt(Buf!HeadBlockData(session.buf), g))
  /\ UNCHANGED <<sent, wire, cur, last>>

\* No whole head is left: the loop ends.
LoopEnds ==
  /\ data # <<>> /\ session.buf.length < HeadLen
  /\ data' = <<>>
  /\ UNCHANGED <<sent, wire, session, cur, last>>

-----------------------------------------------------------------------------
\* updateFrame

\* What the heartbeat does to a session that was silent for too long.
Beat(s) ==
  IF s.loseCount + 1 > LoseMaxCount
    THEN [s EXCEPT !.loseCount = @ + 1, !.buf = Buf!Empty, !.closing = TRUE]
    ELSE [s EXCEPT !.loseCount = @ + 1, !.pings = @ + 1]

\* At time t.  The difference is that of signed numbers: below 1 unless t is
\* before m_lastUpdateTime.
UpdateFrame(t) ==
  /\ data = <<>> /\ CheckTime > 0
  /\ cur' = t
  /\ last' = IF last < t + 1 THEN last ELSE t
  /\ session' = IF last >= t + 1 /\ session.on /\ t > session.lastRecv + CheckTime
                  THEN Beat(session) ELSE session
  /\ UNCHANGED <<sent, wire, data>>

-----------------------------------------------------------------------------
Next == \/ \E len \in 0 .. MaxMsgLen : SendMsg(len)
        \/ \E kind \in {"PING", "PONG"} : SendBeat(kind)
        \/ OnConnect \/ OnDisconnect
        \/ Read \/ Turn \/ LoopEnds
        \/ \E t \in Times : UpdateFrame(t)

SafeSpec == Init /\ [][Next]_vars

\* The application polls: it reads what arrived and calls updateFrame.
Spec == SafeSpec /\ WF_vars(Read \/ Turn \/ LoopEnds) /\ \A t \in Times : WF_vars(t >= cur /\ UpdateFrame(t))

-----------------------------------------------------------------------------
TypeOK ==
  /\ sent \in Seq(Frames) /\ wire \in Seq(Byte) /\ data \in Seq(Byte)
  /\ cur \in Times /\ last \in Times
  /\ session.on \in BOOLEAN /\ session.closing \in BOOLEAN
  /\ session.lastRecv \in Nat
  /\ session.loseCount \in 0 .. LoseMaxCount + 1
  /\ session.pings \in Nat /\ session.pongs \in Nat
  /\ session.got \in Seq(Seq(Byte))
  /\ session.buf.bytes \in Seq(Byte) /\ Buf!BufferOK(session.buf)

IsRead(byte) == ~ \E i \in DOMAIN wire : wire[i] = byte

\* What is handed on of a message: its id and its data.
Payload(k) == SubSeq(FrameBytes(k, sent[k]), HeadLen + 1, FrameLen(sent[k]))

OfKind(kind, k) == {i \in 1 .. k : sent[i].kind = kind}

\* Of the first k frames exactly the messages have been handed on, each whole,
\* once and in order.
HandedOn(k) ==
  \E place \in [DOMAIN session.got -> OfKind("MSG", k)] :
    /\ \A i, j \in DOMAIN session.got : i < j => place[i] < place[j]
    /\ \A m \in OfKind("MSG", k) : \E i \in DOMAIN session.got : place[i] = m
    /\ \A i \in DOMAIN session.got : session.got[i] = Payload(place[i])

\* The bytes read of the frame behind the first k.
ReadOfNext(k) ==
  IF k = Len(sent) THEN {}
  ELSE {a \in 1 .. FrameLen(sent[k + 1]) : IsRead([frame |-> k + 1, at |-> a])}

\* Whenever onBuff has returned, however the stream was cut, the messages read to
\* their last byte have been handed on, every such PING has been answered, and
\* the buffer holds what was read of the next frame.
CaughtUp ==
  session.on /\ ~session.closing /\ data = <<>> =>
    \E k \in 0 .. Len(sent) :
      /\ \A i \in DOMAIN sent : IsRead([frame |-> i, at |-> FrameLen(sent[i])]) <=> i <= k
      /\ HandedOn(k)
      /\ session.pongs = Cardinality(OfKind("PING", k))
      /\ DOMAIN Buf!Bytes(session.buf) = ReadOfNext(k)
      /\ \A a \in ReadOfNext(k) : Buf!Bytes(session.buf)[a] = [frame |-> k + 1, at |-> a]

\* A peer is disconnected only for a message longer than the receiver takes,
\* the id counted.
CloseJustified ==
  session.closing => \E k \in DOMAIN sent : sent[k].kind = "MSG" /\ sent[k].len + IdLen > MaxMsgLen

\* The largest message is NET_UV_MAX_MSG_LEN long: a session is not closed for
\* one that sendMsg accepted.
LimitAgrees ==
  session.closing => \E k \in DOMAIN sent : sent[k].kind = "MSG" /\ sent[k].len > MaxMsgLen
=============================================================================
