--------------------------- MODULE SharedProofs ---------------------------
(***************************************************************************)
(* What every session of net_uv is built on.                               *)
(*                                                                         *)
(* The message layer, NetMsgMgr, reads a byte stream without losing step:  *)
(* for frames of any length, chunks of any length and any number of them.  *)
(* The argument: what is in the buffer and on the wire together is always  *)
(* the rest of the stream from the start of a frame on (InOrder), so that  *)
(* a head found in the buffer is one.  It is found because the head block  *)
(* holds a whole number of heads (HeadsWhole).  And after a message the    *)
(* rest of the buffer can be read again from the end of the chunk, because *)
(* the buffer held less than a frame when the chunk arrived: the rest is   *)
(* no longer than the chunk (Synced).  The heartbeat never probes a peer.  *)
(*                                                                         *)
(* What NetMsgMgr takes a buffer for is what Buffer.h makes of its list of *)
(* blocks, turn by turn of the loops of add and pop: whatever was called,  *)
(* the blocks spell the bytes, and they are cut where Buffer's operators   *)
(* say (ListCorrect).                                                      *)
(*                                                                         *)
(* The hand-off queue is correct for any threads, any messages and any     *)
(* length: its types, the discipline of its mutex, and that it implements  *)
(* the FIFO of MsgFifo (the safety part; that what is pushed is dispatched *)
(* in the end is model-checked).                                           *)
(***************************************************************************)
EXTENDS ThreadQueue, NetMsgMgr, BlockList, QueueLemmas, SequenceTheorems, FiniteSetTheorems, TLAPS

-----------------------------------------------------------------------------
(* The bytes of a frame, and sequences of bytes.                           *)

\* Every frame has a head.
LEMMA FrameLength ==
  ASSUME NEW f \in Frames
  PROVE  FrameLen(f) \in Nat /\ FrameLen(f) >= HeadLen /\ HeadLen \in Nat \ {0}
BY NetMsgAssumption DEF FrameLen, Frames

\* The bytes of a frame are told apart by their places.
LEMMA FrameBytesType ==
  ASSUME NEW f \in Frames, NEW k \in 0 .. MaxFrames
  PROVE  /\ FrameBytes(k, f) \in Seq(Byte) /\ Len(FrameBytes(k, f)) = FrameLen(f)
         /\ \A i \in 1 .. FrameLen(f) : FrameBytes(k, f)[i] = [frame |-> k, at |-> i]
<1>1. FrameLen(f) \in Nat
  BY FrameLength
<1>2. \A i \in 1 .. FrameLen(f) : [frame |-> k, at |-> i] \in Byte
  BY DEF Byte
<1>3. FrameBytes(k, f) \in [1 .. FrameLen(f) -> Byte]
  BY <1>2 DEF FrameBytes
<1>4. FrameBytes(k, f) \in Seq(Byte)
  BY <1>1, <1>3
<1>5. Len(FrameBytes(k, f)) = FrameLen(f)
  BY <1>1, <1>3, <1>4, LenProperties
<1> QED BY <1>4, <1>5 DEF FrameBytes

\* sendMsg cuts a frame into pieces that are the frame again when they are put
\* together, whatever its length.
LEMMA PiecesInOrder ==
  ASSUME NEW S, NEW bytes \in Seq(S)
  PROVE  InPieces(bytes) = bytes
<1> DEFINE W == WriteMaxLen
           L == Len(bytes)
<1>1. W \in Nat \ {0} /\ L \in Nat /\ bytes \in [1 .. L -> S]
  BY NetMsgAssumption
<1>2. ASSUME NEW i \in 1 .. L
      PROVE  Piece(bytes, (i - 1) \div W)[((i - 1) % W) + 1] = bytes[i]
  <2> DEFINE n == (i - 1) \div W
             r == (i - 1) % W
             e == Buf!Least((n + 1) * W, L)
  <2>1. i - 1 \in Nat
    OBVIOUS
  <2>2. n \in Nat /\ r \in 0 .. W - 1 /\ n * W <= i - 1
    BY <1>1, <2>1
  <2>3. r = i - 1 - n * W
    BY <1>1, <2>1
  <2>4. n * W \in Nat /\ (n + 1) * W = n * W + W
    BY <1>1, <2>2
  <2> HIDE DEF n, r
  <2>5. e \in Nat /\ e <= L /\ r + 1 <= e - n * W /\ r + 1 \in Nat \ {0}
    BY <1>1, <2>2, <2>3, <2>4 DEF Buf!Least
  <2> HIDE DEF e, W
  <2>6. SubSeq(bytes, n * W + 1, e)[r + 1] = bytes[n * W + 1 + (r + 1) - 1]
    <3>1. n * W + 1 \in 1 .. L + 1
      BY <1>1, <2>2, <2>3, <2>4
    <3>2. e \in n * W .. L
      BY <2>5, <2>4, <1>1
    <3> DEFINE m == n * W + 1
    <3>3. m \in 1 .. L + 1 /\ e \in m - 1 .. L /\ r + 1 \in 1 .. e - m + 1
      BY <3>1, <3>2, <2>4, <2>5
    <3> HIDE DEF m
    <3>4. SubSeq(bytes, m, e)[r + 1] = bytes[m + (r + 1) - 1]
      BY <1>1, <3>3, SubSeqProperties
    <3> QED BY <3>4 DEF m
  <2>7. n * W + 1 + (r + 1) - 1 = i
    BY <2>3, <2>4, <1>1, <2>5
  <2>8. Piece(bytes, n) = SubSeq(bytes, n * W + 1, e)
    BY DEF Piece, e, W
  <2> QED BY <2>6, <2>7, <2>8 DEF n, r
<1>3. InPieces(bytes) = [i \in 1 .. L |-> bytes[i]]
  BY <1>2 DEF InPieces
<1> QED BY <1>1, <1>3

\* The elements of a sequence of bytes are bytes.
LEMMA ByteFields ==
  ASSUME NEW q \in Seq(Byte)
  PROVE  \A i \in DOMAIN q : q[i] \in Byte /\ q[i].frame \in Nat /\ q[i].at \in Nat
<1>1. \A i \in DOMAIN q : q[i] \in Byte
  BY LenProperties, ElementOfSeq
<1>2. \A b \in Byte : b.frame \in Nat /\ b.at \in Nat
  BY DEF Byte
<1> QED BY <1>1, <1>2

\* What is left of a sequence without its first n elements.
LEMMA AtDrop ==
  ASSUME NEW S, NEW q \in Seq(S), NEW n \in 0 .. Len(q)
  PROVE  /\ SubSeq(q, n + 1, Len(q)) \in Seq(S)
         /\ Len(SubSeq(q, n + 1, Len(q))) = Len(q) - n
         /\ DOMAIN SubSeq(q, n + 1, Len(q)) = 1 .. Len(q) - n
         /\ \A i \in 1 .. Len(q) - n :
              i + n \in DOMAIN q /\ SubSeq(q, n + 1, Len(q))[i] = q[i + n]
<1> DEFINE m == n + 1
           r == SubSeq(q, m, Len(q))
<1>1. Len(q) \in Nat /\ n \in Nat /\ n <= Len(q) /\ DOMAIN q = 1 .. Len(q)
  BY LenProperties
<1>2. m \in Int /\ Len(q) \in Int /\ m <= Len(q) + 1 /\ \A i \in m .. Len(q) : q[i] \in S
  BY <1>1, ElementOfSeq
<1>3. Len(q) - m + 1 = Len(q) - n /\ \A i \in 1 .. Len(q) - n : m + i - 1 = i + n
  BY <1>1
<1> HIDE DEF m
<1>4. /\ r \in Seq(S)
      /\ Len(r) = IF m <= Len(q) THEN Len(q) - m + 1 ELSE 0
      /\ \A i \in 1 .. Len(q) - m + 1 : r[i] = q[m + i - 1]
  BY <1>2, SubSeqProperties
<1> HIDE DEF r
<1>5. Len(r) = Len(q) - n /\ \A i \in 1 .. Len(q) - n : r[i] = q[i + n]
  <2>1. \A i \in 1 .. Len(q) - n : r[i] = q[i + n]
    BY <1>3, <1>4
  <2>2. PICK l : l = Len(q)
    OBVIOUS
  <2>3. m = n + 1
    BY DEF m
  <2>4. (m <= l => l - m + 1 = l - n) /\ (~(m <= l) => l - n = 0)
    BY <2>2, <2>3, <1>1
  <2>5. Len(r) = Len(q) - n
    BY <2>2, <2>4, <1>4
  <2> QED BY <2>1, <2>5
<1>6. DOMAIN r = 1 .. Len(q) - n
  BY <1>4, <1>5, LenProperties
<1>7. \A i \in 1 .. Len(q) - n : i + n \in DOMAIN q
  BY <1>1
<1> QED BY <1>4, <1>5, <1>6, <1>7 DEF r, m

-----------------------------------------------------------------------------
(* What is left of the stream: the bytes of the frames not worked off.     *)

\* q is what is left of the stream fs behind its first k frames: it holds
\* exactly their bytes, frame after frame, each frame in one run.
Contained(q, k, fs) ==
  \A i \in DOMAIN q :
    q[i].frame \in k + 1 .. Len(fs) /\ q[i].at \in 1 .. FrameLen(fs[q[i].frame])
Covered(q, k, fs) ==
  \A f \in k + 1 .. Len(fs) : \A a \in 1 .. FrameLen(fs[f]) :
    \E i \in DOMAIN q : q[i].frame = f /\ q[i].at = a
FrameByFrame(q) == \A i, j \in DOMAIN q : i <= j => q[i].frame <= q[j].frame
InOneRun(q) == \A i, j \in DOMAIN q : q[i].frame = q[j].frame => i + q[j].at = j + q[i].at

InOrder(q, k, fs) ==
  Contained(q, k, fs) /\ Covered(q, k, fs) /\ FrameByFrame(q) /\ InOneRun(q)

\* The rest of the stream begins with the next frame, from its first byte on.
LEMMA OrderFront ==
  ASSUME NEW fs \in Seq(Frames), NEW k \in 0 .. Len(fs), NEW q \in Seq(Byte),
         InOrder(q, k, fs), k < Len(fs)
  PROVE  /\ FrameLen(fs[k + 1]) \in Nat \ {0} /\ FrameLen(fs[k + 1]) <= Len(q)
         /\ \A a \in 1 .. FrameLen(fs[k + 1]) :
              a \in DOMAIN q /\ q[a].frame = k + 1 /\ q[a].at = a
<1> DEFINE F == FrameLen(fs[k + 1])
<1>1. k \in Nat /\ k + 1 \in k + 1 .. Len(fs) /\ Len(fs) \in Nat /\ fs[k + 1] \in Frames
  BY LenProperties
<1>2. F \in Nat \ {0}
  BY <1>1, FrameLength
<1>3. DOMAIN q = 1 .. Len(q) /\ Len(q) \in Nat
  BY LenProperties
<1>4. \A i \in DOMAIN q : q[i].frame \in Nat /\ q[i].at \in Nat
  BY ByteFields
<1>5. PICK i \in DOMAIN q : q[i].frame = k + 1 /\ q[i].at = 1
  BY <1>1, <1>2 DEF InOrder, Covered
<1>6. q[1].frame = k + 1 /\ q[1].at = 1
  <2>1. 1 \in DOMAIN q /\ i \in Nat /\ 1 <= i
    BY <1>3, <1>5
  <2>2. q[1].frame <= k + 1
    BY <2>1, <1>5 DEF InOrder, FrameByFrame
  <2>3. q[1].frame \in k + 1 .. Len(fs) /\ q[1].at \in 1 .. FrameLen(fs[q[1].frame])
    BY <2>1 DEF InOrder, Contained
  <2>4. q[1].frame = k + 1
    BY <2>2, <2>3, <1>1
  <2>5. q[1].at \in 1 .. F
    BY <2>3, <2>4
  <2>6. 1 + q[i].at = i + q[1].at
    BY <2>1, <1>5, <2>4 DEF InOrder, InOneRun
  <2> QED BY <2>1, <2>4, <2>5, <2>6, <1>5, <1>2
<1>7. ASSUME NEW a \in 1 .. F PROVE a \in DOMAIN q /\ q[a].frame = k + 1 /\ q[a].at = a
  <2>1. PICK j \in DOMAIN q : q[j].frame = k + 1 /\ q[j].at = a
    BY <1>1 DEF InOrder, Covered
  <2>2. 1 \in DOMAIN q /\ j \in Nat
    BY <1>3, <2>1
  <2>3. 1 + a = j + 1
    BY <1>6, <2>1, <2>2 DEF InOrder, InOneRun
  <2> QED BY <2>1, <2>2, <2>3
<1>8. F <= Len(q)
  BY <1>7, <1>3, <1>2
<1> QED BY <1>2, <1>7, <1>8

\* Nothing is left behind the last frame.
LEMMA OrderEmpty ==
  ASSUME NEW fs \in Seq(Frames), NEW q \in Seq(Byte), InOrder(q, Len(fs), fs)
  PROVE  q = <<>>
<1>1. Len(fs) \in Nat /\ Len(q) \in Nat /\ DOMAIN q = 1 .. Len(q)
  BY LenProperties
<1>2. DOMAIN q = {}
  BY <1>1 DEF InOrder, Contained
<1> QED BY <1>1, <1>2, EmptySeq

\* A sequence of runs is still one when its front is cut off.
LEMMA RunShifted ==
  ASSUME NEW q, NEW r, NEW n \in Nat, InOneRun(q),
         DOMAIN r \subseteq Nat, \A i \in DOMAIN q : q[i].at \in Nat,
         \A i \in DOMAIN r : i + n \in DOMAIN q /\ r[i] = q[i + n]
  PROVE  InOneRun(r)
<1> SUFFICES ASSUME NEW i \in DOMAIN r, NEW j \in DOMAIN r, r[i].frame = r[j].frame
             PROVE  i + r[j].at = j + r[i].at
  BY DEF InOneRun
<1>1. (i + n) + r[j].at = (j + n) + r[i].at
  BY DEF InOneRun
<1>2. i \in Nat /\ j \in Nat /\ r[i].at \in Nat /\ r[j].at \in Nat
  OBVIOUS
<1> QED BY <1>1, <1>2

\* Without the next frame it is the rest behind one frame more.
LEMMA OrderDrop ==
  ASSUME NEW fs \in Seq(Frames), NEW k \in 0 .. Len(fs), NEW q \in Seq(Byte),
         InOrder(q, k, fs), k < Len(fs)
  PROVE  InOrder(SubSeq(q, FrameLen(fs[k + 1]) + 1, Len(q)), k + 1, fs)
<1> DEFINE F == FrameLen(fs[k + 1])
           r == SubSeq(q, F + 1, Len(q))
<1>1. k \in Nat /\ Len(fs) \in Nat /\ Len(q) \in Nat /\ DOMAIN q = 1 .. Len(q)
  BY LenProperties
<1>2. /\ F \in Nat \ {0} /\ F <= Len(q)
      /\ \A a \in 1 .. F : a \in DOMAIN q /\ q[a].frame = k + 1 /\ q[a].at = a
  BY OrderFront
<1>3. DOMAIN r = 1 .. Len(q) - F /\ \A i \in DOMAIN r : i + F \in DOMAIN q /\ r[i] = q[i + F]
  <2>1. F \in 0 .. Len(q)
    BY <1>1, <1>2
  <2> HIDE DEF F
  <2>2. /\ DOMAIN r = 1 .. Len(q) - F
        /\ \A i \in 1 .. Len(q) - F : i + F \in DOMAIN q /\ r[i] = q[i + F]
    BY <2>1, AtDrop
  <2> QED BY <2>2
<1>4. \A i \in DOMAIN q : q[i].frame \in k + 1 .. Len(fs) /\ q[i].at \in 1 .. FrameLen(fs[q[i].frame])
  BY DEF InOrder, Contained
<1>5. \A i, j \in DOMAIN q : q[i].frame = q[j].frame => i + q[j].at = j + q[i].at
  BY DEF InOrder, InOneRun
<1>6. \A i \in DOMAIN q : q[i].at \in Nat
  BY ByteFields
<1> HIDE DEF F, r
<1>7. Contained(r, k + 1, fs)
  <2> SUFFICES ASSUME NEW i \in DOMAIN r, r[i].frame = k + 1 PROVE FALSE
    BY <1>1, <1>3, <1>4 DEF Contained
  <2>1. i + F \in DOMAIN q /\ q[i + F].frame = k + 1 /\ i \in Nat \ {0}
    BY <1>3, <1>1, <1>2
  <2>2. q[i + F].at \in 1 .. F
    BY <2>1, <1>4 DEF F
  <2>3. 1 \in DOMAIN q /\ q[1].frame = k + 1 /\ q[1].at = 1
    BY <1>2
  <2>4. (i + F) + q[1].at = 1 + q[i + F].at
    BY <2>1, <2>3, <1>5
  <2>5. PICK a : a = q[i + F].at
    OBVIOUS
  <2>6. F \in Nat /\ a \in 1 .. F /\ (i + F) + 1 = 1 + a
    BY <2>2, <2>3, <2>4, <2>5, <1>2
  <2>7. a <= F /\ a \in Nat /\ i \in Nat /\ i # 0
    BY <2>1, <2>6
  <2> QED BY <2>6, <2>7
<1>8. Covered(r, k + 1, fs)
  <2> SUFFICES ASSUME NEW f \in k + 2 .. Len(fs), NEW a \in 1 .. FrameLen(fs[f])
               PROVE  \E i \in DOMAIN r : r[i].frame = f /\ r[i].at = a
    BY <1>1 DEF Covered
  <2>1. PICK j \in DOMAIN q : q[j].frame = f /\ q[j].at = a
    BY <1>1 DEF InOrder, Covered
  <2>2. j > F
    BY <2>1, <1>1, <1>2
  <2>3. j - F \in DOMAIN r /\ (j - F) + F = j
    BY <2>2, <1>1, <1>2, <1>3
  <2> QED BY <2>1, <2>3, <1>3
<1>9. FrameByFrame(r)
  <2> SUFFICES ASSUME NEW i \in DOMAIN r, NEW j \in DOMAIN r, i <= j
               PROVE  r[i].frame <= r[j].frame
    BY DEF FrameByFrame
  <2>1. i + F <= j + F
    BY <1>3, <1>1, <1>2
  <2> QED BY <2>1, <1>3 DEF InOrder, FrameByFrame
<1>10. InOneRun(r)
  <2>1. DOMAIN r \subseteq Nat /\ \A i \in DOMAIN q : q[i].at \in Nat
    BY <1>1, <1>2, <1>3, <1>6
  <2> QED BY <1>2, <1>3, <2>1, RunShifted DEF InOrder
<1> QED BY <1>7, <1>8, <1>9, <1>10 DEF InOrder, r, F

\* A frame that is sent is put behind the rest of the stream.
LEMMA OrderAppend ==
  ASSUME NEW fs \in Seq(Frames), NEW k \in 0 .. Len(fs), NEW q \in Seq(Byte),
         InOrder(q, k, fs), NEW f \in Frames, Len(fs) < MaxFrames
  PROVE  InOrder(q \o FrameBytes(Len(fs) + 1, f), k, Append(fs, f))
<1> DEFINE n  == Len(fs) + 1
           gs == Append(fs, f)
           b  == FrameBytes(n, f)
           r  == q \o b
<1>1. k \in Nat /\ Len(fs) \in Nat /\ Len(q) \in Nat /\ DOMAIN q = 1 .. Len(q)
  BY LenProperties
<1>2. Len(gs) = n /\ gs[n] = f /\ \A i \in 1 .. Len(fs) : gs[i] = fs[i]
  BY AppendProperties
<1>3. n \in 0 .. MaxFrames
  BY <1>1, NetMsgAssumption
<1>4. /\ b \in Seq(Byte) /\ Len(b) = FrameLen(f) /\ FrameLen(f) \in Nat
      /\ \A i \in 1 .. FrameLen(f) : b[i].frame = n /\ b[i].at = i
  <2> HIDE DEF n
  <2>1. FrameLen(f) \in Nat
    BY FrameLength
  <2>2. /\ b \in Seq(Byte) /\ Len(b) = FrameLen(f)
        /\ \A i \in 1 .. FrameLen(f) : b[i] = [frame |-> n, at |-> i]
    BY <1>3, FrameBytesType
  <2> HIDE DEF b
  <2> QED BY <2>1, <2>2
<1> HIDE DEF n, gs, b, r
<1>5. /\ r \in Seq(Byte) /\ Len(r) = Len(q) + FrameLen(f)
      /\ DOMAIN r = 1 .. Len(q) + FrameLen(f)
      /\ \A i \in DOMAIN q : i \in DOMAIN r /\ r[i] = q[i]
      /\ \A i \in 1 .. FrameLen(f) : i + Len(q) \in DOMAIN r /\ r[i + Len(q)] = b[i]
  <2>1. /\ q \o b \in Seq(Byte)
        /\ DOMAIN (q \o b) = 1 .. Len(q) + Len(b)
        /\ \A i \in 1 .. Len(q) : (q \o b)[i] = q[i]
        /\ \A i \in Len(q) + 1 .. Len(q) + Len(b) : (q \o b)[i] = b[i - Len(q)]
    <3>1. b \in Seq(Byte)
      BY <1>4
    <3> QED BY <3>1, AtConcat
  <2>2. /\ r \in Seq(Byte)
        /\ DOMAIN r = 1 .. Len(q) + FrameLen(f)
        /\ \A i \in 1 .. Len(q) : r[i] = q[i]
        /\ \A i \in Len(q) + 1 .. Len(q) + FrameLen(f) : r[i] = b[i - Len(q)]
    BY <2>1, <1>4 DEF r
  <2>3. Len(r) = Len(q) + FrameLen(f)
    BY <2>2, <1>1, <1>4, LenProperties
  <2>4. \A i \in DOMAIN q : i \in DOMAIN r /\ r[i] = q[i]
    BY <2>2, <1>1, <1>4
  <2>5. ASSUME NEW i \in 1 .. FrameLen(f)
        PROVE  i + Len(q) \in DOMAIN r /\ r[i + Len(q)] = b[i]
    <3>1. i + Len(q) \in Len(q) + 1 .. Len(q) + FrameLen(f) /\ (i + Len(q)) - Len(q) = i
      BY <1>1, <1>4
    <3>2. i + Len(q) \in DOMAIN r
      BY <3>1, <2>2, <1>1, <1>4
    <3> QED BY <3>1, <3>2, <2>2
  <2> QED BY <2>2, <2>3, <2>4, <2>5
<1>6. \A i \in DOMAIN r : \/ i \in DOMAIN q /\ r[i] = q[i] /\ r[i].frame \in k + 1 .. Len(fs)
                          \/ /\ i > Len(q) /\ r[i].frame = n /\ r[i].at = i - Len(q)
                             /\ i - Len(q) \in 1 .. FrameLen(f)
  <2> TAKE i \in DOMAIN r
  <2>1. CASE i \in DOMAIN q
    BY <2>1, <1>5 DEF InOrder, Contained
  <2>2. CASE i \notin DOMAIN q
    <3>1. i > Len(q) /\ i - Len(q) \in 1 .. FrameLen(f) /\ (i - Len(q)) + Len(q) = i
      BY <2>2, <1>1, <1>4, <1>5
    <3> QED BY <3>1, <1>4, <1>5
  <2> QED BY <2>1, <2>2
<1>7. Contained(r, k, gs)
  <2> SUFFICES ASSUME NEW i \in DOMAIN r
               PROVE  r[i].frame \in k + 1 .. n /\ r[i].at \in 1 .. FrameLen(gs[r[i].frame])
    BY <1>2 DEF Contained
  <2>1. CASE i \in DOMAIN q /\ r[i] = q[i] /\ r[i].frame \in k + 1 .. Len(fs)
    <3>1. r[i].at \in 1 .. FrameLen(fs[r[i].frame])
      BY <2>1 DEF InOrder, Contained
    <3>2. gs[r[i].frame] = fs[r[i].frame]
      BY <2>1, <1>1, <1>2
    <3> QED BY <2>1, <3>1, <3>2, <1>1 DEF n
  <2>2. CASE i > Len(q) /\ r[i].frame = n /\ r[i].at = i - Len(q) /\ i - Len(q) \in 1 .. FrameLen(f)
    BY <2>2, <1>1, <1>2 DEF n
  <2> QED BY <2>1, <2>2, <1>6
<1>8. Covered(r, k, gs)
  <2> SUFFICES ASSUME NEW g \in k + 1 .. n, NEW a \in 1 .. FrameLen(gs[g])
               PROVE  \E i \in DOMAIN r : r[i].frame = g /\ r[i].at = a
    BY <1>2 DEF Covered
  <2>1. CASE g = n
    <3>1. a + Len(q) \in DOMAIN r /\ r[a + Len(q)].frame = n /\ r[a + Len(q)].at = a
      BY <2>1, <1>2, <1>4, <1>5
    <3> QED BY <3>1, <2>1
  <2>2. CASE g # n
    <3>1. g \in k + 1 .. Len(fs) /\ gs[g] = fs[g]
      BY <2>2, <1>1, <1>2 DEF n
    <3>2. PICK i \in DOMAIN q : q[i].frame = g /\ q[i].at = a
      BY <3>1 DEF InOrder, Covered
    <3> QED BY <3>2, <1>5
  <2> QED BY <2>1, <2>2
<1>9. FrameByFrame(r)
  <2> SUFFICES ASSUME NEW i \in DOMAIN r, NEW j \in DOMAIN r, i <= j
               PROVE  r[i].frame <= r[j].frame
    BY DEF FrameByFrame
  <2>1. CASE i \in DOMAIN q /\ j \in DOMAIN q
    BY <2>1, <1>5 DEF InOrder, FrameByFrame
  <2>2. CASE j \notin DOMAIN q
    BY <2>2, <1>1, <1>6 DEF n
  <2>3. CASE i \notin DOMAIN q /\ j \in DOMAIN q
    BY <2>3, <1>1, <1>5
  <2> QED BY <2>1, <2>2, <2>3
<1>10. InOneRun(r)
  <2> SUFFICES ASSUME NEW i \in DOMAIN r, NEW j \in DOMAIN r, r[i].frame = r[j].frame
               PROVE  i + r[j].at = j + r[i].at
    BY DEF InOneRun
  <2>1. CASE i \in DOMAIN q /\ j \in DOMAIN q
    BY <2>1, <1>5 DEF InOrder, InOneRun
  <2>2. CASE i \notin DOMAIN q /\ j \notin DOMAIN q
    <3>1. r[i].at = i - Len(q) /\ r[j].at = j - Len(q)
      BY <2>2, <1>6
    <3>2. i \in Nat /\ j \in Nat /\ Len(q) \in Nat
      BY <1>5, <1>1
    <3>3. \A a, b1, l \in Nat : a + (b1 - l) = b1 + (a - l)
      OBVIOUS
    <3> QED BY <3>1, <3>2, <3>3
  <2>3. CASE (i \in DOMAIN q) # (j \in DOMAIN q)
    BY <2>3, <1>1, <1>6 DEF n
  <2> QED BY <2>1, <2>2, <2>3
<1> QED BY <1>7, <1>8, <1>9, <1>10 DEF InOrder, r, gs, b, n

-----------------------------------------------------------------------------
(* The receive buffer: what it holds, and where its head block ends.       *)

BufType == [bytes : Seq(Byte), head : Nat, length : Nat]

\* The head block ends where a head ends, unless it is the only block.
HeadsWhole(b) == b.head < Len(b.bytes) => \E n \in Nat : b.head = n * HeadLen

\* A number without a remainder is a multiple.
LEMMA Multiple ==
  ASSUME NEW x \in Nat, NEW d \in Nat \ {0}, x % d = 0
  PROVE  \E n \in Nat : x = n * d
<1> DEFINE n == x \div d
<1>1. n \in Nat
  OBVIOUS
<1>2. x % d = x - n * d
  OBVIOUS
<1>3. n * d \in Nat
  BY <1>1
<1> HIDE DEF n
<1> QED BY <1>1, <1>2, <1>3

\* A block holds a whole number of heads.
LEMMA BlockOfHeads == BlockSize \in Nat \ {0} /\ \E n \in Nat : BlockSize = n * HeadLen
<1>1. {WriteMaxLen, Fragments, HeadLen} \subseteq Nat \ {0}
  BY NetMsgAssumption
<1> DEFINE x == WriteMaxLen * Fragments
<1>2. x \in Nat \ {0}
  BY <1>1
<1>3. x % HeadLen = 0
  BY HeadsFitAssumption
<1>4. BlockSize = x
  BY DEF BlockSize
<1> HIDE DEF x
<1>5. HeadLen \in Nat \ {0} /\ x \in Nat
  BY <1>1, <1>2
<1>6. \E n \in Nat : x = n * HeadLen
  BY <1>3, <1>5, Multiple
<1> QED BY <1>2, <1>4, <1>6

\* clear, and a new buffer.
LEMMA EmptyBuffer ==
  /\ Buf!Empty \in BufType /\ Buf!BufferOK(Buf!Empty) /\ HeadsWhole(Buf!Empty)
  /\ Buf!Empty.bytes = <<>> /\ Len(<<>>) = 0
<1>1. <<>> \in Seq(Byte) /\ Len(<<>>) = 0
  BY EmptySeq
<1>2. BlockSize \in Nat
  BY BlockOfHeads
<1> DEFINE b == Buf!Empty
<1>3. b = [bytes |-> <<>>, head |-> 0, length |-> 0]
  BY DEF Buf!Empty
<1> HIDE DEF b
<1>4. b.bytes = <<>> /\ b.head = 0 /\ b.length = 0
  BY <1>3
<1>5. b \in BufType
  BY <1>1, <1>3 DEF BufType
<1>6. Buf!BufferOK(b)
  BY <1>1, <1>2, <1>4 DEF Buf!BufferOK
<1>7. HeadsWhole(b)
  BY <1>1, <1>4 DEF HeadsWhole
<1> QED BY <1>1, <1>4, <1>5, <1>6, <1>7 DEF b

\* add: the bytes are behind those of before, and the head block still ends where
\* a head ends.
LEMMA AddBuffer ==
  ASSUME NEW b \in BufType, Buf!BufferOK(b), NEW c \in Seq(Byte)
  PROVE  /\ Buf!Add(b, c) \in BufType /\ Buf!BufferOK(Buf!Add(b, c))
         /\ Buf!Add(b, c).bytes = b.bytes \o c
         /\ HeadsWhole(b) => HeadsWhole(Buf!Add(b, c))
<1> DEFINE d == Buf!Add(b, c)
           H == IF b.head = Len(b.bytes) THEN Buf!Least(BlockSize, b.head + Len(c)) ELSE b.head
<1>1. b.bytes \in Seq(Byte) /\ b.head \in Nat /\ b.length \in Nat
  BY DEF BufType
<1>2. Len(b.bytes) \in Nat /\ Len(c) \in Nat
  BY <1>1, LenProperties
<1>3. b.bytes \o c \in Seq(Byte) /\ Len(b.bytes \o c) = Len(b.bytes) + Len(c)
  BY <1>1, ConcatProperties
<1>4. /\ b.length = Len(b.bytes) /\ b.head <= BlockSize /\ b.head <= b.length
      /\ BlockSize \in Nat \ {0}
  BY BlockOfHeads DEF Buf!BufferOK
<1>5. b.head = 0 => b.bytes = <<>> /\ Len(b.bytes) = 0
  BY EmptySeq DEF Buf!BufferOK
<1>6. d = [bytes |-> b.bytes \o c, head |-> H, length |-> b.length + Len(c)]
  BY DEF Buf!Add
<1> HIDE DEF H, d
<1>7. /\ H \in Nat /\ H <= BlockSize /\ H <= b.length + Len(c)
      /\ H = 0 => b.head = 0 /\ Len(c) = 0 
      /\ H < Len(b.bytes) + Len(c) => H = BlockSize \/ (H = b.head /\ b.head < Len(b.bytes))
  BY <1>1, <1>2, <1>4, <1>5 DEF H, Buf!Least
<1>8. d \in BufType /\ d.bytes = b.bytes \o c /\ d.head = H /\ d.length = b.length + Len(c)
  <2>1. d.bytes = b.bytes \o c /\ d.head = H /\ d.length = b.length + Len(c)
    BY <1>6
  <2>2. b.length + Len(c) \in Nat
    BY <1>1, <1>2
  <2>3. d \in BufType
    BY <1>3, <1>6, <1>7, <2>2 DEF BufType
  <2> QED BY <2>1, <2>3
<1>9. Buf!BufferOK(d)
  <2>1. H = 0 => b.bytes \o c = <<>>
    <3> SUFFICES ASSUME H = 0 PROVE b.bytes \o c = <<>>
      OBVIOUS
    <3>1. Len(b.bytes) = 0 /\ Len(c) = 0
      BY <1>2, <1>5, <1>7, EmptySeq
    <3> QED BY <3>1, <1>3, EmptySeq
  <2>2. H \in 0 .. BlockSize
    BY <1>4, <1>7
  <2> QED BY <2>1, <2>2, <1>3, <1>4, <1>7, <1>8 DEF Buf!BufferOK
<1>10. ASSUME HeadsWhole(b) PROVE HeadsWhole(d)
  <2> SUFFICES ASSUME H < Len(b.bytes) + Len(c) PROVE \E n \in Nat : H = n * HeadLen
    BY <1>3, <1>8 DEF HeadsWhole
  <2>1. CASE H = BlockSize
    BY <2>1, BlockOfHeads
  <2>2. CASE H = b.head /\ b.head < Len(b.bytes)
    BY <2>2, <1>10 DEF HeadsWhole
  <2> QED BY <2>1, <2>2, <1>7
<1> QED BY <1>8, <1>9, <1>10 DEF d

\* pop of a head: the bytes behind it are left, and the head block still ends
\* where a head ends.
LEMMA PopBuffer ==
  ASSUME NEW b \in BufType, Buf!BufferOK(b), HeadLen <= b.length
  PROVE  /\ Buf!Pop(b, HeadLen) \in BufType /\ Buf!BufferOK(Buf!Pop(b, HeadLen))
         /\ Buf!Pop(b, HeadLen).bytes = SubSeq(b.bytes, HeadLen + 1, Len(b.bytes))
         /\ HeadsWhole(b) => HeadsWhole(Buf!Pop(b, HeadLen))
<1> DEFINE d == Buf!Pop(b, HeadLen)
           H == Buf!HeadAfter(b, HeadLen)
           r == SubSeq(b.bytes, HeadLen + 1, Len(b.bytes))
<1>1. b.bytes \in Seq(Byte) /\ b.head \in Nat /\ b.length \in Nat /\ HeadLen \in Nat \ {0}
  BY NetMsgAssumption DEF BufType
<1>2. Len(b.bytes) \in Nat
  BY <1>1, LenProperties
<1>3. /\ b.length = Len(b.bytes) /\ b.head <= BlockSize /\ b.head <= b.length
      /\ BlockSize \in Nat \ {0}
  BY BlockOfHeads DEF Buf!BufferOK
<1>4. r \in Seq(Byte) /\ Len(r) = Len(b.bytes) - HeadLen
  <2>1. HeadLen \in 0 .. Len(b.bytes)
    BY <1>1, <1>2, <1>3
  <2> QED BY <1>1, <2>1, AtDrop
<1>5. d = [bytes |-> r, head |-> H, length |-> b.length - HeadLen]
  BY <1>1, <1>3 DEF Buf!Pop
<1> HIDE DEF H, d, r
<1>6. /\ H \in Nat /\ H <= BlockSize /\ H <= Len(b.bytes) - HeadLen
      /\ H = 0 => Len(b.bytes) - HeadLen = 0
      /\ b.head = HeadLen /\ H < Len(b.bytes) - HeadLen => H = BlockSize
  <2>1. CASE HeadLen < b.head
    BY <2>1, <1>1, <1>2, <1>3 DEF H, Buf!HeadAfter
  <2>2. CASE ~ (HeadLen < b.head)
    <3> DEFINE m == (HeadLen - b.head) % BlockSize
    <3>1. HeadLen - b.head \in Nat
      BY <2>2, <1>1
    <3>2. m \in 0 .. BlockSize - 1
      BY <3>1, <1>3
    <3>3. b.head = HeadLen => m = 0
      BY <3>1, <1>1, <1>3
    <3>4. H = Buf!Least(BlockSize - m, Len(b.bytes) - HeadLen)
      BY <2>2 DEF H, Buf!HeadAfter
    <3> HIDE DEF m
    <3> QED BY <3>2, <3>3, <3>4, <1>1, <1>2, <1>3 DEF Buf!Least
  <2> QED BY <2>1, <2>2
<1>7. HeadLen < b.head => H = b.head - HeadLen
  BY DEF H, Buf!HeadAfter
<1>8. d \in BufType /\ d.bytes = r /\ d.head = H /\ d.length = b.length - HeadLen
  BY <1>1, <1>2, <1>3, <1>4, <1>5, <1>6 DEF BufType
<1>9. Buf!BufferOK(d)
  <2>1. H = 0 => r = <<>>
    BY <1>4, <1>6, EmptySeq
  <2>2. H \in 0 .. BlockSize
    BY <1>3, <1>6
  <2> QED BY <2>1, <2>2, <1>3, <1>4, <1>6, <1>8 DEF Buf!BufferOK
<1>10. ASSUME HeadsWhole(b) PROVE HeadsWhole(d)
  <2> SUFFICES ASSUME H < Len(b.bytes) - HeadLen PROVE \E n \in Nat : H = n * HeadLen
    BY <1>4, <1>8 DEF HeadsWhole
  <2>1. CASE b.head < Len(b.bytes)
    <3>1. PICK n \in Nat : b.head = n * HeadLen
      BY <2>1, <1>10 DEF HeadsWhole
    <3>2. n # 0
      <4>1. b.head # 0
        BY <2>1, EmptySeq DEF Buf!BufferOK
      <4>2. 0 * HeadLen = 0
        BY <1>1
      <4> QED BY <4>1, <4>2, <3>1
    <3>3. n - 1 \in Nat /\ b.head - HeadLen = (n - 1) * HeadLen /\ b.head >= HeadLen
      BY <3>1, <3>2, <1>1
    <3>4. CASE b.head = HeadLen
      BY <3>4, <1>6, BlockOfHeads
    <3>5. CASE b.head # HeadLen
      <4>1. H = b.head - HeadLen
        BY <3>3, <3>5, <1>1, <1>7
      <4> QED BY <4>1, <3>3
    <3> QED BY <3>4, <3>5
  <2>2. CASE b.head = Len(b.bytes)
    <3>1. CASE b.head = HeadLen
      BY <3>1, <1>6, BlockOfHeads
    <3>2. CASE b.head # HeadLen
      BY <3>2, <2>2, <1>1, <1>2, <1>3, <1>7
    <3> QED BY <3>1, <3>2
  <2> QED BY <2>1, <2>2, <1>1, <1>2, <1>3
<1> QED BY <1>8, <1>9, <1>10 DEF d, r

\* With a whole head in the buffer, the head block shows one.
LEMMA HeadShown ==
  ASSUME NEW b \in BufType, Buf!BufferOK(b), HeadsWhole(b), HeadLen <= b.length
  PROVE  /\ Len(Buf!HeadBlockData(b)) >= HeadLen
         /\ \A i \in 1 .. HeadLen : Buf!HeadBlockData(b)[i] = b.bytes[i]
<1>1. b.bytes \in Seq(Byte) /\ b.head \in Nat /\ b.length \in Nat /\ HeadLen \in Nat \ {0}
  BY NetMsgAssumption DEF BufType
<1>2. Len(b.bytes) \in Nat /\ b.length = Len(b.bytes) /\ b.head <= b.length
  BY <1>1, LenProperties DEF Buf!BufferOK
<1>3. b.head >= HeadLen
  <2>1. CASE b.head = Len(b.bytes)
    BY <2>1, <1>2
  <2>2. CASE b.head < Len(b.bytes)
    <3>1. PICK n \in Nat : b.head = n * HeadLen
      BY <2>2 DEF HeadsWhole
    <3>2. b.head # 0
      BY <2>2, EmptySeq DEF Buf!BufferOK
    <3>3. 0 * HeadLen = 0
      BY <1>1
    <3>4. n # 0
      BY <3>1, <3>2, <3>3
    <3> QED BY <3>1, <3>4, <1>1
  <2> QED BY <2>1, <2>2, <1>1, <1>2
<1>4. \A i \in 1 .. b.head : b.bytes[i] \in Byte
  BY <1>1, <1>2, ElementOfSeq
<1> DEFINE n == b.head
<1>5. n \in Int /\ n >= 1 /\ \A i \in 1 .. n : b.bytes[i] \in Byte
  BY <1>1, <1>3, <1>4
<1> HIDE DEF n
<1>6. /\ Len(SubSeq(b.bytes, 1, n)) = IF 1 <= n THEN n - 1 + 1 ELSE 0
      /\ \A i \in 1 .. n - 1 + 1 : SubSeq(b.bytes, 1, n)[i] = b.bytes[1 + i - 1]
  BY <1>5, SubSeqProperties
<1>7. Len(SubSeq(b.bytes, 1, n)) = n /\ \A i \in 1 .. n : SubSeq(b.bytes, 1, n)[i] = b.bytes[i]
  BY <1>5, <1>6
<1> QED BY <1>1, <1>3, <1>7 DEF n, Buf!HeadBlockData

-----------------------------------------------------------------------------
(* What is handed on to the application, frame by frame.                   *)

\* What is handed on of the first k frames of fs; compare OfKind, Payload and
\* HandedOn in NetMsgMgr.
Kind(kind, k, fs) == {i \in 1 .. k : fs[i].kind = kind}

PayloadOf(k, fs) == SubSeq(FrameBytes(k, fs[k]), HeadLen + 1, FrameLen(fs[k]))

Placed(place, got, k, fs) ==
  /\ place \in [DOMAIN got -> Kind("MSG", k, fs)]
  /\ \A i, j \in DOMAIN got : i < j => place[i] < place[j]
  /\ \A m \in Kind("MSG", k, fs) : \E i \in DOMAIN got : place[i] = m
  /\ \A i \in DOMAIN got : got[i] = PayloadOf(place[i], fs)

Delivered(got, k, fs) == \E place : Placed(place, got, k, fs)

\* HandedOn is this of the session and of the frames sent.
LEMMA DeliveredIsHandedOn ==
  ASSUME NEW k
  PROVE  Delivered(session.got, k, sent) <=> HandedOn(k)
<1>1. \A kind : Kind(kind, k, sent) = OfKind(kind, k)
  BY DEF Kind, OfKind
<1>2. \A i : PayloadOf(i, sent) = Payload(i)
  BY DEF PayloadOf, Payload
<1>3. ASSUME Delivered(session.got, k, sent) PROVE HandedOn(k)
  BY <1>1, <1>2, <1>3 DEF HandedOn, Delivered, Placed
<1>4. ASSUME HandedOn(k) PROVE Delivered(session.got, k, sent)
  BY <1>1, <1>2, <1>4 DEF HandedOn, Delivered, Placed
<1> QED BY <1>3, <1>4

\* What the first k frames are does not depend on the frames behind them.
LEMMA KindAppend ==
  ASSUME NEW fs \in Seq(Frames), NEW k \in 0 .. Len(fs), NEW f \in Frames
  PROVE  /\ \A kind : Kind(kind, k, Append(fs, f)) = Kind(kind, k, fs)
         /\ \A i \in 1 .. k : PayloadOf(i, Append(fs, f)) = PayloadOf(i, fs)
<1>1. k \in Nat /\ k <= Len(fs) /\ Len(fs) \in Nat
  BY LenProperties
<1>2. \A i \in 1 .. k : Append(fs, f)[i] = fs[i]
  BY <1>1, AppendProperties
<1> QED BY <1>2 DEF Kind, PayloadOf

\* So that a frame that is sent leaves what was handed on as it is.
LEMMA DeliveredAppend ==
  ASSUME NEW fs \in Seq(Frames), NEW k \in 0 .. Len(fs), NEW f \in Frames, NEW got,
         Delivered(got, k, fs)
  PROVE  Delivered(got, k, Append(fs, f))
<1>1. PICK place : Placed(place, got, k, fs)
  BY DEF Delivered
<1>2. \A i \in DOMAIN got : place[i] \in 1 .. k
  BY <1>1 DEF Placed, Kind
<1>3. Placed(place, got, k, Append(fs, f))
  BY <1>1, <1>2, KindAppend DEF Placed
<1> QED BY <1>3 DEF Delivered

\* The frames of a kind when one frame more is counted.
LEMMA KindNext ==
  ASSUME NEW fs \in Seq(Frames), NEW k \in 0 .. Len(fs), k < Len(fs), NEW kind
  PROVE  /\ k + 1 \notin Kind(kind, k, fs)
         /\ fs[k + 1].kind = kind => Kind(kind, k + 1, fs) = Kind(kind, k, fs) \cup {k + 1}
         /\ fs[k + 1].kind # kind => Kind(kind, k + 1, fs) = Kind(kind, k, fs)
<1>1. k \in Nat /\ 1 .. k + 1 = (1 .. k) \cup {k + 1} /\ k + 1 \notin 1 .. k
  BY LenProperties
<1> QED BY <1>1 DEF Kind

\* A PING or a PONG is not handed on.
LEMMA DeliveredBeat ==
  ASSUME NEW fs \in Seq(Frames), NEW k \in 0 .. Len(fs), k < Len(fs), NEW got,
         Delivered(got, k, fs), fs[k + 1].kind # "MSG"
  PROVE  Delivered(got, k + 1, fs)
<1>1. Kind("MSG", k + 1, fs) = Kind("MSG", k, fs)
  BY KindNext
<1> QED BY <1>1 DEF Delivered, Placed

\* A message is handed on behind all others.
LEMMA DeliveredMsg ==
  ASSUME NEW fs \in Seq(Frames), NEW k \in 0 .. Len(fs), k < Len(fs), NEW got \in Seq(Seq(Byte)),
         Delivered(got, k, fs), fs[k + 1].kind = "MSG", PayloadOf(k + 1, fs) \in Seq(Byte)
  PROVE  Delivered(Append(got, PayloadOf(k + 1, fs)), k + 1, fs)
<1> DEFINE n    == Len(got)
           more == Append(got, PayloadOf(k + 1, fs))
           new  == Kind("MSG", k + 1, fs)
<1>1. PICK place : Placed(place, got, k, fs)
  BY DEF Delivered
<1>2. /\ n \in Nat /\ DOMAIN got = 1 .. n /\ DOMAIN more = 1 .. n + 1
      /\ \A i \in 1 .. n : more[i] = got[i]
      /\ more[n + 1] = PayloadOf(k + 1, fs)
  <2> DEFINE S == Seq(Byte)
             e == PayloadOf(k + 1, fs)
  <2>1. got \in Seq(S) /\ e \in S
    OBVIOUS
  <2> HIDE DEF S, e
  <2>2. /\ DOMAIN got = 1 .. Len(got) /\ Len(got) \in Nat
        /\ DOMAIN Append(got, e) = 1 .. Len(got) + 1
        /\ \A i \in DOMAIN got : Append(got, e)[i] = got[i]
        /\ Append(got, e)[Len(got) + 1] = e
    BY <2>1, AtAppend
  <2> QED BY <2>2 DEF e
<1>3. new = Kind("MSG", k, fs) \cup {k + 1} /\ k \in Nat
  <2>1. Kind("MSG", k + 1, fs) = Kind("MSG", k, fs) \cup {k + 1}
    BY KindNext
  <2>2. k \in Nat
    BY LenProperties
  <2> QED BY <2>1, <2>2
<1>4. \A i \in 1 .. n : place[i] \in Kind("MSG", k, fs) /\ place[i] \in 1 .. k
  BY <1>1, <1>2 DEF Placed, Kind
<1> DEFINE p == [i \in 1 .. n + 1 |-> IF i <= n THEN place[i] ELSE k + 1]
<1>5. \A i \in 1 .. n : p[i] = place[i]
  BY <1>2
<1>6. p[n + 1] = k + 1
  BY <1>2
<1>7. p \in [1 .. n + 1 -> new]
  BY <1>2, <1>3, <1>4
<1>8. 1 .. n + 1 = (1 .. n) \cup {n + 1}
  BY <1>2
<1> HIDE DEF p, n, more, new
<1>9. ASSUME NEW i \in 1 .. n + 1, NEW j \in 1 .. n + 1, i < j PROVE p[i] < p[j]
  <2>1. i \in 1 .. n
    BY <1>2, <1>9
  <2>2. CASE j = n + 1
    BY <2>1, <2>2, <1>3, <1>4, <1>5, <1>6
  <2>3. CASE j # n + 1
    <3>1. j \in 1 .. n
      BY <2>3, <1>8
    <3>2. place[i] < place[j]
      BY <1>1, <1>2, <1>9, <2>1, <3>1 DEF Placed
    <3> QED BY <2>1, <3>1, <3>2, <1>5
  <2> QED BY <2>2, <2>3
<1>10. ASSUME NEW m \in new PROVE \E i \in 1 .. n + 1 : p[i] = m
  <2>1. CASE m = k + 1
    <3>1. n + 1 \in 1 .. n + 1
      BY <1>8
    <3> QED BY <2>1, <3>1, <1>6
  <2>2. CASE m # k + 1
    <3>1. m \in Kind("MSG", k, fs)
      BY <2>2, <1>3
    <3>2. PICK i \in 1 .. n : place[i] = m
      BY <3>1, <1>1, <1>2 DEF Placed
    <3> QED BY <3>2, <1>5, <1>8
  <2> QED BY <2>1, <2>2
<1>11. ASSUME NEW i \in 1 .. n + 1 PROVE more[i] = PayloadOf(p[i], fs)
  <2>1. CASE i = n + 1
    BY <2>1, <1>2, <1>6
  <2>2. CASE i # n + 1
    <3>1. i \in 1 .. n
      BY <2>2, <1>8
    <3>2. got[i] = PayloadOf(place[i], fs)
      BY <3>1, <1>1, <1>2 DEF Placed
    <3> QED BY <3>1, <3>2, <1>2, <1>5
  <2> QED BY <2>1, <2>2
<1>12. Placed(p, more, k + 1, fs)
  BY <1>2, <1>7, <1>9, <1>10, <1>11 DEF Placed, new
<1> QED BY <1>12 DEF Delivered, more

\* A PING is one PONG more to be sent.
LEMMA PongsCounted ==
  ASSUME NEW fs \in Seq(Frames), NEW k \in 0 .. Len(fs), k < Len(fs)
  PROVE  /\ IsFiniteSet(Kind("PING", k, fs)) /\ Cardinality(Kind("PING", k, fs)) \in Nat
         /\ Cardinality(Kind("PING", k + 1, fs)) =
              IF fs[k + 1].kind = "PING" THEN Cardinality(Kind("PING", k, fs)) + 1
              ELSE Cardinality(Kind("PING", k, fs))
<1>1. Kind("PING", k, fs) \subseteq 1 .. k /\ k \in Int
  BY LenProperties DEF Kind
<1>2. IsFiniteSet(1 .. k)
  BY <1>1, FS_Interval
<1>3. IsFiniteSet(Kind("PING", k, fs)) /\ Cardinality(Kind("PING", k, fs)) \in Nat
  BY <1>1, <1>2, FS_Subset, FS_CardinalityType
<1>4. CASE fs[k + 1].kind = "PING"
  <2>1. Kind("PING", k + 1, fs) = Kind("PING", k, fs) \cup {k + 1} /\ k + 1 \notin Kind("PING", k, fs)
    BY <1>4, KindNext
  <2>2. Cardinality(Kind("PING", k, fs) \cup {k + 1}) = Cardinality(Kind("PING", k, fs)) + 1
    BY <2>1, <1>3, FS_AddElement
  <2> QED BY <2>1, <2>2, <1>3, <1>4
<1>5. CASE fs[k + 1].kind # "PING"
  <2>1. Kind("PING", k + 1, fs) = Kind("PING", k, fs)
    BY <1>5, KindNext
  <2> QED BY <2>1, <1>3, <1>5
<1> QED BY <1>4, <1>5

\* Before the first frame nothing has been handed on.
LEMMA NothingHandedOn ==
  ASSUME NEW fs
  PROVE  Delivered(<<>>, 0, fs) /\ Cardinality(Kind("PING", 0, fs)) = 0
<1>1. \A kind : Kind(kind, 0, fs) = {}
  BY DEF Kind
<1>2. DOMAIN <<>> = {}
  OBVIOUS
<1>3. Placed(<<>>, <<>>, 0, fs)
  BY <1>1, <1>2 DEF Placed
<1> QED BY <1>1, <1>3, FS_EmptySet DEF Delivered

-----------------------------------------------------------------------------
(* The end of the buffer is the end of the chunk.                          *)

\* A sequence is cut in two.
LEMMA SplitAt ==
  ASSUME NEW S, NEW w \in Seq(S), NEW n \in 0 .. Len(w)
  PROVE  /\ SubSeq(w, 1, n) \in Seq(S) /\ Len(SubSeq(w, 1, n)) = n
         /\ SubSeq(w, n + 1, Len(w)) \in Seq(S)
         /\ SubSeq(w, 1, n) \o SubSeq(w, n + 1, Len(w)) = w
<1>1. Len(w) \in Nat /\ n \in Nat /\ n <= Len(w) /\ \A i \in 1 .. Len(w) : w[i] \in S
  BY LenProperties, ElementOfSeq
<1> DEFINE p == SubSeq(w, 1, n)
           q == SubSeq(w, n + 1, Len(w))
<1>2. p \in Seq(S) /\ Len(p) = n /\ \A i \in 1 .. n : p[i] = w[i]
  <2>1. /\ p \in Seq(S) /\ Len(p) = IF 1 <= n THEN n - 1 + 1 ELSE 0
        /\ \A i \in 1 .. n - 1 + 1 : p[i] = w[1 + i - 1]
    BY <1>1, SubSeqProperties
  <2> HIDE DEF p
  <2> QED BY <2>1, <1>1
<1>3. /\ q \in Seq(S) /\ Len(q) = Len(w) - n
      /\ \A i \in 1 .. Len(w) - n : q[i] = w[i + n]
  BY AtDrop
<1> HIDE DEF p, q
<1>4. p \o q \in Seq(S) /\ Len(p \o q) = Len(w)
  BY <1>1, <1>2, <1>3, ConcatProperties
<1>5. ASSUME NEW i \in 1 .. Len(w) PROVE (p \o q)[i] = w[i]
  <2>1. (p \o q)[i] = IF i <= n THEN p[i] ELSE q[i - n]
    BY <1>1, <1>2, <1>3, ConcatProperties
  <2>2. i > n => i - n \in 1 .. Len(w) - n /\ (i - n) + n = i
    BY <1>1
  <2> QED BY <2>1, <2>2, <1>1, <1>2, <1>3
<1>6. p \o q = w
  BY <1>4, <1>5, SeqEqual
<1> QED BY <1>2, <1>3, <1>6 DEF p, q

\* Elements are dropped from the first of two sequences.
LEMMA DropConcat ==
  ASSUME NEW S, NEW p \in Seq(S), NEW q \in Seq(S), NEW n \in 0 .. Len(p)
  PROVE  SubSeq(p \o q, n + 1, Len(p \o q)) = SubSeq(p, n + 1, Len(p)) \o q
<1> DEFINE pq == p \o q
           r  == SubSeq(p, n + 1, Len(p))
           s  == SubSeq(pq, n + 1, Len(pq))
<1>1. n \in Nat /\ n <= Len(p) /\ Len(p) \in Nat /\ Len(q) \in Nat
  BY LenProperties
<1>2. /\ pq \in Seq(S) /\ Len(pq) = Len(p) + Len(q)
      /\ \A i \in 1 .. Len(p) + Len(q) : pq[i] = IF i <= Len(p) THEN p[i] ELSE q[i - Len(p)]
  BY ConcatProperties
<1>3. /\ r \in Seq(S) /\ Len(r) = Len(p) - n
      /\ \A i \in 1 .. Len(p) - n : r[i] = p[i + n]
  BY AtDrop
<1> HIDE DEF pq
<1>4. /\ s \in Seq(S) /\ Len(s) = Len(pq) - n
      /\ \A i \in 1 .. Len(pq) - n : s[i] = pq[i + n]
  <2>1. n \in 0 .. Len(pq)
    BY <1>1, <1>2
  <2> QED BY <1>2, <2>1, AtDrop
<1> HIDE DEF r, s
<1>5. /\ r \o q \in Seq(S) /\ Len(r \o q) = Len(r) + Len(q)
      /\ \A i \in 1 .. Len(r) + Len(q) : (r \o q)[i] = IF i <= Len(r) THEN r[i] ELSE q[i - Len(r)]
  BY <1>3, ConcatProperties
<1>6. ASSUME NEW i \in 1 .. Len(s) PROVE s[i] = (r \o q)[i]
  <2>1. i + n \in 1 .. Len(p) + Len(q) /\ i \in 1 .. Len(r) + Len(q) /\ i \in Nat
    BY <1>1, <1>2, <1>3, <1>4
  <2>2. s[i] = IF i + n <= Len(p) THEN p[i + n] ELSE q[(i + n) - Len(p)]
    BY <2>1, <1>2, <1>4
  <2>3. i + n <= Len(p) <=> i <= Len(r)
    BY <2>1, <1>1, <1>3
  <2>4. (i + n) - Len(p) = i - Len(r)
    BY <2>1, <1>1, <1>3
  <2>5. i <= Len(r) => r[i] = p[i + n]
    BY <2>1, <1>1, <1>3
  <2> QED BY <2>1, <2>2, <2>3, <2>4, <2>5, <1>5
<1>7. Len(s) = Len(r \o q)
  BY <1>1, <1>2, <1>3, <1>4, <1>5
<1>8. s = r \o q
  BY <1>4, <1>5, <1>6, <1>7, SeqEqual
<1> QED BY <1>8 DEF s, r, pq

\* The two end with the same bytes, as far as the shorter one goes.
EndOf(bytes, chunk) ==
  \A i \in 1 .. Len(bytes), j \in 1 .. Len(chunk) :
    i + Len(chunk) = j + Len(bytes) => bytes[i] = chunk[j]

\* A buffer ends with the chunk that was added last,
LEMMA EndOfConcat ==
  ASSUME NEW S, NEW p \in Seq(S), NEW c \in Seq(S)
  PROVE  EndOf(p \o c, c)
<1>1. Len(p) \in Nat /\ Len(c) \in Nat
  BY LenProperties
<1>2. /\ Len(p \o c) = Len(p) + Len(c)
      /\ \A i \in 1 .. Len(p) + Len(c) : (p \o c)[i] = IF i <= Len(p) THEN p[i] ELSE c[i - Len(p)]
  BY ConcatProperties
<1> SUFFICES ASSUME NEW i \in 1 .. Len(p) + Len(c), NEW j \in 1 .. Len(c),
                    i + Len(c) = j + (Len(p) + Len(c))
             PROVE  (p \o c)[i] = c[j]
  BY <1>2 DEF EndOf
<1>3. ~ (i <= Len(p)) /\ i - Len(p) = j
  BY <1>1
<1> QED BY <1>2, <1>3

\* and still does when its front is used up.
LEMMA EndOfDrop ==
  ASSUME NEW S, NEW p \in Seq(S), NEW c \in Seq(S), NEW n \in 0 .. Len(p), EndOf(p, c)
  PROVE  EndOf(SubSeq(p, n + 1, Len(p)), c)
<1> DEFINE r == SubSeq(p, n + 1, Len(p))
<1>1. n \in Nat /\ n <= Len(p) /\ Len(p) \in Nat /\ Len(c) \in Nat
  BY LenProperties
<1>2. /\ r \in Seq(S) /\ Len(r) = Len(p) - n
      /\ \A i \in 1 .. Len(p) - n : r[i] = p[i + n]
  BY AtDrop
<1> HIDE DEF r
<1>3. ASSUME NEW i \in 1 .. Len(r), NEW j \in 1 .. Len(c), i + Len(c) = j + Len(r)
      PROVE  r[i] = c[j]
  <2>1. i + n \in 1 .. Len(p) /\ (i + n) + Len(c) = j + Len(p)
    BY <1>1, <1>2, <1>3
  <2>2. p[i + n] = c[j]
    BY <2>1 DEF EndOf
  <2> QED BY <2>2, <1>2
<1>4. EndOf(r, c)
  BY <1>3 DEF EndOf
<1> QED BY <1>4 DEF r

\* So that the last bytes of the chunk are what is behind a message in the buffer,
\* when the chunk has that many.
LEMMA LastIsRest ==
  ASSUME NEW p \in Seq(Byte), NEW c \in Seq(Byte), NEW n \in 0 .. Len(p), EndOf(p, c),
         Len(p) - n <= Len(c)
  PROVE  LastOf(c, Len(p) - n) = SubSeq(p, n + 1, Len(p))
<1> DEFINE r == SubSeq(p, n + 1, Len(p))
           L == Len(p) - n
<1>1. n \in Nat /\ n <= Len(p) /\ Len(p) \in Nat /\ Len(c) \in Nat
  BY LenProperties
<1>2. /\ r \in Seq(Byte) /\ Len(r) = L
      /\ \A i \in 1 .. L : r[i] = p[i + n]
  BY AtDrop
<1> HIDE DEF r
<1>3. L \in Nat /\ L <= Len(c)
  BY <1>1
<1>4. ASSUME NEW i \in 1 .. L PROVE i + Len(c) > L /\ c[i + Len(c) - L] = r[i]
  <2>1. i + Len(c) > L /\ i + n \in 1 .. Len(p) /\ i + Len(c) - L \in 1 .. Len(c)
    BY <1>1, <1>3
  <2>2. (i + n) + Len(c) = (i + Len(c) - L) + Len(p)
    BY <1>1
  <2>3. p[i + n] = c[i + Len(c) - L]
    BY <2>1, <2>2 DEF EndOf
  <2> QED BY <2>1, <2>3, <1>2
<1> HIDE DEF L
<1>5. LastOf(c, L) = [i \in 1 .. L |-> r[i]]
  BY <1>4 DEF LastOf
<1>6. r = [i \in 1 .. L |-> r[i]]
  BY <1>2, LenProperties
<1> QED BY <1>5, <1>6 DEF r, L

-----------------------------------------------------------------------------
(* The receiver in step with the stream, as a relation of a state of the   *)
(* receiver, the wire, the frames and how many of them are worked off: one *)
(* lemma for each thing that happens to it.                                *)

\* The receiver is in step with the stream: it has worked off the first k frames
\* of fs.  b is the buffer, w the wire, c the chunk that onBuff is working on.
Synced(b, w, c, got, pongs, fs, k) ==
  /\ InOrder(b.bytes \o w, k, fs)
  /\ Delivered(got, k, fs)
  /\ pongs = Cardinality(Kind("PING", k, fs))
  /\ HeadsWhole(b)
  /\ k < Len(fs) => Len(b.bytes) < FrameLen(fs[k + 1]) + Len(c)
  /\ EndOf(b.bytes, c)

\* At the start of a connection.
LEMMA SyncedStart ==
  Synced(Buf!Empty, <<>>, <<>>, <<>>, 0, <<>>, 0)
<1>1. Buf!Empty.bytes = <<>> /\ HeadsWhole(Buf!Empty) /\ Len(<<>>) = 0
  BY EmptyBuffer
<1>2. <<>> \o <<>> = <<>>
  BY EmptySeq, ConcatEmptySeq
<1>3. InOrder(<<>>, 0, <<>>)
  <2>1. DOMAIN <<>> = {} /\ 1 .. Len(<<>>) = {}
    BY <1>1
  <2> QED BY <2>1 DEF InOrder, Contained, Covered, FrameByFrame, InOneRun
<1>4. EndOf(<<>>, <<>>)
  BY <1>1 DEF EndOf
<1> QED BY <1>1, <1>2, <1>3, <1>4, NothingHandedOn DEF Synced

\* Concatenation of bytes is associative.
LEMMA Regroup ==
  \A p, q, r \in Seq(Byte) : (p \o q) \o r = p \o (q \o r)
  BY ConcatAssociative, SMTT(30)

\* A chunk is taken from the wire into the buffer.
LEMMA SyncedRead ==
  ASSUME NEW fs \in Seq(Frames), NEW k \in 0 .. Len(fs), NEW b \in BufType, Buf!BufferOK(b),
         NEW w \in Seq(Byte), NEW got, NEW pongs, NEW n \in 0 .. Len(w),
         Synced(b, w, <<>>, got, pongs, fs, k)
  PROVE  Synced(Buf!Add(b, SubSeq(w, 1, n)), SubSeq(w, n + 1, Len(w)), SubSeq(w, 1, n),
                got, pongs, fs, k)
<1> DEFINE p == SubSeq(w, 1, n)
           r == SubSeq(w, n + 1, Len(w))
           d == Buf!Add(b, p)
<1>1. p \in Seq(Byte) /\ Len(p) = n /\ r \in Seq(Byte) /\ p \o r = w
  BY SplitAt
<1>2. b.bytes \in Seq(Byte) /\ Len(b.bytes) \in Nat
  BY LenProperties DEF BufType
<1> HIDE DEF p, r
<1>3. d.bytes = b.bytes \o p
  BY <1>1, AddBuffer
<1>4. HeadsWhole(d)
  BY <1>1, AddBuffer DEF Synced
<1> HIDE DEF d
<1>5. d.bytes \o r = b.bytes \o w
  <2>1. (b.bytes \o p) \o r = b.bytes \o (p \o r)
    <3>1. b.bytes \in Seq(Byte) /\ p \in Seq(Byte) /\ r \in Seq(Byte)
      BY <1>1, <1>2
    <3> QED BY <3>1, Regroup, ZenonT(60)
  <2> QED BY <2>1, <1>1, <1>3
<1>6. Len(d.bytes) = Len(b.bytes) + Len(p) /\ Len(p) \in Nat
  BY <1>1, <1>2, <1>3, ConcatProperties, LenProperties
<1>7. ASSUME k < Len(fs) PROVE Len(d.bytes) < FrameLen(fs[k + 1]) + Len(p)
  <2>1. Len(b.bytes) < FrameLen(fs[k + 1]) + Len(<<>>)
    BY <1>7 DEF Synced
  <2>2. fs[k + 1] \in Frames
    BY <1>7, LenProperties
  <2>3. FrameLen(fs[k + 1]) \in Nat /\ Len(<<>>) = 0
    BY <2>2, FrameLength, EmptyBuffer
  <2> QED BY <2>1, <2>3, <1>2, <1>6
<1>8. EndOf(d.bytes, p)
  BY <1>1, <1>2, <1>3, EndOfConcat
<1>9. Synced(d, r, p, got, pongs, fs, k)
  BY <1>4, <1>5, <1>7, <1>8 DEF Synced
<1> QED BY <1>9 DEF d, p, r

\* A frame is sent, also while onBuff runs.
LEMMA SyncedSend ==
  ASSUME NEW fs \in Seq(Frames), NEW k \in 0 .. Len(fs), NEW b \in BufType,
         NEW w \in Seq(Byte), NEW c \in Seq(Byte), NEW got, NEW pongs,
         NEW f \in Frames, Len(fs) < MaxFrames, Synced(b, w, c, got, pongs, fs, k)
  PROVE  Synced(b, w \o FrameBytes(Len(fs) + 1, f), c, got, pongs, Append(fs, f), k)
<1> DEFINE gs == Append(fs, f)
           m  == Len(fs) + 1
           fb == FrameBytes(m, f)
<1>1. Len(fs) \in Nat /\ k \in Nat /\ k <= Len(fs) /\ m \in 0 .. MaxFrames
  BY LenProperties, NetMsgAssumption
<1>2. b.bytes \in Seq(Byte) /\ Len(b.bytes) \in Nat /\ Len(c) \in Nat
  BY LenProperties DEF BufType
<1>3. fb \in Seq(Byte)
  <2> HIDE DEF m
  <2>1. \A k1 \in 0 .. MaxFrames : FrameBytes(k1, f) \in Seq(Byte)
    BY FrameBytesType
  <2> QED BY <2>1, <1>1
<1>4. InOrder((b.bytes \o w) \o fb, k, gs)
  <2>1. b.bytes \o w \in Seq(Byte)
    BY <1>2, ConcatProperties
  <2> QED BY <2>1, OrderAppend DEF Synced
<1> HIDE DEF fb
<1>5. (b.bytes \o w) \o fb = b.bytes \o (w \o fb)
  <2>1. b.bytes \in Seq(Byte) /\ w \in Seq(Byte) /\ fb \in Seq(Byte)
    BY <1>2, <1>3
  <2> QED BY <2>1, Regroup, ZenonT(60)
<1>6. ASSUME k < Len(gs) PROVE Len(b.bytes) < FrameLen(gs[k + 1]) + Len(c)
  <2>1. CASE k < Len(fs)
    <3>1. gs[k + 1] = fs[k + 1]
      BY <2>1, <1>1, AppendProperties
    <3> QED BY <2>1, <3>1 DEF Synced
  <2>2. CASE k = Len(fs)
    <3>1. gs[k + 1] = f
      BY <2>2, AppendProperties
    <3>2. b.bytes \o w = <<>>
      <4>1. b.bytes \o w \in Seq(Byte)
        BY <1>2, ConcatProperties
      <4> QED BY <4>1, <2>2, OrderEmpty DEF Synced
    <3>3. b.bytes = <<>>
      BY <3>2, <1>2, ConcatEqualIffEmpty
    <3>4. Len(b.bytes) = 0 /\ FrameLen(f) \in Nat \ {0}
      BY <3>3, EmptyBuffer, FrameLength
    <3> QED BY <3>1, <3>4, <1>2
  <2> QED BY <2>1, <2>2, <1>1
<1>7. Delivered(got, k, gs) /\ Kind("PING", k, gs) = Kind("PING", k, fs)
  BY DeliveredAppend, KindAppend DEF Synced
<1> HIDE DEF gs
<1>8. Synced(b, w \o fb, c, got, pongs, gs, k)
  BY <1>4, <1>5, <1>6, <1>7 DEF Synced
<1> QED BY <1>8 DEF gs, fb, m

\* In step, a whole head in the buffer is the head of the next frame.
LEMMA SyncedHead ==
  ASSUME NEW fs \in Seq(Frames), NEW k \in 0 .. Len(fs), NEW b \in BufType, Buf!BufferOK(b),
         NEW w \in Seq(Byte), NEW c, NEW got, NEW pongs,
         Synced(b, w, c, got, pongs, fs, k), HeadLen <= b.length
  PROVE  /\ k < Len(fs)
         /\ Len(Buf!HeadBlockData(b)) >= HeadLen
         /\ \A i \in 1 .. HeadLen :
              Buf!HeadBlockData(b)[i] = [frame |-> k + 1, at |-> i]
<1> DEFINE q == b.bytes \o w
<1>1. b.bytes \in Seq(Byte) /\ Len(b.bytes) \in Nat /\ Len(w) \in Nat /\ HeadLen \in Nat \ {0}
  BY LenProperties, NetMsgAssumption DEF BufType
<1>2. b.length = Len(b.bytes)
  BY DEF Buf!BufferOK
<1>3. /\ q \in Seq(Byte) /\ Len(q) = Len(b.bytes) + Len(w)
      /\ \A i \in 1 .. Len(b.bytes) : q[i] = b.bytes[i]
  BY <1>1, AtConcat, LenProperties
<1>4. InOrder(q, k, fs)
  BY DEF Synced
<1> HIDE DEF q
<1>5. k < Len(fs)
  <2> SUFFICES ASSUME k = Len(fs) PROVE FALSE
    BY LenProperties
  <2>1. q = <<>>
    BY <1>3, <1>4, OrderEmpty
  <2> QED BY <2>1, <1>1, <1>2, <1>3, EmptyBuffer
<1>6. \A a \in 1 .. FrameLen(fs[k + 1]) : a \in DOMAIN q /\ q[a].frame = k + 1 /\ q[a].at = a
  BY <1>3, <1>4, <1>5, OrderFront
<1>7. FrameLen(fs[k + 1]) \in Nat /\ FrameLen(fs[k + 1]) >= HeadLen
  <2>1. fs[k + 1] \in Frames
    BY <1>5, LenProperties
  <2> QED BY <2>1, FrameLength
<1>8. ASSUME NEW i \in 1 .. HeadLen PROVE b.bytes[i] = [frame |-> k + 1, at |-> i]
  <2>1. i \in 1 .. FrameLen(fs[k + 1]) /\ i \in 1 .. Len(b.bytes)
    BY <1>1, <1>2, <1>7
  <2>2. q[i] \in Byte /\ q[i].frame = k + 1 /\ q[i].at = i /\ q[i] = b.bytes[i]
    BY <2>1, <1>3, <1>6, ByteFields
  <2> QED BY <2>2 DEF Byte
<1>9. HeadsWhole(b)
  BY DEF Synced
<1> QED BY <1>5, <1>8, <1>9, HeadShown

\* D is what is left of B bytes without the first F.
LEMMA ShorterBy ==
  \A B, C, D, F, G \in Nat : D = B - F /\ B < F + C => D < G + C
  OBVIOUS

\* The bytes of the next frame are dropped from the buffer, and it is dealt with.
LEMMA SyncedDrop ==
  ASSUME NEW fs \in Seq(Frames), NEW k \in 0 .. Len(fs), k < Len(fs),
         NEW b \in BufType, NEW d \in BufType,
         NEW w \in Seq(Byte), NEW c \in Seq(Byte), NEW got, NEW more, NEW pongs, NEW sum,
         Synced(b, w, c, got, pongs, fs, k), FrameLen(fs[k + 1]) <= Len(b.bytes),
         d.bytes = SubSeq(b.bytes, FrameLen(fs[k + 1]) + 1, Len(b.bytes)), HeadsWhole(d),
         Delivered(more, k + 1, fs), sum = Cardinality(Kind("PING", k + 1, fs))
  PROVE  Synced(d, w, c, more, sum, fs, k + 1)
<1> DEFINE F == FrameLen(fs[k + 1])
<1>1. b.bytes \in Seq(Byte) /\ Len(b.bytes) \in Nat /\ Len(c) \in Nat /\ Len(fs) \in Nat
  BY LenProperties DEF BufType
<1>2. F \in Nat /\ F \in 0 .. Len(b.bytes)
  <2>1. fs[k + 1] \in Frames
    BY LenProperties
  <2> QED BY <2>1, <1>1, FrameLength
<1>3. InOrder(SubSeq(b.bytes \o w, F + 1, Len(b.bytes \o w)), k + 1, fs)
  <2>1. b.bytes \o w \in Seq(Byte) /\ InOrder(b.bytes \o w, k, fs)
    BY <1>1, ConcatProperties DEF Synced
  <2> QED BY <2>1, OrderDrop
<1>4. SubSeq(b.bytes \o w, F + 1, Len(b.bytes \o w)) = d.bytes \o w
  <2> HIDE DEF F
  <2>1. SubSeq(b.bytes \o w, F + 1, Len(b.bytes \o w)) = SubSeq(b.bytes, F + 1, Len(b.bytes)) \o w
    BY <1>1, <1>2, DropConcat
  <2> QED BY <2>1 DEF F
<1>5. Len(d.bytes) = Len(b.bytes) - F /\ EndOf(d.bytes, c)
  <2>1. EndOf(b.bytes, c)
    BY DEF Synced
  <2> HIDE DEF F
  <2>2. d.bytes = SubSeq(b.bytes, F + 1, Len(b.bytes))
    BY DEF F
  <2>3. Len(d.bytes) = Len(b.bytes) - F
    BY <2>2, <1>1, <1>2, AtDrop
  <2>4. EndOf(d.bytes, c)
    BY <2>1, <2>2, <1>1, <1>2, EndOfDrop
  <2> QED BY <2>3, <2>4
<1>6. Len(b.bytes) < F + Len(c)
  BY DEF Synced
<1>7. ASSUME k + 1 < Len(fs) PROVE Len(d.bytes) < FrameLen(fs[k + 2]) + Len(c)
  <2>1. fs[k + 2] \in Frames
    BY <1>7, LenProperties
  <2>2. FrameLen(fs[k + 2]) \in Nat
    BY <2>1, FrameLength
  <2>3. Len(d.bytes) = Len(b.bytes) - F
    BY <1>5
  <2> HIDE DEF F
  <2>4. Len(d.bytes) \in Nat
    BY LenProperties DEF BufType
  <2>5. Len(b.bytes) \in Nat /\ Len(c) \in Nat /\ F \in Nat /\ Len(b.bytes) < F + Len(c)
    BY <1>1, <1>2, <1>6
  <2> DEFINE B == Len(b.bytes) C == Len(c) D == Len(d.bytes) G == FrameLen(fs[k + 2])
  <2>6. B \in Nat /\ C \in Nat /\ D \in Nat /\ G \in Nat /\ F \in Nat /\ D = B - F /\ B < F + C
    BY <2>2, <2>3, <2>4, <2>5
  <2> HIDE DEF B, C, D, G
  <2>7. D < G + C
    BY <2>6, ShorterBy
  <2> QED BY <2>7 DEF D, G, C
<1>8. (k + 1) + 1 = k + 2
  BY LenProperties
<1> QED BY <1>3, <1>4, <1>5, <1>7, <1>8 DEF Synced

\* In step, the buffer begins with the bytes of the next frame, in their places.
LEMMA SyncedFront ==
  ASSUME NEW fs \in Seq(Frames), NEW k \in 0 .. Len(fs), k < Len(fs), NEW b \in BufType,
         NEW w \in Seq(Byte), NEW c, NEW got, NEW pongs, Synced(b, w, c, got, pongs, fs, k)
  PROVE  \A a \in 1 .. FrameLen(fs[k + 1]) :
           a <= Len(b.bytes) => b.bytes[a] = [frame |-> k + 1, at |-> a]
<1> DEFINE q == b.bytes \o w
<1>1. b.bytes \in Seq(Byte) /\ Len(b.bytes) \in Nat
  BY LenProperties DEF BufType
<1>2. q \in Seq(Byte) /\ \A i \in 1 .. Len(b.bytes) : q[i] = b.bytes[i]
  BY <1>1, AtConcat, LenProperties
<1>3. InOrder(q, k, fs)
  BY DEF Synced
<1> HIDE DEF q
<1>4. \A a \in 1 .. FrameLen(fs[k + 1]) : a \in DOMAIN q /\ q[a].frame = k + 1 /\ q[a].at = a
  BY <1>2, <1>3, OrderFront
<1>5. FrameLen(fs[k + 1]) \in Nat
  BY <1>2, <1>3, OrderFront
<1> SUFFICES ASSUME NEW a \in 1 .. FrameLen(fs[k + 1]), a <= Len(b.bytes)
             PROVE  b.bytes[a] = [frame |-> k + 1, at |-> a]
  OBVIOUS
<1>6. a \in 1 .. Len(b.bytes)
  BY <1>1, <1>5
<1>7. q[a] \in Byte /\ q[a].frame = k + 1 /\ q[a].at = a /\ q[a] = b.bytes[a]
  BY <1>2, <1>4, <1>6, ByteFields
<1> QED BY <1>7 DEF Byte

\* A PING or PONG is dropped from the buffer.
LEMMA SyncedBeat ==
  ASSUME NEW fs \in Seq(Frames), NEW k \in 0 .. Len(fs), k < Len(fs),
         NEW b \in BufType, Buf!BufferOK(b), HeadLen <= b.length,
         NEW w \in Seq(Byte), NEW c \in Seq(Byte), NEW got, NEW pongs,
         Synced(b, w, c, got, pongs, fs, k), fs[k + 1].kind # "MSG"
  PROVE  Synced(Buf!Pop(b, HeadLen), w, c, got,
                IF fs[k + 1].kind = "PING" THEN pongs + 1 ELSE pongs, fs, k + 1)
<1> DEFINE d == Buf!Pop(b, HeadLen)
           sum == IF fs[k + 1].kind = "PING" THEN pongs + 1 ELSE pongs
<1>1. FrameLen(fs[k + 1]) = HeadLen
  BY DEF FrameLen
<1>2. HeadsWhole(b) /\ Delivered(got, k, fs) /\ pongs = Cardinality(Kind("PING", k, fs))
  BY DEF Synced
<1>3. d \in BufType /\ d.bytes = SubSeq(b.bytes, HeadLen + 1, Len(b.bytes)) /\ HeadsWhole(d)
  BY <1>2, PopBuffer
<1>4. HeadLen <= Len(b.bytes)
  BY DEF Buf!BufferOK
<1>5. Delivered(got, k + 1, fs)
  BY <1>2, DeliveredBeat
<1>6. sum = Cardinality(Kind("PING", k + 1, fs))
  BY <1>2, PongsCounted
<1> HIDE DEF d, sum
<1>7. Synced(d, w, c, got, sum, fs, k + 1)
  BY <1>1, <1>3, <1>4, <1>5, <1>6, SyncedDrop
<1> QED BY <1>7 DEF d, sum

\* Sequences with the same first n elements have the same slices of those.
LEMMA SameSlice ==
  ASSUME NEW S, NEW T, NEW p \in Seq(S), NEW q \in Seq(T), NEW h \in Nat, NEW n \in Nat, h <= n,
         n <= Len(p), n <= Len(q), \A i \in 1 .. n : p[i] = q[i]
  PROVE  SubSeq(p, h + 1, n) = SubSeq(q, h + 1, n) /\ SubSeq(p, h + 1, n) \in Seq(S)
<1>1. Len(p) \in Nat /\ Len(q) \in Nat
  BY LenProperties
<1>2. /\ SubSeq(p, h + 1, n) \in Seq(S) /\ Len(SubSeq(p, h + 1, n)) = n - h
      /\ \A i \in 1 .. n - h : SubSeq(p, h + 1, n)[i] = p[h + i]
  <2>1. h + 1 \in 1 .. Len(p) + 1 /\ n \in (h + 1) - 1 .. Len(p) /\ n - (h + 1) + 1 = n - h
    BY <1>1
  <2>2. \A i \in 1 .. n - h : (h + 1) + i - 1 = h + i
    OBVIOUS
  <2> QED BY <2>1, <2>2, SubSeqProperties
<1>3. /\ SubSeq(q, h + 1, n) \in Seq(T) /\ Len(SubSeq(q, h + 1, n)) = n - h
      /\ \A i \in 1 .. n - h : SubSeq(q, h + 1, n)[i] = q[h + i]
  <2>1. h + 1 \in 1 .. Len(q) + 1 /\ n \in (h + 1) - 1 .. Len(q) /\ n - (h + 1) + 1 = n - h
    BY <1>1
  <2>2. \A i \in 1 .. n - h : (h + 1) + i - 1 = h + i
    OBVIOUS
  <2> QED BY <2>1, <2>2, SubSeqProperties
<1>4. \A i \in 1 .. n - h : h + i \in 1 .. n
  OBVIOUS
<1> DEFINE a == SubSeq(p, h + 1, n)
           b == SubSeq(q, h + 1, n)
<1>5. a \in Seq(S) /\ b \in Seq(T) /\ Len(a) = Len(b) /\ \A i \in 1 .. Len(a) : a[i] = b[i]
  BY <1>2, <1>3, <1>4
<1> HIDE DEF a, b
<1>6. a = b
  BY <1>5, SeqEqual
<1> QED BY <1>5, <1>6 DEF a, b

\* For bytes and their places in a frame.
LEMMA SameSliceOfBytes ==
  \A p \in Seq(Byte), r \in Seq([frame : Nat, at : Nat]), h, n \in Nat :
    h <= n /\ n <= Len(p) /\ n <= Len(r) /\ (\A i \in 1 .. n : p[i] = r[i]) =>
      SubSeq(p, h + 1, n) = SubSeq(r, h + 1, n) /\ SubSeq(p, h + 1, n) \in Seq(Byte)
<1> SUFFICES ASSUME NEW p \in Seq(Byte), NEW r \in Seq([frame : Nat, at : Nat]),
                    NEW h \in Nat, NEW n \in Nat, h <= n, n <= Len(p), n <= Len(r),
                    \A i \in 1 .. n : p[i] = r[i]
             PROVE  SubSeq(p, h + 1, n) = SubSeq(r, h + 1, n) /\ SubSeq(p, h + 1, n) \in Seq(Byte)
  OBVIOUS
<1> QED BY SameSlice

\* What a message hands on is what its frame carries.
LEMMA FrontIsPayload ==
  ASSUME NEW fs \in Seq(Frames), NEW k \in 0 .. Len(fs), k < Len(fs), NEW b \in BufType,
         NEW w \in Seq(Byte), NEW c, NEW got, NEW pongs, Synced(b, w, c, got, pongs, fs, k),
         FrameLen(fs[k + 1]) <= Len(b.bytes)
  PROVE  /\ SubSeq(b.bytes, HeadLen + 1, FrameLen(fs[k + 1])) = PayloadOf(k + 1, fs)
         /\ PayloadOf(k + 1, fs) \in Seq(Byte)
<1> DEFINE F == FrameLen(fs[k + 1])
           g == FrameBytes(k + 1, fs[k + 1])
<1>1. b.bytes \in Seq(Byte) /\ Len(b.bytes) \in Nat
  BY LenProperties DEF BufType
<1>2. F \in Nat /\ HeadLen \in Nat /\ HeadLen <= F
  <2>1. fs[k + 1] \in Frames
    BY LenProperties
  <2> QED BY <2>1, FrameLength
<1>3. \A a \in 1 .. F : b.bytes[a] = [frame |-> k + 1, at |-> a]
  <2>1. \A a \in 1 .. F : a <= Len(b.bytes) => b.bytes[a] = [frame |-> k + 1, at |-> a]
    BY SyncedFront
  <2> HIDE DEF F
  <2>2. F <= Len(b.bytes)
    BY DEF F
  <2> QED BY <2>1, <2>2, <1>1, <1>2
<1>4. \A a \in 1 .. F : g[a] = [frame |-> k + 1, at |-> a]
  BY DEF FrameBytes
<1>5. g \in Seq([frame : Nat, at : Nat]) /\ Len(g) = F
  <2>1. k + 1 \in Nat
    BY LenProperties
  <2>2. g = [i \in 1 .. F |-> [frame |-> k + 1, at |-> i]]
    BY DEF FrameBytes
  <2> HIDE DEF F, g
  <2>3. \A i \in 1 .. F : [frame |-> k + 1, at |-> i] \in [frame : Nat, at : Nat]
    BY <1>2, <2>1
  <2> QED BY <1>2, <2>2, <2>3
<1>6. SubSeq(b.bytes, HeadLen + 1, F) = SubSeq(g, HeadLen + 1, F)
      /\ SubSeq(b.bytes, HeadLen + 1, F) \in Seq(Byte)
  <2>1. F <= Len(b.bytes)
    OBVIOUS
  <2> HIDE DEF F, g
  <2>2. \A a \in 1 .. F : b.bytes[a] = g[a]
    BY <1>3, <1>4
  <2>3. PICK p \in Seq(Byte) : p = b.bytes
    BY <1>1
  <2>4. PICK r \in Seq([frame : Nat, at : Nat]) : r = g
    BY <1>5
  <2>5. PICK n \in Nat : n = F
    BY <1>2
  <2>6. HeadLen \in Nat /\ HeadLen <= n /\ n <= Len(p)
    BY <2>1, <2>3, <2>5, <1>2, Zenon
  <2>7. Len(r) = n
    BY <2>4, <2>5, <1>5, Zenon
  <2>8. n <= Len(r)
    BY <2>7
  <2>9. \A a \in 1 .. n : p[a] = r[a]
    BY <2>2, <2>3, <2>4, <2>5, Zenon
  <2>10. SubSeq(p, HeadLen + 1, n) = SubSeq(r, HeadLen + 1, n)
         /\ SubSeq(p, HeadLen + 1, n) \in Seq(Byte)
    BY <2>6, <2>8, <2>9, SameSliceOfBytes
  <2> QED BY <2>3, <2>4, <2>5, <2>10, Zenon
<1> QED BY <1>6 DEF PayloadOf

\* A whole message is handed on, and what follows it is read again from the chunk.
LEMMA SyncedMsg ==
  ASSUME NEW fs \in Seq(Frames), NEW k \in 0 .. Len(fs), k < Len(fs),
         NEW b \in BufType, Buf!BufferOK(b), NEW total, total = FrameLen(fs[k + 1]),
         total <= b.length, NEW w \in Seq(Byte), NEW c \in Seq(Byte),
         NEW got \in Seq(Seq(Byte)), NEW pongs,
         Synced(b, w, c, got, pongs, fs, k), fs[k + 1].kind = "MSG"
  PROVE  /\ SubSeq(Buf!Bytes(b), HeadLen + 1, total) \in Seq(Byte)
         /\ LastOf(c, b.length - total) \in Seq(Byte)
         /\ LastOf(c, b.length - total) = SubSeq(b.bytes, total + 1, Len(b.bytes))
         /\ Synced(Buf!Add(Buf!Empty, LastOf(c, b.length - total)), w, c,
                   Append(got, SubSeq(Buf!Bytes(b), HeadLen + 1, total)), pongs, fs, k + 1)
<1> DEFINE F == FrameLen(fs[k + 1])
           rest == LastOf(c, b.length - total)
           msg == SubSeq(Buf!Bytes(b), HeadLen + 1, total)
           d == Buf!Add(Buf!Empty, rest)
<1>1. b.bytes \in Seq(Byte) /\ Len(b.bytes) \in Nat /\ Len(c) \in Nat /\ b.length = Len(b.bytes)
  BY LenProperties DEF BufType, Buf!BufferOK
<1>2. F \in Nat /\ F = total /\ F <= Len(b.bytes)
  <2>1. fs[k + 1] \in Frames
    BY LenProperties
  <2> QED BY <2>1, <1>1, FrameLength
<1>3. Len(b.bytes) < F + Len(c) /\ EndOf(b.bytes, c) /\ Delivered(got, k, fs)
      /\ pongs = Cardinality(Kind("PING", k, fs))
  BY DEF Synced
<1>4. rest = SubSeq(b.bytes, F + 1, Len(b.bytes))
  <2> HIDE DEF F
  <2>1. F \in 0 .. Len(b.bytes) /\ Len(b.bytes) - F <= Len(c)
    BY <1>1, <1>2, <1>3
  <2>2. LastOf(c, Len(b.bytes) - F) = SubSeq(b.bytes, F + 1, Len(b.bytes))
    BY <2>1, <1>1, <1>3, LastIsRest
  <2> QED BY <2>2, <1>1, <1>2
<1>5. rest \in Seq(Byte)
  <2> HIDE DEF F, rest
  <2>1. F \in 0 .. Len(b.bytes)
    BY <1>1, <1>2
  <2> QED BY <2>1, <1>1, <1>4, AtDrop
<1>6. msg = PayloadOf(k + 1, fs) /\ PayloadOf(k + 1, fs) \in Seq(Byte)
  BY <1>2, FrontIsPayload DEF Buf!Bytes
<1> HIDE DEF rest, msg
<1>7. d \in BufType /\ d.bytes = rest /\ HeadsWhole(d)
  <2>1. d \in BufType /\ d.bytes = Buf!Empty.bytes \o rest /\ HeadsWhole(d)
    BY <1>5, EmptyBuffer, AddBuffer
  <2>2. <<>> \o rest = rest
    BY <1>5, ConcatEmptySeq
  <2> QED BY <2>1, <2>2, EmptyBuffer
<1>8. Delivered(Append(got, msg), k + 1, fs)
  BY <1>3, <1>6, DeliveredMsg
<1>9. pongs = Cardinality(Kind("PING", k + 1, fs))
  BY <1>3, PongsCounted
<1> HIDE DEF d
<1>10. Synced(d, w, c, Append(got, msg), pongs, fs, k + 1)
  BY <1>2, <1>4, <1>7, <1>8, <1>9, SyncedDrop
<1> QED BY <1>2, <1>4, <1>5, <1>6, <1>10 DEF d, rest, msg

\* onBuff returns when the next frame is not whole.
LEMMA SyncedEnd ==
  ASSUME NEW fs, NEW k, NEW b, NEW w, NEW c, NEW got, NEW pongs,
         Synced(b, w, c, got, pongs, fs, k), Len(b.bytes) \in Nat,
         k < Len(fs) => /\ FrameLen(fs[k + 1]) \in Nat
                        /\ Len(b.bytes) < FrameLen(fs[k + 1])
  PROVE  Synced(b, w, <<>>, got, pongs, fs, k)
<1>1. Len(<<>>) = 0
  BY EmptyBuffer
<1>2. EndOf(b.bytes, <<>>)
  BY <1>1 DEF EndOf
<1> QED BY <1>1, <1>2 DEF Synced

-----------------------------------------------------------------------------
(* The inductive invariant, and that every step keeps it.                  *)

\* Every field keeps its type.  No session was ever probed, and none has missed
\* a heartbeat: HeartbeatQuiet says why.
SessionType ==
  [on : BOOLEAN, buf : BufType, lastRecv : Nat, loseCount : {0}, got : Seq(Seq(Byte)),
   pongs : Nat, pings : {0}, closing : BOOLEAN]

NetTypes ==
  /\ sent \in Seq(Frames) /\ wire \in Seq(Byte) /\ data \in Seq(Byte)
  /\ session \in SessionType /\ Buf!BufferOK(session.buf)
  /\ cur \in Times /\ last \in Times

\* m_lastUpdateTime is the earliest time read so far: it is not after the time a
\* session of now received its last byte, so that a session is not yet silent
\* whenever the test of updateFrame lets the loop run.
HeartbeatQuiet == last <= cur /\ (session.on => last <= session.lastRecv)

\* Without a session there is no stream.
StreamOfSession == session.on \/ (sent = <<>> /\ wire = <<>>)

\* As long as the peer is not disconnected, the receiver is in step.
InStep ==
  session.closing \/
    \E k \in 0 .. Len(sent) :
      Synced(session.buf, wire, data, session.got, session.pongs, sent, k)

NetInv == NetTypes /\ HeartbeatQuiet /\ StreamOfSession /\ InStep /\ CloseJustified

\* Every time is a number.
LEMMA TimesAreNat == \A t \in Times : t \in Nat
  BY NetMsgAssumption

\* Whatever onBuff reads and cuts out of its buffers are bytes.
LEMMA SliceOfBytes ==
  ASSUME NEW p \in Seq(Byte), NEW h \in Nat, NEW n \in Nat, h <= n, n <= Len(p)
  PROVE  SubSeq(p, h + 1, n) \in Seq(Byte)
  BY SameSlice

\* The end of a chunk, even when more is asked for than it has.
LEMMA LastOfBytes ==
  ASSUME NEW c \in Seq(Byte), NEW n \in Nat
  PROVE  LastOf(c, n) \in Seq(Byte)
<1> DEFINE e(i) == IF i + Len(c) > n THEN c[i + Len(c) - n] ELSE [frame |-> 0, at |-> 0]
<1>1. Len(c) \in Nat
  BY LenProperties
<1>2. [frame |-> 0, at |-> 0] \in Byte
  BY NetMsgAssumption DEF Byte
<1>3. ASSUME NEW i \in 1 .. n PROVE e(i) \in Byte
  <2>1. CASE i + Len(c) > n
    <3>1. i + Len(c) - n \in 1 .. Len(c)
      BY <1>1, <2>1
    <3> QED BY <2>1, <3>1
  <2>2. CASE ~(i + Len(c) > n)
    BY <1>2, <2>2
  <2> QED BY <2>1, <2>2
<1>4. LastOf(c, n) = [i \in 1 .. n |-> e(i)]
  BY DEF LastOf
<1> HIDE DEF e
<1> QED BY <1>3, <1>4

\* The manager starts without a session.
LEMMA NoSessionFields ==
  /\ NewSession = [on |-> TRUE, buf |-> Buf!Empty, lastRecv |-> cur, loseCount |-> 0,
                   got |-> <<>>, pongs |-> 0, pings |-> 0, closing |-> FALSE]
  /\ NoSession = [on |-> FALSE, buf |-> Buf!Empty, lastRecv |-> 0, loseCount |-> 0,
                  got |-> <<>>, pongs |-> 0, pings |-> 0, closing |-> FALSE]
<1>1. NewSession = [on |-> TRUE, buf |-> Buf!Empty, lastRecv |-> cur, loseCount |-> 0,
                    got |-> <<>>, pongs |-> 0, pings |-> 0, closing |-> FALSE]
  BY DEF NewSession
<1>2. NoSession = [on |-> FALSE, buf |-> Buf!Empty, lastRecv |-> 0, loseCount |-> 0,
                   got |-> <<>>, pongs |-> 0, pings |-> 0, closing |-> FALSE]
  <2>1. ASSUME NEW s, s = NoSession
        PROVE  s = [on |-> FALSE, buf |-> Buf!Empty, lastRecv |-> 0, loseCount |-> 0,
                    got |-> <<>>, pongs |-> 0, pings |-> 0, closing |-> FALSE]
    BY <2>1 DEF NoSession, NewSession
  <2> QED BY <2>1
<1> QED BY <1>1, <1>2

\* It holds at first.
LEMMA NetInit ==
  ASSUME Init PROVE NetInv
<1>1. session = [on |-> FALSE, buf |-> Buf!Empty, lastRecv |-> 0, loseCount |-> 0,
                 got |-> <<>>, pongs |-> 0, pings |-> 0, closing |-> FALSE]
  BY NoSessionFields DEF Init
<1>2. sent = <<>> /\ wire = <<>> /\ data = <<>> /\ cur \in Times /\ last = cur
  BY DEF Init
<1>3. NetTypes
  <2>1. session \in SessionType
    BY <1>1, EmptyBuffer, EmptySeq DEF SessionType
  <2>2. <<>> \in Seq(Frames) /\ <<>> \in Seq(Byte)
    BY EmptySeq
  <2> QED BY <1>1, <1>2, <2>1, <2>2, EmptyBuffer DEF NetTypes
<1>4. HeartbeatQuiet /\ StreamOfSession /\ CloseJustified
  BY <1>1, <1>2, TimesAreNat DEF HeartbeatQuiet, StreamOfSession, CloseJustified
<1>5. InStep
  <2>1. 0 \in 0 .. Len(<<>>)
    BY EmptyBuffer
  <2> QED BY <1>1, <1>2, <2>1, SyncedStart DEF InStep
<1> QED BY <1>3, <1>4, <1>5 DEF NetInv

\* A new session: the stream is empty.
LEMMA ConnectInv ==
  ASSUME NetInv, OnConnect PROVE NetInv'
<1>1. session' = [on |-> TRUE, buf |-> Buf!Empty, lastRecv |-> cur, loseCount |-> 0,
                  got |-> <<>>, pongs |-> 0, pings |-> 0, closing |-> FALSE]
  BY NoSessionFields DEF OnConnect
<1>2. /\ sent' = <<>> /\ wire' = <<>> /\ data' = <<>> /\ cur' = cur /\ last' = last
      /\ cur \in Times /\ last \in Times /\ last <= cur /\ cur \in Nat
  BY TimesAreNat DEF OnConnect, NetInv, NetTypes, StreamOfSession, HeartbeatQuiet
<1>3. NetTypes'
  <2>1. session' \in SessionType
    BY <1>1, <1>2, EmptyBuffer, EmptySeq DEF SessionType
  <2>2. <<>> \in Seq(Frames) /\ <<>> \in Seq(Byte)
    BY EmptySeq
  <2> QED BY <1>1, <1>2, <2>1, <2>2, EmptyBuffer DEF NetTypes
<1>4. HeartbeatQuiet' /\ StreamOfSession' /\ CloseJustified'
  BY <1>1, <1>2 DEF HeartbeatQuiet, StreamOfSession, CloseJustified
<1>5. InStep'
  <2>1. 0 \in 0 .. Len(<<>>)
    BY EmptyBuffer
  <2> QED BY <1>1, <1>2, <2>1, SyncedStart DEF InStep
<1> QED BY <1>3, <1>4, <1>5 DEF NetInv

\* The end of a session, and of its stream.
LEMMA DisconnectInv ==
  ASSUME NetInv, OnDisconnect PROVE NetInv'
<1>1. session' = [on |-> FALSE, buf |-> Buf!Empty, lastRecv |-> 0, loseCount |-> 0,
                  got |-> <<>>, pongs |-> 0, pings |-> 0, closing |-> FALSE]
  BY NoSessionFields DEF OnDisconnect
<1>2. /\ sent' = <<>> /\ wire' = <<>> /\ data' = <<>> /\ cur' = cur /\ last' = last
      /\ cur \in Times /\ last \in Times /\ last <= cur
  BY DEF OnDisconnect, NetInv, NetTypes, HeartbeatQuiet
<1>3. NetTypes'
  <2>1. session' \in SessionType
    BY <1>1, EmptyBuffer, EmptySeq DEF SessionType
  <2>2. <<>> \in Seq(Frames) /\ <<>> \in Seq(Byte)
    BY EmptySeq
  <2> QED BY <1>1, <1>2, <2>1, <2>2, EmptyBuffer DEF NetTypes
<1>4. HeartbeatQuiet' /\ StreamOfSession' /\ CloseJustified'
  BY <1>1, <1>2 DEF HeartbeatQuiet, StreamOfSession, CloseJustified
<1>5. InStep'
  <2>1. 0 \in 0 .. Len(<<>>)
    BY EmptyBuffer
  <2> QED BY <1>1, <1>2, <2>1, SyncedStart DEF InStep
<1> QED BY <1>3, <1>4, <1>5 DEF NetInv

\* The peer sends a frame.
LEMMA TransmitInv ==
  ASSUME NetInv, NEW f \in Frames, Transmit(f) PROVE NetInv'
<1>1. /\ sent \in Seq(Frames) /\ wire \in Seq(Byte) /\ data \in Seq(Byte)
      /\ session \in SessionType /\ session.buf \in BufType
  BY DEF NetInv, NetTypes, SessionType
<1>2. /\ Len(sent) < MaxFrames /\ session.on /\ sent' = Append(sent, f)
      /\ data' = data /\ session' = session /\ cur' = cur /\ last' = last
  BY DEF Transmit
<1>3. Len(sent) + 1 \in 0 .. MaxFrames /\ Len(sent) \in Nat
  BY <1>1, <1>2, LenProperties, NetMsgAssumption
<1>4. FrameBytes(Len(sent) + 1, f) \in Seq(Byte)
  <2>1. \A m \in 0 .. MaxFrames : FrameBytes(m, f) \in Seq(Byte)
    BY FrameBytesType
  <2> QED BY <2>1, <1>3
<1>5. wire' = wire \o FrameBytes(Len(sent) + 1, f)
  BY <1>4, PiecesInOrder DEF Transmit
<1>6. sent' \in Seq(Frames) /\ wire' \in Seq(Byte)
  BY <1>1, <1>2, <1>4, <1>5, AppendProperties, ConcatProperties
<1>7. NetTypes' /\ HeartbeatQuiet' /\ StreamOfSession'
  BY <1>2, <1>6 DEF NetInv, NetTypes, HeartbeatQuiet, StreamOfSession
<1>8. Len(sent') = Len(sent) + 1 /\ \A i \in DOMAIN sent : i \in DOMAIN sent' /\ sent'[i] = sent[i]
  BY <1>1, <1>2, AtAppend, AppendProperties
<1>9. CloseJustified'
  BY <1>2, <1>8 DEF NetInv, CloseJustified
<1>10. ASSUME ~session.closing PROVE InStep'
  <2>1. PICK k \in 0 .. Len(sent) :
          Synced(session.buf, wire, data, session.got, session.pongs, sent, k)
    BY <1>10 DEF NetInv, InStep
  <2>2. Synced(session.buf, wire \o FrameBytes(Len(sent) + 1, f), data, session.got,
               session.pongs, Append(sent, f), k)
    BY <1>1, <1>2, <2>1, SyncedSend
  <2>3. k \in 0 .. Len(sent')
    BY <1>3, <1>8
  <2> QED BY <1>2, <1>5, <2>2, <2>3 DEF InStep
<1>11. InStep'
  BY <1>2, <1>10 DEF InStep
<1> QED BY <1>7, <1>9, <1>11 DEF NetInv

\* A chunk is read.
LEMMA ReadInv ==
  ASSUME NetInv, Read PROVE NetInv'
<1>1. /\ sent \in Seq(Frames) /\ wire \in Seq(Byte) /\ session \in SessionType
      /\ session.buf \in BufType /\ Buf!BufferOK(session.buf) /\ cur \in Nat /\ last <= cur
      /\ data = <<>> /\ session.on
  BY TimesAreNat DEF NetInv, NetTypes, SessionType, HeartbeatQuiet, Read
<1>2. PICK n \in 0 .. Len(wire) :
        data' = SubSeq(wire, 1, n) /\ wire' = SubSeq(wire, n + 1, Len(wire))
  <2>1. PICK n \in 1 .. Buf!Least(MaxRead, Len(wire)) :
          data' = SubSeq(wire, 1, n) /\ wire' = SubSeq(wire, n + 1, Len(wire))
    BY DEF Read
  <2>2. Len(wire) \in Nat /\ MaxRead \in Nat
    BY <1>1, LenProperties, NetMsgAssumption
  <2>3. n \in 0 .. Len(wire)
    BY <2>2 DEF Buf!Least
  <2> QED BY <2>1, <2>3
<1>3. data' \in Seq(Byte) /\ wire' \in Seq(Byte)
  BY <1>1, <1>2, SplitAt
<1>4. session' = [session EXCEPT !.lastRecv = cur, !.loseCount = 0,
                                 !.buf = Buf!Add(session.buf, data')]
      /\ sent' = sent /\ cur' = cur /\ last' = last
  BY DEF Read
<1>5. Buf!Add(session.buf, data') \in BufType /\ Buf!BufferOK(Buf!Add(session.buf, data'))
  BY <1>1, <1>3, AddBuffer
<1>6. PICK d : d = Buf!Add(session.buf, data')
  OBVIOUS
<1>7. /\ session' \in SessionType /\ session'.on = session.on /\ session'.buf = d
      /\ session'.lastRecv = cur /\ session'.got = session.got
      /\ session'.pongs = session.pongs /\ session'.closing = session.closing
  BY <1>1, <1>4, <1>5, <1>6 DEF SessionType
<1>8. NetTypes'
  BY <1>1, <1>3, <1>4, <1>5, <1>6, <1>7 DEF NetInv, NetTypes
<1>9. HeartbeatQuiet' /\ StreamOfSession' /\ CloseJustified'
  BY <1>1, <1>4, <1>7 DEF NetInv, HeartbeatQuiet, StreamOfSession, CloseJustified
<1>10. ASSUME ~session.closing PROVE InStep'
  <2>1. PICK k \in 0 .. Len(sent) :
          Synced(session.buf, wire, <<>>, session.got, session.pongs, sent, k)
    BY <1>1, <1>10 DEF NetInv, InStep
  <2>2. Synced(Buf!Add(session.buf, SubSeq(wire, 1, n)), SubSeq(wire, n + 1, Len(wire)),
               SubSeq(wire, 1, n), session.got, session.pongs, sent, k)
    BY <1>1, <2>1, SyncedRead
  <2>3. Synced(session'.buf, wire', data', session'.got, session'.pongs, sent', k)
    BY <1>2, <1>4, <1>6, <1>7, <2>2
  <2> QED BY <1>4, <2>3 DEF InStep
<1>11. InStep'
  BY <1>7, <1>10 DEF InStep
<1> QED BY <1>8, <1>9, <1>11 DEF NetInv

\* The heartbeat: no session is silent for too long when its loop runs.
LEMMA UpdateInv ==
  ASSUME NetInv, NEW t \in Times, UpdateFrame(t) PROVE NetInv'
<1>1. /\ cur \in Nat /\ last \in Nat /\ t \in Nat /\ CheckTime \in Nat
      /\ session.lastRecv \in Nat
  BY TimesAreNat, NetMsgAssumption DEF NetInv, NetTypes, SessionType
<1>2. sent' = sent /\ wire' = wire /\ data' = data /\ cur' = t
  BY DEF UpdateFrame
<1>3. session' = session
  BY <1>1 DEF UpdateFrame, NetInv, HeartbeatQuiet
<1>4. last' \in Times /\ last' \in Nat /\ last' <= t /\ last' <= last
  BY <1>1 DEF UpdateFrame, NetInv, NetTypes
<1>5. NetTypes'
  BY <1>2, <1>3, <1>4 DEF NetInv, NetTypes
<1>6. HeartbeatQuiet'
  BY <1>1, <1>2, <1>3, <1>4 DEF NetInv, HeartbeatQuiet
<1>7. StreamOfSession' /\ InStep' /\ CloseJustified'
  BY <1>2, <1>3 DEF NetInv, StreamOfSession, InStep, CloseJustified
<1> QED BY <1>5, <1>6, <1>7 DEF NetInv

\* The loop ends without a whole head.
LEMMA LoopEndsInv ==
  ASSUME NetInv, LoopEnds PROVE NetInv'
<1>1. /\ sent \in Seq(Frames) /\ session.buf \in BufType /\ Buf!BufferOK(session.buf)
      /\ session.buf.length < HeadLen
  BY DEF NetInv, NetTypes, SessionType, LoopEnds
<1>2. /\ sent' = sent /\ wire' = wire /\ data' = <<>> /\ session' = session
      /\ cur' = cur /\ last' = last
  BY DEF LoopEnds
<1>3. NetTypes' /\ HeartbeatQuiet' /\ StreamOfSession' /\ CloseJustified'
  <2>1. <<>> \in Seq(Byte)
    BY EmptySeq
  <2> QED BY <1>2, <2>1 DEF NetInv, NetTypes, HeartbeatQuiet, StreamOfSession, CloseJustified
<1>4. ASSUME ~session.closing PROVE InStep'
  <2>1. PICK k \in 0 .. Len(sent) :
          Synced(session.buf, wire, data, session.got, session.pongs, sent, k)
    BY <1>4 DEF NetInv, InStep
  <2>2. Len(session.buf.bytes) \in Nat /\ Len(session.buf.bytes) < HeadLen
    BY <1>1, LenProperties DEF BufType, Buf!BufferOK
  <2>3. ASSUME k < Len(sent)
        PROVE  FrameLen(sent[k + 1]) \in Nat /\ Len(session.buf.bytes) < FrameLen(sent[k + 1])
    <3>1. sent[k + 1] \in Frames
      BY <1>1, <2>3, LenProperties
    <3> QED BY <2>2, <3>1, FrameLength
  <2>4. Synced(session.buf, wire, <<>>, session.got, session.pongs, sent, k)
    BY <2>1, <2>2, <2>3, SyncedEnd
  <2> QED BY <1>2, <2>4 DEF InStep
<1>5. InStep'
  BY <1>2, <1>4 DEF InStep
<1> QED BY <1>3, <1>5 DEF NetInv

\* A turn of the loop keeps the types, whatever its head says, and it leaves a
\* session that is being closed alone.
LEMMA OnHeadTypes ==
  ASSUME NetTypes, NEW h, OnHead(h)
  PROVE  /\ session' \in SessionType /\ Buf!BufferOK(session'.buf) /\ data' \in Seq(Byte)
         /\ session'.on = session.on /\ session'.lastRecv = session.lastRecv
         /\ session.closing => session'.closing
<1>1. /\ data \in Seq(Byte) /\ session \in SessionType /\ session.buf \in BufType
      /\ Buf!BufferOK(session.buf) /\ HeadLen \in Nat \ {0} /\ <<>> \in Seq(Byte)
  BY EmptySeq, NetMsgAssumption DEF NetTypes, SessionType
<1>2. CASE OnPing(h) \/ OnPong(h)
  <2>1. PICK d : d = Buf!Pop(session.buf, HeadLen)
    OBVIOUS
  <2>2. d \in BufType /\ Buf!BufferOK(d)
    <3>1. CASE HeadLen <= session.buf.length
      BY <1>1, <2>1, <3>1, PopBuffer
    <3>2. CASE ~(HeadLen <= session.buf.length)
      <4>1. session.buf.length \in Nat
        BY <1>1 DEF BufType
      <4>2. d = session.buf
        BY <1>1, <2>1, <3>2, <4>1 DEF Buf!Pop
      <4> QED BY <1>1, <4>2
    <3> QED BY <3>1, <3>2
  <2>3. CASE OnPing(h)
    <3>1. session' = [session EXCEPT !.pongs = session.pongs + 1, !.buf = d] /\ data' = data
      BY <2>1, <2>3 DEF OnPing
    <3>2. session.pongs + 1 \in Nat
      BY <1>1 DEF SessionType
    <3> QED BY <1>1, <2>2, <3>1, <3>2 DEF SessionType
  <2>4. CASE OnPong(h)
    <3>1. session' = [session EXCEPT !.buf = d] /\ data' = data
      BY <2>1, <2>4 DEF OnPong
    <3> QED BY <1>1, <2>2, <3>1 DEF SessionType
  <2> QED BY <1>2, <2>3, <2>4
<1>3. CASE OnUnknown(h) \/ OnIllegalMsg(h)
  <2>1. PICK d : d = Buf!Empty
    OBVIOUS
  <2>2. d \in BufType /\ Buf!BufferOK(d)
    BY <2>1, EmptyBuffer
  <2>3. session' = [session EXCEPT !.buf = d, !.closing = TRUE] /\ data' = <<>>
    BY <1>3, <2>1 DEF OnUnknown, OnIllegalMsg, Refuse
  <2> QED BY <1>1, <2>2, <2>3 DEF SessionType
<1>4. CASE OnPartOfMsg(h)
  BY <1>1, <1>4 DEF OnPartOfMsg
<1>5. CASE OnWholeMsg(h)
  <2>1. PICK total : total = HeadLen + h.len
    OBVIOUS
  <2>2. PICK msg : msg = SubSeq(Buf!Bytes(session.buf), HeadLen + 1, total)
    OBVIOUS
  <2>3. PICK rest : rest = LastOf(data, session.buf.length - total)
    OBVIOUS
  <2>4. PICK d : d = Buf!Add(Buf!Empty, rest)
    OBVIOUS
  <2>5. /\ session' = [session EXCEPT !.got = Append(session.got, msg), !.buf = d]
        /\ data' = data /\ h.len \in IdLen .. MaxMsgLen /\ session.buf.length >= total
    BY <1>5, <2>1, <2>2, <2>3, <2>4 DEF OnWholeMsg, IsLegal
  <2>6. total \in Nat /\ HeadLen <= total /\ session.buf.length \in Nat
        /\ session.buf.length - total \in Nat
    <3>1. IdLen \in Nat /\ MaxMsgLen \in Nat
      BY NetMsgAssumption
    <3>2. session.buf.length \in Nat
      BY <1>1 DEF BufType
    <3> QED BY <1>1, <2>1, <2>5, <3>1, <3>2
  <2>7. msg \in Seq(Byte)
    <3>1. session.buf.bytes \in Seq(Byte) /\ session.buf.length = Len(session.buf.bytes)
      BY <1>1 DEF BufType, Buf!BufferOK
    <3> QED BY <1>1, <2>2, <2>5, <2>6, <3>1, SliceOfBytes DEF Buf!Bytes
  <2>8. rest \in Seq(Byte)
    BY <1>1, <2>3, <2>6, LastOfBytes
  <2>9. d \in BufType /\ Buf!BufferOK(d)
    BY <2>4, <2>8, EmptyBuffer, AddBuffer
  <2>10. Append(session.got, msg) \in Seq(Seq(Byte))
    BY <1>1, <2>7, AppendProperties DEF SessionType
  <2> QED BY <1>1, <2>5, <2>9, <2>10 DEF SessionType
<1> QED BY <1>2, <1>3, <1>4, <1>5 DEF OnHead

\* In step, the head that is found is the one of the next frame.
LEMMA HeadFound ==
  ASSUME NetTypes, NEW k \in 0 .. Len(sent), HeadLen <= session.buf.length,
         Synced(session.buf, wire, data, session.got, session.pongs, sent, k), NEW g
  PROVE  /\ k < Len(sent) /\ sent[k + 1] \in Frames
         /\ HeadAt(Buf!HeadBlockData(session.buf), g) =
              [kind |-> sent[k + 1].kind,
               len  |-> IF sent[k + 1].kind = "MSG" THEN IdLen + sent[k + 1].len ELSE 0]
<1>1. /\ sent \in Seq(Frames) /\ wire \in Seq(Byte) /\ session.buf \in BufType
      /\ Buf!BufferOK(session.buf)
  BY DEF NetTypes, SessionType
<1>2. PICK block : block = Buf!HeadBlockData(session.buf)
  OBVIOUS
<1>3. /\ k < Len(sent) /\ Len(block) >= HeadLen
      /\ \A i \in 1 .. HeadLen : block[i] = [frame |-> k + 1, at |-> i]
  BY <1>1, <1>2, SyncedHead
<1>4. sent[k + 1] \in Frames /\ k + 1 # 0
  BY <1>1, <1>3, LenProperties
<1>5. block[1].frame = k + 1
  <2>1. 1 \in 1 .. HeadLen
    BY NetMsgAssumption
  <2>2. block[1] = [frame |-> k + 1, at |-> 1]
    BY <1>3, <2>1
  <2> QED BY <2>2
<1>6. IsHead(block)
  BY <1>3, <1>4, <1>5 DEF IsHead
<1> QED BY <1>2, <1>3, <1>4, <1>5, <1>6 DEF HeadAt

\* One turn of the loop keeps the receiver in step, or refuses a message that is
\* longer than the receiver takes.
LEMMA OnHeadInStep ==
  ASSUME NetTypes, ~session.closing, HeadLen <= session.buf.length,
         NEW k \in 0 .. Len(sent), UNCHANGED <<sent, wire>>,
         Synced(session.buf, wire, data, session.got, session.pongs, sent, k),
         NEW g, OnHead(HeadAt(Buf!HeadBlockData(session.buf), g))
  PROVE  /\ InStep'
         /\ session'.closing =>
              \E i \in DOMAIN sent : sent[i].kind = "MSG" /\ sent[i].len + IdLen > MaxMsgLen
<1>1. /\ sent \in Seq(Frames) /\ wire \in Seq(Byte) /\ data \in Seq(Byte)
      /\ session \in SessionType /\ session.buf \in BufType /\ Buf!BufferOK(session.buf)
      /\ session.got \in Seq(Seq(Byte))
  BY DEF NetTypes, SessionType
<1>2. PICK f : f = sent[k + 1]
  OBVIOUS
<1>3. PICK h : h = [kind |-> f.kind, len |-> IF f.kind = "MSG" THEN IdLen + f.len ELSE 0]
  OBVIOUS
<1>4. k < Len(sent) /\ f \in Frames /\ OnHead(h)
  BY <1>2, <1>3, HeadFound
<1>5. k + 1 \in 0 .. Len(sent) /\ k + 1 \in DOMAIN sent
  BY <1>1, <1>4, LenProperties
<1>6. sent' = sent /\ wire' = wire
  OBVIOUS
<1>7. CASE OnPing(h) \/ OnPong(h)
  <2>1. f.kind \in {"PING", "PONG"} /\ f.kind # "MSG" /\ (f.kind = "PING" <=> OnPing(h))
    BY <1>3, <1>7 DEF OnPing, OnPong
  <2>2. PICK d : d = Buf!Pop(session.buf, HeadLen)
    OBVIOUS
  <2>3. PICK p : p = IF f.kind = "PING" THEN session.pongs + 1 ELSE session.pongs
    OBVIOUS
  <2>4. session'.buf = d /\ session'.got = session.got /\ session'.pongs = p /\ data' = data
        /\ session'.closing = session.closing
    BY <1>1, <1>7, <2>1, <2>2, <2>3 DEF OnPing, OnPong, SessionType
  <2>5. Synced(d, wire, data, session.got, p, sent, k + 1)
    BY <1>1, <1>2, <1>4, <2>1, <2>2, <2>3, SyncedBeat
  <2> QED BY <1>5, <1>6, <2>4, <2>5 DEF InStep
<1>8. CASE OnUnknown(h)
  BY <1>3, <1>4, <1>8 DEF OnUnknown, Frames
<1>9. CASE OnIllegalMsg(h)
  <2>1. f.kind = "MSG" /\ ~(IdLen + f.len \in IdLen .. MaxMsgLen) /\ session'.closing
    BY <1>1, <1>3, <1>9 DEF OnIllegalMsg, IsLegal, Refuse, SessionType
  <2>2. f.len \in Nat /\ IdLen \in Nat /\ MaxMsgLen \in Nat
    BY <1>4, NetMsgAssumption DEF Frames
  <2>3. f.len + IdLen > MaxMsgLen
    BY <2>1, <2>2
  <2> QED BY <1>2, <1>5, <2>1, <2>3 DEF InStep
<1>10. CASE OnPartOfMsg(h)
  <2>1. f.kind = "MSG" /\ session.buf.length < HeadLen + (IdLen + f.len)
        /\ data' = <<>> /\ session' = session
    BY <1>3, <1>10 DEF OnPartOfMsg
  <2>2. FrameLen(f) \in Nat /\ FrameLen(f) = HeadLen + (IdLen + f.len)
    <3>1. f.len \in Nat /\ IdLen \in Nat /\ HeadLen \in Nat
      BY <1>4, NetMsgAssumption DEF Frames
    <3> QED BY <2>1, <3>1 DEF FrameLen
  <2>3. Len(session.buf.bytes) \in Nat /\ Len(session.buf.bytes) < FrameLen(f)
    BY <1>1, <2>1, <2>2, LenProperties DEF BufType, Buf!BufferOK
  <2>4. Synced(session.buf, wire, <<>>, session.got, session.pongs, sent, k)
    BY <1>2, <2>2, <2>3, SyncedEnd
  <2> QED BY <1>6, <2>1, <2>4 DEF InStep
<1>11. CASE OnWholeMsg(h)
  <2>1. PICK total : total = HeadLen + h.len
    OBVIOUS
  <2>2. PICK msg : msg = SubSeq(Buf!Bytes(session.buf), HeadLen + 1, total)
    OBVIOUS
  <2>3. PICK d : d = Buf!Add(Buf!Empty, LastOf(data, session.buf.length - total))
    OBVIOUS
  <2>4. /\ session' = [session EXCEPT !.got = Append(session.got, msg), !.buf = d]
        /\ data' = data /\ h.kind = "MSG" /\ total <= session.buf.length
    <3>1. session.buf.length >= total
      BY <1>11, <2>1 DEF OnWholeMsg
    <3>2. total \in Nat /\ session.buf.length \in Nat
      <4>1. h.len \in IdLen .. MaxMsgLen
        BY <1>11 DEF OnWholeMsg, IsLegal
      <4>2. HeadLen \in Nat /\ IdLen \in Nat /\ MaxMsgLen \in Nat
        BY NetMsgAssumption
      <4>3. h.len \in Nat
        BY <4>1, <4>2
      <4>4. session.buf.length \in Nat
        BY <1>1 DEF BufType
      <4> QED BY <2>1, <4>2, <4>3, <4>4
    <3> QED BY <1>11, <2>1, <2>2, <2>3, <3>1, <3>2 DEF OnWholeMsg
  <2>5. f.kind = "MSG" /\ total = FrameLen(f)
    <3>1. f.len \in Nat /\ IdLen \in Nat /\ HeadLen \in Nat
      BY <1>4, NetMsgAssumption DEF Frames
    <3>2. f.kind = "MSG" /\ h.len = IdLen + f.len
      BY <1>3, <2>4
    <3> QED BY <2>1, <3>1, <3>2 DEF FrameLen
  <2>6. Synced(d, wire, data, Append(session.got, msg), session.pongs, sent, k + 1)
    BY <1>1, <1>2, <1>4, <2>2, <2>3, <2>4, <2>5, SyncedMsg
  <2>7. session'.buf = d /\ session'.got = Append(session.got, msg)
        /\ session'.pongs = session.pongs /\ session'.closing = session.closing
    BY <1>1, <2>4 DEF SessionType
  <2> QED BY <1>5, <1>6, <2>4, <2>6, <2>7 DEF InStep
<1> QED BY <1>4, <1>7, <1>8, <1>9, <1>10, <1>11 DEF OnHead

\* A turn of the loop.
LEMMA TurnInv ==
  ASSUME NetInv, Turn PROVE NetInv'
<1>1. PICK g : OnHead(HeadAt(Buf!HeadBlockData(session.buf), g))
  BY DEF Turn
<1>2. sent' = sent /\ wire' = wire /\ cur' = cur /\ last' = last /\ NetTypes
      /\ HeadLen <= session.buf.length
  <2>1. HeadLen \in Nat /\ session.buf.length \in Nat
    BY NetMsgAssumption DEF NetInv, NetTypes, SessionType, BufType
  <2> QED BY <2>1 DEF Turn, NetInv
<1>3. /\ session' \in SessionType /\ Buf!BufferOK(session'.buf) /\ data' \in Seq(Byte)
      /\ session'.on = session.on /\ session'.lastRecv = session.lastRecv
      /\ session.closing => session'.closing
  BY <1>1, <1>2, OnHeadTypes
<1>4. NetTypes' /\ HeartbeatQuiet' /\ StreamOfSession'
  BY <1>2, <1>3 DEF NetInv, NetTypes, HeartbeatQuiet, StreamOfSession
<1>5. CASE session.closing
  BY <1>2, <1>3, <1>4, <1>5 DEF NetInv, InStep, CloseJustified
<1>6. CASE ~session.closing
  <2>1. PICK k \in 0 .. Len(sent) :
          Synced(session.buf, wire, data, session.got, session.pongs, sent, k)
    BY <1>6 DEF NetInv, InStep
  <2>2. /\ InStep'
        /\ session'.closing =>
             \E i \in DOMAIN sent : sent[i].kind = "MSG" /\ sent[i].len + IdLen > MaxMsgLen
    BY <1>1, <1>2, <1>6, <2>1, OnHeadInStep
  <2>3. CloseJustified'
    BY <1>2, <2>2 DEF CloseJustified
  <2> QED BY <1>4, <2>2, <2>3 DEF NetInv
<1> QED BY <1>5, <1>6

\* Every step keeps it.
LEMMA NetStep ==
  ASSUME NetInv, [Next]_vars PROVE NetInv'
<1>1. ASSUME NEW len \in 0 .. MaxMsgLen, SendMsg(len) PROVE NetInv'
  <2>1. [kind |-> "MSG", len |-> len] \in Frames
    BY DEF Frames
  <2> QED BY <1>1, <2>1, TransmitInv DEF SendMsg
<1>2. ASSUME NEW kind \in {"PING", "PONG"}, SendBeat(kind) PROVE NetInv'
  <2>1. [kind |-> kind, len |-> 0] \in Frames
    BY DEF Frames
  <2> QED BY <1>2, <2>1, TransmitInv DEF SendBeat
<1>3. CASE UNCHANGED vars
  BY <1>3 DEF vars, NetInv, NetTypes, HeartbeatQuiet, StreamOfSession, InStep, CloseJustified
<1> QED BY <1>1, <1>2, <1>3, ConnectInv, DisconnectInv, ReadInv, TurnInv, LoopEndsInv, UpdateInv
        DEF Next

-----------------------------------------------------------------------------
(* What a receiver in step has read, handed on and kept: CaughtUp.         *)

\* The byte is still on the wire; it is in q behind the first n.
OnWire(w, i, a) == \E j \in DOMAIN w : w[j].frame = i /\ w[j].at = a
Behind(q, n, i, a) == \E p \in DOMAIN q : p > n /\ q[p].frame = i /\ q[p].at = a

\* IsRead says that a byte has left the wire.
LEMMA IsReadIsNotOnWire ==
  ASSUME wire \in Seq(Byte), NEW i, NEW a
  PROVE  IsRead([frame |-> i, at |-> a]) <=> ~OnWire(wire, i, a)
<1>1. ASSUME NEW j \in DOMAIN wire
      PROVE  wire[j] = [frame |-> i, at |-> a] <=> wire[j].frame = i /\ wire[j].at = a
  <2>1. wire[j] \in Byte
    BY ByteFields
  <2> QED BY <2>1 DEF Byte
<1> QED BY <1>1 DEF IsRead, OnWire

\* The wire is what follows the buffer, r, in what is left of the stream, q.
LEMMA WireIsRest ==
  ASSUME NEW r \in Seq(Byte), NEW w \in Seq(Byte), NEW q, q = r \o w, NEW i, NEW a
  PROVE  OnWire(w, i, a) <=> Behind(q, Len(r), i, a)
<1>1. Len(r) \in Nat /\ Len(w) \in Nat
  BY LenProperties
<1>2. PICK B \in Nat : B = Len(r)
  BY <1>1
<1>3. PICK W \in Nat : W = Len(w)
  BY <1>1
<1>4. /\ DOMAIN q = 1 .. B + W /\ DOMAIN w = 1 .. W
      /\ \A j \in 1 .. W : q[B + j] = w[j]
  BY <1>1, <1>2, <1>3, ConcatProperties, LenProperties
<1>5. ASSUME OnWire(w, i, a)
      PROVE  \E p \in DOMAIN q : p > B /\ q[p].frame = i /\ q[p].at = a
  <2>1. PICK j \in 1 .. W : w[j].frame = i /\ w[j].at = a
    BY <1>4, <1>5 DEF OnWire
  <2>2. B + j \in 1 .. B + W /\ B + j > B
    OBVIOUS
  <2> QED BY <1>4, <2>1, <2>2
<1>6. ASSUME NEW p \in DOMAIN q, p > B, q[p].frame = i, q[p].at = a
      PROVE  OnWire(w, i, a)
  <2>1. p \in 1 .. B + W
    BY <1>4
  <2>2. p - B \in 1 .. W /\ B + (p - B) = p
    BY <1>6, <2>1
  <2>3. w[p - B] = q[p]
    BY <1>4, <2>2
  <2> QED BY <1>4, <1>6, <2>2, <2>3 DEF OnWire
<1> QED BY <1>2, <1>5, <1>6 DEF Behind

\* When onBuff has returned, of the frames worked off no byte is on the wire, and
\* of every other frame the last byte is.
LEMMA LastBytesOnWire ==
  ASSUME NEW fs \in Seq(Frames), NEW k \in 0 .. Len(fs), NEW b \in BufType,
         NEW w \in Seq(Byte), NEW got, NEW pongs,
         Synced(b, w, <<>>, got, pongs, fs, k), NEW i \in 1 .. Len(fs)
  PROVE  OnWire(w, i, FrameLen(fs[i])) <=> ~(i <= k)
<1>1. b.bytes \in Seq(Byte) /\ Len(b.bytes) \in Nat /\ Len(fs) \in Nat /\ i \in Nat /\ k \in Nat
  BY LenProperties DEF BufType
<1>2. PICK q : q = b.bytes \o w
  OBVIOUS
<1>3. q \in Seq(Byte) /\ InOrder(q, k, fs)
  BY <1>1, <1>2, ConcatProperties DEF Synced
<1>4. OnWire(w, i, FrameLen(fs[i])) <=> Behind(q, Len(b.bytes), i, FrameLen(fs[i]))
  BY <1>1, <1>2, WireIsRest
<1>5. ASSUME OnWire(w, i, FrameLen(fs[i])) PROVE ~(i <= k)
  <2>1. PICK p \in DOMAIN q : q[p].frame = i
    BY <1>4, <1>5 DEF Behind
  <2>2. q[p].frame \in k + 1 .. Len(fs)
    BY <1>3, <2>1 DEF InOrder, Contained
  <2> QED BY <1>1, <2>1, <2>2
<1>6. ASSUME ~(i <= k) PROVE OnWire(w, i, FrameLen(fs[i]))
  <2>1. i \in k + 1 .. Len(fs) /\ k < Len(fs)
    BY <1>1, <1>6
  <2>2. fs[i] \in Frames /\ fs[k + 1] \in Frames
    BY <1>1, <2>1, LenProperties
  <2>3. FrameLen(fs[i]) \in Nat \ {0} /\ FrameLen(fs[k + 1]) \in Nat
    BY <2>2, FrameLength
  <2>4. FrameLen(fs[i]) \in 1 .. FrameLen(fs[i])
    BY <2>3
  <2>5. PICK p \in DOMAIN q : q[p].frame = i /\ q[p].at = FrameLen(fs[i])
    BY <1>3, <2>1, <2>4 DEF InOrder, Covered
  <2>6. Len(b.bytes) < FrameLen(fs[k + 1])
    <3>1. Len(b.bytes) < FrameLen(fs[k + 1]) + Len(<<>>)
      BY <2>1 DEF Synced
    <3> QED BY <1>1, <2>3, <3>1, EmptyBuffer
  <2>7. p > Len(b.bytes)
    <3>1. SUFFICES ASSUME ~(p > Len(b.bytes)) PROVE FALSE
      OBVIOUS
    <3>2. p \in Nat \ {0}
      BY <1>3, LenProperties
    <3>3. p \in 1 .. FrameLen(fs[k + 1]) /\ p < FrameLen(fs[k + 1])
      BY <1>1, <2>3, <2>6, <3>1, <3>2
    <3>4. q[p].frame = k + 1 /\ q[p].at = p
      BY <1>3, <2>1, <3>3, OrderFront
    <3>5. i = k + 1 /\ p = FrameLen(fs[i])
      BY <2>5, <3>4
    <3> QED BY <3>3, <3>5, <2>3
  <2> QED BY <1>4, <2>5, <2>7 DEF Behind
<1> QED BY <1>5, <1>6

\* Of the next frame the wire has what the buffer has not.
LEMMA NextOnWire ==
  ASSUME NEW fs \in Seq(Frames), NEW k \in 0 .. Len(fs), k < Len(fs), NEW b \in BufType,
         NEW w \in Seq(Byte), NEW c, NEW got, NEW pongs,
         Synced(b, w, c, got, pongs, fs, k), NEW a \in 1 .. FrameLen(fs[k + 1])
  PROVE  OnWire(w, k + 1, a) <=> a > Len(b.bytes)
<1>1. b.bytes \in Seq(Byte) /\ Len(b.bytes) \in Nat /\ a \in Nat
  <2>1. fs[k + 1] \in Frames
    BY LenProperties
  <2>2. FrameLen(fs[k + 1]) \in Nat
    BY <2>1, FrameLength
  <2> QED BY <2>2, LenProperties DEF BufType
<1>2. PICK q : q = b.bytes \o w
  OBVIOUS
<1>3. q \in Seq(Byte) /\ InOrder(q, k, fs)
  BY <1>1, <1>2, ConcatProperties DEF Synced
<1>4. OnWire(w, k + 1, a) <=> Behind(q, Len(b.bytes), k + 1, a)
  BY <1>1, <1>2, WireIsRest
<1>5. a \in DOMAIN q /\ q[a].frame = k + 1 /\ q[a].at = a
  BY <1>3, OrderFront
<1>6. ASSUME OnWire(w, k + 1, a) PROVE a > Len(b.bytes)
  <2>1. PICK p \in DOMAIN q : p > Len(b.bytes) /\ q[p].frame = k + 1 /\ q[p].at = a
    BY <1>4, <1>6 DEF Behind
  <2>2. p + q[a].at = a + q[p].at
    BY <1>3, <1>5, <2>1 DEF InOrder, InOneRun
  <2>3. p \in Nat
    BY <1>3, LenProperties
  <2>4. p = a
    BY <1>1, <1>5, <2>1, <2>2, <2>3
  <2> QED BY <2>1, <2>4
<1> QED BY <1>1, <1>4, <1>5, <1>6 DEF Behind

\* What CaughtUp says.
LEMMA NetInvCaughtUp ==
  ASSUME NetInv PROVE CaughtUp
<1> SUFFICES ASSUME session.on, ~session.closing, data = <<>>
             PROVE  \E k \in 0 .. Len(sent) :
                      /\ \A i \in DOMAIN sent :
                           IsRead([frame |-> i, at |-> FrameLen(sent[i])]) <=> i <= k
                      /\ HandedOn(k)
                      /\ session.pongs = Cardinality(OfKind("PING", k))
                      /\ DOMAIN Buf!Bytes(session.buf) = ReadOfNext(k)
                      /\ \A a \in ReadOfNext(k) :
                           Buf!Bytes(session.buf)[a] = [frame |-> k + 1, at |-> a]
  BY DEF CaughtUp
<1>1. /\ sent \in Seq(Frames) /\ wire \in Seq(Byte) /\ session.buf \in BufType
  BY DEF NetInv, NetTypes, SessionType
<1>2. PICK k \in 0 .. Len(sent) :
        Synced(session.buf, wire, <<>>, session.got, session.pongs, sent, k)
  BY DEF NetInv, InStep
<1>3. \A i \in DOMAIN sent : IsRead([frame |-> i, at |-> FrameLen(sent[i])]) <=> i <= k
  <2>1. DOMAIN sent = 1 .. Len(sent)
    BY <1>1, LenProperties
  <2>2. \A i \in 1 .. Len(sent) : OnWire(wire, i, FrameLen(sent[i])) <=> ~(i <= k)
    BY <1>1, <1>2, LastBytesOnWire
  <2> QED BY <1>1, <2>1, <2>2, IsReadIsNotOnWire
<1>4. HandedOn(k)
  BY <1>2, DeliveredIsHandedOn DEF Synced
<1>5. session.pongs = Cardinality(OfKind("PING", k))
  BY <1>2 DEF Synced, Kind, OfKind
<1>6. session.buf.bytes \in Seq(Byte) /\ Len(session.buf.bytes) \in Nat
      /\ DOMAIN session.buf.bytes = 1 .. Len(session.buf.bytes)
  BY <1>1, LenProperties DEF BufType
<1>7. CASE k = Len(sent)
  <2>1. session.buf.bytes \o wire = <<>>
    <3>1. session.buf.bytes \o wire \in Seq(Byte)
      BY <1>1, <1>6, ConcatProperties
    <3> QED BY <1>1, <1>2, <1>7, <3>1, OrderEmpty DEF Synced
  <2>2. session.buf.bytes = <<>>
    BY <1>1, <1>6, <2>1, ConcatEqualIffEmpty
  <2>3. DOMAIN session.buf.bytes = {}
    BY <1>6, <2>2, EmptyBuffer
  <2>4. ReadOfNext(k) = {}
    BY <1>7 DEF ReadOfNext
  <2> QED BY <1>3, <1>4, <1>5, <2>3, <2>4 DEF Buf!Bytes
<1>8. CASE k # Len(sent)
  <2>1. k < Len(sent) /\ sent[k + 1] \in Frames
    BY <1>1, <1>8, LenProperties
  <2>2. FrameLen(sent[k + 1]) \in Nat /\ Len(session.buf.bytes) < FrameLen(sent[k + 1])
    <3>1. FrameLen(sent[k + 1]) \in Nat
      BY <2>1, FrameLength
    <3>2. Len(session.buf.bytes) < FrameLen(sent[k + 1]) + Len(<<>>)
      BY <1>2, <2>1 DEF Synced
    <3> QED BY <1>6, <3>1, <3>2, EmptyBuffer
  <2>3. \A a \in 1 .. FrameLen(sent[k + 1]) :
          IsRead([frame |-> k + 1, at |-> a]) <=> ~(a > Len(session.buf.bytes))
    <3>1. \A a \in 1 .. FrameLen(sent[k + 1]) :
            OnWire(wire, k + 1, a) <=> a > Len(session.buf.bytes)
      BY <1>1, <1>2, <2>1, NextOnWire
    <3> QED BY <1>1, <3>1, IsReadIsNotOnWire
  <2>4. ReadOfNext(k) = {a \in 1 .. FrameLen(sent[k + 1]) : ~(a > Len(session.buf.bytes))}
    BY <1>8, <2>3 DEF ReadOfNext
  <2>5. ReadOfNext(k) = 1 .. Len(session.buf.bytes)
    BY <1>6, <2>2, <2>4
  <2>6. \A a \in 1 .. Len(session.buf.bytes) : session.buf.bytes[a] = [frame |-> k + 1, at |-> a]
    <3>1. \A a \in 1 .. FrameLen(sent[k + 1]) :
            a <= Len(session.buf.bytes) => session.buf.bytes[a] = [frame |-> k + 1, at |-> a]
      BY <1>1, <1>2, <2>1, SyncedFront
    <3> QED BY <1>6, <2>2, <3>1
  <2> QED BY <1>3, <1>4, <1>5, <1>6, <2>5, <2>6 DEF Buf!Bytes
<1> QED BY <1>7, <1>8

(* The invariant holds always.                                           *)
THEOREM NetInvariant == SafeSpec => []NetInv
  BY NetInit, NetStep, PTL DEF SafeSpec

(* Every variable of the message layer keeps its type, whatever bytes the*)
(* buffer holds: also what is read on after a refusal, when the head says*)
(* anything.                                                             *)
THEOREM NetTypeCorrect == SafeSpec => []TypeOK
<1>1. NetInv => TypeOK
  <2> SUFFICES ASSUME NetInv PROVE TypeOK
    OBVIOUS
  <2>1. LoseMaxCount \in Nat
    BY NetMsgAssumption
  <2> QED BY <2>1 DEF NetInv, NetTypes, SessionType, BufType, TypeOK
<1> QED BY NetInvariant, <1>1, PTL

(* For a stream of any length, with messages of any length, cut into chunks*)
(* anywhere, while the peer goes on sending: whenever onBuff has returned,*)
(* the messages read to their last byte have been handed on, each whole, *)
(* once and in order, every such PING has been answered, and the buffer  *)
(* holds what was read of the next frame.                                *)
THEOREM StreamCaughtUp == SafeSpec => []CaughtUp
  BY NetInvariant, NetInvCaughtUp, PTL

(* A peer is disconnected only for a message longer than the receiver    *)
(* takes, the id counted: never because a head was read in the wrong place.*)
THEOREM RefusalJustified == SafeSpec => []CloseJustified
<1>1. NetInv => CloseJustified
  BY DEF NetInv
<1> QED BY NetInvariant, <1>1, PTL

(* No session is ever probed, and none has missed a heartbeat, whatever  *)
(* the clock does, even one that is set back, and for every check time and*)
(* count: updateFrame compares the two times the wrong way round.        *)
THEOREM HeartbeatNeverProbes == SafeSpec => [](session.pings = 0 /\ session.loseCount = 0)
<1>1. NetInv => session.pings = 0 /\ session.loseCount = 0
  BY DEF NetInv, NetTypes, SessionType
<1> QED BY NetInvariant, <1>1, PTL

-----------------------------------------------------------------------------
(* The hand-off queue between two threads.                                 *)

USE DEF Places

(* Every variable keeps its type: in particular only records that some     *)
(* thread pushed are ever in m_operationQue or m_msgQue.                   *)
THEOREM QueueTypeCorrect == QueueSafeSpec => []QueueTypeOK
<1>1. QueueInit => QueueTypeOK
  BY EmptySeq DEF QueueInit, QueueTypeOK
<1>2. QueueTypeOK /\ [QueueNext]_queueVars => QueueTypeOK'
  <2> SUFFICES ASSUME QueueTypeOK, [QueueNext]_queueVars PROVE QueueTypeOK'
    OBVIOUS
  <2> USE DEF QueueTypeOK
  <2>1. ASSUME NEW t \in Threads, NEW m \in Msgs, LockToPush(t, m) PROVE QueueTypeOK'
    BY <2>1 DEF LockToPush
  <2>2. ASSUME NEW t \in Threads, PushAndUnlock(t) PROVE QueueTypeOK'
    BY <2>2 DEF PushAndUnlock
  <2>3. CASE TryLock
    BY <2>3 DEF TryLock
  <2>4. CASE MoveOne
    BY <2>4, HeadTailProperties DEF MoveOne
  <2>5. CASE UnlockDrained
    BY <2>5 DEF UnlockDrained
  <2>6. CASE DispatchOne
    BY <2>6, HeadTailProperties DEF DispatchOne
  <2>7. CASE UNCHANGED queueVars
    BY <2>7 DEF queueVars
  <2>8. QED
    BY <2>1, <2>2, <2>3, <2>4, <2>5, <2>6, <2>7 DEF QueueNext
<1>3. QED
  BY <1>1, <1>2, PTL DEF QueueSafeSpec

(* The mutex has exactly one owner, it is the thread inside the critical   *)
(* section.  The consumer may be one of the threads that push, at any      *)
(* moment of its batch as executeSendAndClose does, but never while it     *)
(* drains; and it never starts a second drain on a batch it has not worked *)
(* off.                                                                    *)
THEOREM MutexCorrect == QueueSafeSpec => []LockDiscipline
<1>1. QueueInit => LockDiscipline
  BY DEF QueueInit, LockDiscipline
<1>2. QueueTypeOK /\ LockDiscipline /\ [QueueNext]_queueVars => LockDiscipline'
  <2> SUFFICES ASSUME QueueTypeOK, LockDiscipline, [QueueNext]_queueVars PROVE LockDiscipline'
    OBVIOUS
  <2> USE ThreadsAssumption, MsgsAssumption DEF QueueTypeOK, LockDiscipline
  <2>1. ASSUME NEW t \in Threads, NEW m \in Msgs, LockToPush(t, m)
        PROVE LockDiscipline'
    BY <2>1 DEF LockToPush
  <2>2. ASSUME NEW t \in Threads, PushAndUnlock(t) PROVE LockDiscipline'
    BY <2>2, AppendProperties DEF PushAndUnlock
  <2>3. CASE TryLock
    BY <2>3 DEF TryLock
  <2>4. CASE MoveOne
    BY <2>4, AppendProperties, HeadTailProperties DEF MoveOne
  <2>5. CASE UnlockDrained
    BY <2>5 DEF UnlockDrained
  <2>6. CASE DispatchOne
    <3>1. Len(dispatch) = 1 <=> Tail(dispatch) = <<>>
      <4>1. dispatch \in Seq(Msgs) /\ dispatch # <<>>
        BY <2>6 DEF DispatchOne
      <4>2. Tail(dispatch) \in Seq(Msgs) /\ Len(Tail(dispatch)) = Len(dispatch) - 1
        BY <4>1, HeadTailProperties
      <4>3. Tail(dispatch) = <<>> <=> Len(Tail(dispatch)) = 0
        BY <4>2, EmptySeq
      <4>4. QED
        BY <4>1, <4>2, <4>3, LenProperties
    <3>2. QED
      BY <2>6, <3>1 DEF DispatchOne
  <2>7. CASE UNCHANGED queueVars
    BY <2>7 DEF queueVars
  <2>8. QED
    BY <2>1, <2>2, <2>3, <2>4, <2>5, <2>6, <2>7 DEF QueueNext
<1>3. QED
  BY <1>1, <1>2, QueueTypeCorrect, PTL DEF QueueSafeSpec

(* However the pushes of the threads, its own included, interleave with    *)
(* the draining and the dispatching of the consumer, the two queues and    *)
(* the mutex behave as one FIFO: nothing is lost, duplicated or reordered, *)
(* and what a handler pushes stands behind the batch that it belongs to.   *)
THEOREM ImplementsFifo == QueueSafeSpec => FifoSafe
<1>1. QueueInit => Fifo!Init
  <2>1. <<>> \o <<>> = <<>>
    BY ConcatEmptySeq, EmptySeq
  <2>2. QED
    BY <2>1 DEF QueueInit, Fifo!Init
<1>2. QueueTypeOK /\ LockDiscipline /\ [QueueNext]_queueVars => [Fifo!Next]_(dispatch \o que)
  <2> SUFFICES ASSUME QueueTypeOK, LockDiscipline, [QueueNext]_queueVars
               PROVE  Fifo!Next \/ UNCHANGED (dispatch \o que)
    OBVIOUS
  <2> USE DEF QueueTypeOK
  <2>1. ASSUME NEW t \in Threads, NEW m \in Msgs, LockToPush(t, m)
        PROVE  UNCHANGED (dispatch \o que)
    BY <2>1 DEF LockToPush
  <2>2. ASSUME NEW t \in Threads, PushAndUnlock(t) PROVE Fifo!Next
    <3>1. carried[t] \in Msgs
      BY <2>2 DEF PushAndUnlock
    <3>2. Append(dispatch \o que, carried[t]) = dispatch \o Append(que, carried[t])
      <4>1. <<carried[t]>> \in Seq(Msgs)
        BY <3>1
      <4>2. dispatch \o que \in Seq(Msgs)
        BY ConcatProperties
      <4>3. Append(dispatch \o que, carried[t]) = (dispatch \o que) \o <<carried[t]>>
        BY <3>1, <4>2, AppendIsConcat
      <4>4. Append(que, carried[t]) = que \o <<carried[t]>>
        BY <3>1, AppendIsConcat
      <4>5. QED
        BY <4>1, <4>3, <4>4, ConcatAssociative
    <3>3. Fifo!Put(carried[t])
      BY <2>2, <3>2 DEF PushAndUnlock, Fifo!Put
    <3>4. QED
      BY <3>1, <3>3 DEF Fifo!Next
  <2>3. CASE TryLock
    BY <2>3 DEF TryLock
  <2>4. CASE MoveOne
    <3>1. que \in Seq(Msgs) /\ que # <<>>
      BY <2>4 DEF MoveOne
    <3>2. Head(que) \in Msgs /\ Tail(que) \in Seq(Msgs) /\ <<Head(que)>> \in Seq(Msgs)
      BY <3>1, HeadTailProperties
    <3>3. que = <<Head(que)>> \o Tail(que)
      BY <3>1, <3>2
    <3>4. Append(dispatch, Head(que)) \o Tail(que) = dispatch \o (<<Head(que)>> \o Tail(que))
      BY <3>2, AppendIsConcat, ConcatAssociative
    <3>5. QED
      BY <2>4, <3>3, <3>4 DEF MoveOne
  <2>5. CASE UnlockDrained
    BY <2>5 DEF UnlockDrained
  <2>6. CASE DispatchOne
    <3>1. dispatch \in Seq(Msgs) /\ dispatch # <<>> /\ que \in Seq(Msgs)
      BY <2>6 DEF DispatchOne
    <3>2. dispatch \o que # <<>>
      BY <3>1, ConcatEqualIffEmpty
    <3>3. Tail(dispatch \o que) = Tail(dispatch) \o que
      BY <3>1, <3>2
    <3>4. Fifo!Take
      BY <2>6, <3>2, <3>3 DEF DispatchOne, Fifo!Take
    <3>5. QED
      BY <3>4 DEF Fifo!Next
  <2>7. CASE UNCHANGED queueVars
    BY <2>7 DEF queueVars
  <2>8. QED
    BY <2>1, <2>2, <2>3, <2>4, <2>5, <2>6, <2>7 DEF QueueNext
<1>3. QED
  BY <1>1, <1>2, QueueTypeCorrect, MutexCorrect, PTL DEF QueueSafeSpec, FifoSafe, Fifo!SafeSpec

-----------------------------------------------------------------------------
(* The block list of Buffer: where the bytes of a block are among those    *)
(* of the list.                                                            *)

\* The multiples of the length of a block, in order.
LEMMA Strides ==
  ASSUME NEW s \in Nat
  PROVE  \E f \in [Nat -> Nat] :
           /\ f[0] = 0 /\ \A n \in Nat : f[n] = n * s /\ f[n + 1] = f[n] + s
           /\ \A n, d \in Nat : f[n + d] >= f[n]
<1> DEFINE f == [n \in Nat |-> n * s]
<1>1. f \in [Nat -> Nat] /\ f[0] = 0 /\ \A n \in Nat : f[n] = n * s /\ f[n] \in Nat
  OBVIOUS
<1>2. ASSUME NEW n \in Nat PROVE f[n + 1] = f[n] + s
  <2>1. (n + 1) * s = n * s + s /\ n + 1 \in Nat
    OBVIOUS
  <2> QED BY <2>1, <1>1
<1>3. ASSUME NEW n \in Nat, NEW d \in Nat PROVE f[n + d] >= f[n]
  <2>1. (n + d) * s = n * s + d * s /\ n + d \in Nat /\ n * s \in Nat /\ d * s \in Nat
    OBVIOUS
  <2>2. f[n + d] = (n + d) * s /\ f[n] = n * s
    BY <2>1, <1>1
  <2> HIDE DEF f
  <2> QED BY <2>1, <2>2
<1> HIDE DEF f
<1> QED BY <1>1, <1>2, <1>3

\* The places of the bytes that are in a list of blocks: the head block first,
\* then Size after Size.
LEMMA BeforePlaces ==
  ASSUME Size \in Nat \ {0},
         NEW list \in Seq(Seq(Values)), list # <<>>
  PROVE  /\ Before(list, 1) = 0 /\ Before(list, 2) = Len(list[1])
         /\ \A j \in Nat : j >= 2 =>
              /\ Before(list, j) \in Nat
              /\ Before(list, j + 1) = Before(list, j) + Size
              /\ \A m \in Nat : m >= j => Before(list, m) >= Before(list, j)
<1>1. PICK k \in Nat : Len(list[1]) = k /\ Size \in Nat
  <2>1. 1 \in 1 .. Len(list)
    BY EmptySeq
  <2> QED BY <2>1, ElementOfSeq, LenProperties
<1>2. PICK f \in [Nat -> Nat] :
        /\ f[0] = 0 /\ \A n \in Nat : f[n] = n * Size /\ f[n + 1] = f[n] + Size
        /\ \A n, d \in Nat : f[n + d] >= f[n]
  BY <1>1, Strides
<1>3. \A j \in Nat : j >= 2 => j - 2 \in Nat /\ Before(list, j) = k + f[j - 2]
  BY <1>1, <1>2 DEF Before
<1>4. ASSUME NEW j \in Nat, j >= 2
      PROVE  /\ Before(list, j) \in Nat
             /\ Before(list, j + 1) = Before(list, j) + Size
             /\ \A m \in Nat : m >= j => Before(list, m) >= Before(list, j)
  <2>1. PICK n \in Nat : j = n + 2
    <3>1. j - 2 \in Nat /\ j = (j - 2) + 2
      BY <1>4
    <3> QED BY <3>1
  <2>2. Before(list, j) = k + f[n] /\ Before(list, j + 1) = k + f[n + 1]
    <3>1. j + 1 \in Nat /\ j + 1 >= 2 /\ (j + 1) - 2 = n + 1 /\ j - 2 = n
      BY <2>1
    <3> QED BY <1>3, <1>4, <3>1
  <2>3. f[n] \in Nat /\ f[n + 1] = f[n] + Size
    BY <1>2
  <2>4. ASSUME NEW m \in Nat, m >= j PROVE Before(list, m) >= Before(list, j)
    <3>1. PICK d \in Nat : m = j + d
      <4>1. m - j \in Nat /\ m = j + (m - j)
        BY <2>4
      <4> QED BY <4>1
    <3>2. m >= 2 /\ m - 2 = n + d /\ n + d \in Nat
      BY <2>1, <3>1
    <3>3. Before(list, m) = k + f[n + d]
      BY <1>3, <3>2
    <3>4. f[n + d] >= f[n] /\ f[n + d] \in Nat
      BY <1>2, <3>2
    <3>5. k + f[n + d] >= k + f[n]
      BY <2>3, <3>4
    <3> QED BY <2>2, <3>3, <3>5
  <2>5. k + f[n] \in Nat /\ k + f[n + 1] = (k + f[n]) + Size
    <3>1. \A x \in Nat : k + x \in Nat /\ k + (x + Size) = (k + x) + Size
      BY <1>1
    <3> QED BY <2>3, <3>1
  <2> QED BY <2>2, <2>4, <2>5
<1>5. Before(list, 2) = k
  <2>1. 2 \in Nat /\ 2 >= 2 /\ 2 - 2 = 0
    OBVIOUS
  <2>2. Before(list, 2) = k + f[0]
    BY <1>3, <2>1
  <2> QED BY <1>2, <2>2
<1>6. Before(list, 1) = 0
  BY DEF Before
<1> QED BY <1>1, <1>4, <1>5, <1>6

\* The block lists that the code makes: no block is too long, and when there are
\* several, neither the first nor the last is empty.
Blocks == { list \in Seq(Seq(Values)) :
              /\ list # <<>> /\ \A j \in DOMAIN list : Len(list[j]) <= Size
              /\ Len(list) > 1 => list[1] # <<>> /\ list[Len(list)] # <<>> }

\* What is in a list of blocks, by its length and by its blocks.
LEMMA BlocksTypes ==
  ASSUME NEW list \in Seq(Seq(Values)), list # <<>>
  PROVE  /\ Len(list) \in Nat \ {0} /\ DOMAIN list = 1 .. Len(list)
         /\ 1 \in 1 .. Len(list) /\ Len(list) \in 1 .. Len(list)
         /\ \A j \in 1 .. Len(list) :
              list[j] \in Seq(Values) /\ Len(list[j]) \in Nat /\ DOMAIN list[j] = 1 .. Len(list[j])
<1>1. /\ Len(list) \in Nat \ {0} /\ DOMAIN list = 1 .. Len(list)
      /\ 1 \in 1 .. Len(list) /\ Len(list) \in 1 .. Len(list)
  BY EmptySeq, LenProperties
<1>2. ASSUME NEW j \in 1 .. Len(list)
      PROVE  list[j] \in Seq(Values) /\ Len(list[j]) \in Nat /\ DOMAIN list[j] = 1 .. Len(list[j])
  <2>1. list[j] \in Seq(Values)
    BY ElementOfSeq
  <2> QED BY <2>1, LenProperties
<1> QED BY <1>1, <1>2

\* The bytes of every block are among those the list spells.
LEMMA SpelledInside ==
  ASSUME Size \in Nat \ {0},
         NEW list \in Seq(Seq(Values)), list # <<>>, NEW c \in Seq(Values), Spells(list, c),
         NEW j \in 1 .. Len(list)
  PROVE  /\ Before(list, j) \in Nat /\ Before(list, j) + Len(list[j]) <= Len(c)
         /\ j < Len(list) => Before(list, j + 1) = Before(list, j) + Len(list[j])
<1>1. /\ Len(list) \in Nat \ {0} /\ j \in Nat /\ j >= 1 /\ j <= Len(list)
      /\ \A m \in 1 .. Len(list) : Len(list[m]) \in Nat
  BY BlocksTypes
<1>2. /\ Len(c) = Before(list, Len(list)) + Len(list[Len(list)]) /\ Len(c) \in Nat
      /\ \A m \in 2 .. Len(list) - 1 : Len(list[m]) = Size
  BY LenProperties DEF Spells
<1>3. Before(list, j) \in Nat /\ Before(list, Len(list)) \in Nat
  <2>1. ASSUME NEW n \in Nat, n >= 1 PROVE Before(list, n) \in Nat
    <3>1. n = 1 \/ n >= 2
      BY <2>1
    <3> QED BY <3>1, BeforePlaces
  <2>2. Len(list) \in Nat /\ Len(list) >= 1
    BY <1>1
  <2> QED BY <1>1, <2>1, <2>2
<1>4. CASE j = Len(list)
  BY <1>1, <1>2, <1>3, <1>4
<1>5. CASE j < Len(list)
  <2>1. Before(list, j + 1) = Before(list, j) + Len(list[j])
    <3>1. CASE j = 1
      <4>1. Before(list, j) = 0 /\ Before(list, j + 1) = Len(list[1])
        BY <3>1, BeforePlaces
      <4> QED BY <3>1, <4>1, <1>1
    <3>2. CASE j >= 2
      <4>1. j \in 2 .. Len(list) - 1
        BY <1>1, <1>5, <3>2
      <4>2. Len(list[j]) = Size
        BY <1>2, <4>1
      <4> QED BY <1>1, <3>2, <4>2, BeforePlaces
    <3> QED BY <1>1, <3>1, <3>2
  <2>2. j + 1 \in Nat /\ j + 1 >= 2 /\ Len(list) >= j + 1
    BY <1>1, <1>5
  <2>3. Before(list, Len(list)) >= Before(list, j + 1)
    BY <1>1, <2>2, BeforePlaces
  <2>4. Len(list[Len(list)]) \in Nat /\ Len(list[j]) \in Nat
    BY <1>1
  <2> DEFINE b == Before(list, j)
             e == Before(list, Len(list))
             k == Len(list[j])
             m == Len(list[Len(list)])
             s == Before(list, j + 1)
  <2>5. b \in Nat /\ e \in Nat /\ k \in Nat /\ m \in Nat
    BY <1>3, <2>4, Zenon
  <2>6. s = b + k /\ e >= s
    BY <2>1, <2>3, Zenon
  <2>7. b + k <= e + m
    <3> HIDE DEF b, e, k, m, s
    <3> QED BY <2>5, <2>6
  <2>8. Before(list, j) + Len(list[j]) <= Len(c)
    BY <1>2, <2>7, Zenon
  <2> QED BY <1>3, <2>1, <2>8
<1> QED BY <1>1, <1>4, <1>5

\* With one block only, that one is what is spelled; with more, the head block
\* is not all of it.
LEMMA HeadOrAll ==
  ASSUME Size \in Nat \ {0},
         NEW list \in Blocks, NEW c \in Seq(Values), Spells(list, c)
  PROVE  /\ Len(list[1]) \in Nat /\ Len(list[1]) <= Size /\ Len(list[1]) <= Len(c)
         /\ Len(list[1]) = Len(c) <=> Len(list) = 1
         /\ Len(list[1]) = 0 => c = <<>>
         /\ Len(list) = 1 => c = list[1]
<1>1. /\ list \in Seq(Seq(Values)) /\ list # <<>> /\ \A j \in DOMAIN list : Len(list[j]) <= Size
      /\ Len(list) > 1 => list[1] # <<>> /\ list[Len(list)] # <<>>
  BY DEF Blocks
<1>2. /\ Len(list) \in Nat \ {0} /\ DOMAIN list = 1 .. Len(list) /\ 1 \in 1 .. Len(list)
      /\ Len(list) \in 1 .. Len(list)
      /\ \A j \in 1 .. Len(list) :
           list[j] \in Seq(Values) /\ Len(list[j]) \in Nat /\ DOMAIN list[j] = 1 .. Len(list[j])
  BY <1>1, BlocksTypes
<1>3. Len(list[1]) \in Nat /\ Len(list[1]) <= Size /\ Len(c) \in Nat
  BY <1>1, <1>2, LenProperties
<1>4. CASE Len(list) = 1
  <2>1. Before(list, 1) = 0
    BY <1>1, BeforePlaces
  <2>2. Len(c) = Len(list[1]) /\ \A i \in DOMAIN list[1] : c[Before(list, 1) + i] = list[1][i]
    BY <1>2, <1>3, <1>4, <2>1 DEF Spells
  <2>3. \A i \in 1 .. Len(c) : c[i] = list[1][i]
    BY <1>2, <2>1, <2>2
  <2>4. c = list[1]
    BY <1>2, <2>2, <2>3, SeqEqual
  <2>5. Len(list[1]) = 0 => c = <<>>
    BY <2>2, EmptySeq
  <2> QED BY <1>3, <1>4, <2>2, <2>4, <2>5
<1>5. CASE Len(list) > 1
  <2>1. Len(list[1]) \in Nat \ {0} /\ Len(list[Len(list)]) \in Nat \ {0}
    BY <1>1, <1>2, <1>5, EmptySeq
  <2>2. Len(c) = Before(list, Len(list)) + Len(list[Len(list)])
    BY DEF Spells
  <2>3. Before(list, Len(list)) \in Nat /\ Before(list, Len(list)) >= Len(list[1])
    <3>1. 2 \in Nat /\ 2 >= 2 /\ Len(list) \in Nat /\ Len(list) >= 2
      BY <1>2, <1>5
    <3> QED BY <1>1, <3>1, BeforePlaces
  <2> QED BY <1>3, <1>5, <2>1, <2>2, <2>3
<1> QED BY <1>2, <1>4, <1>5

-----------------------------------------------------------------------------
(* What a turn of add's loop does to the list.                             *)

\* A new tail block does not change what is spelled when the old one is full.
LEMMA NewTail ==
  ASSUME Size \in Nat \ {0},
         NEW list \in Blocks, NEW c \in Seq(Values), Spells(list, c),
         Len(list[Len(list)]) >= Size
  PROVE  /\ Append(list, <<>>) \in Seq(Seq(Values)) /\ Len(Append(list, <<>>)) = Len(list) + 1
         /\ \A j \in 1 .. Len(list) : Append(list, <<>>)[j] = list[j]
         /\ Append(list, <<>>)[Len(list) + 1] = <<>>
         /\ Spells(Append(list, <<>>), c)
<1> DEFINE w == Append(list, <<>>)
<1>1. /\ list \in Seq(Seq(Values)) /\ list # <<>> /\ \A j \in DOMAIN list : Len(list[j]) <= Size
  BY DEF Blocks
<1>2. /\ Len(list) \in Nat \ {0} /\ DOMAIN list = 1 .. Len(list)
      /\ 1 \in 1 .. Len(list) /\ Len(list) \in 1 .. Len(list)
      /\ \A j \in 1 .. Len(list) : list[j] \in Seq(Values) /\ Len(list[j]) \in Nat
  BY <1>1, BlocksTypes
<1>3. <<>> \in Seq(Values) /\ Len(<<>>) = 0
  BY EmptySeq
<1>4. /\ w \in Seq(Seq(Values)) /\ Len(w) = Len(list) + 1 /\ DOMAIN w = 1 .. Len(list) + 1
      /\ \A j \in 1 .. Len(list) : w[j] = list[j]
      /\ w[Len(list) + 1] = <<>>
  BY <1>1, <1>2, <1>3, AppendProperties, LenProperties
<1> HIDE DEF w
<1>5. w[1] = list[1] /\ \A j : Before(w, j) = Before(list, j)
  BY <1>2, <1>4 DEF Before
<1>6. Len(list[Len(list)]) = Size
  <2>1. Len(list[Len(list)]) \in Nat /\ Len(list[Len(list)]) <= Size
    BY <1>1, <1>2, Zenon
  <2> QED BY <2>1
<1>7. /\ Len(c) = Before(list, Len(list)) + Len(list[Len(list)])
      /\ \A j \in 2 .. Len(list) - 1 : Len(list[j]) = Size
      /\ \A j \in DOMAIN list : \A i \in DOMAIN list[j] : c[Before(list, j) + i] = list[j][i]
  BY DEF Spells
<1>8. Len(c) = Before(w, Len(w)) + Len(w[Len(w)])
  <2>1. Before(list, Len(list) + 1) = Len(c)
    <3>1. CASE Len(list) = 1
      <4>1. Before(list, 1) = 0 /\ Before(list, 2) = Len(list[1]) /\ Len(list[1]) \in Nat
        BY <1>1, <1>2, <3>1, BeforePlaces
      <4> QED BY <3>1, <4>1, <1>7
    <3>2. CASE Len(list) >= 2
      <4>1. Before(list, Len(list) + 1) = Before(list, Len(list)) + Size
        BY <1>1, <1>2, <3>2, BeforePlaces
      <4> QED BY <4>1, <1>6, <1>7
    <3> QED BY <1>2, <3>1, <3>2
  <2>2. Before(w, Len(w)) = Len(c) /\ Len(w[Len(w)]) = 0 /\ Len(c) \in Nat
    BY <2>1, <1>3, <1>4, <1>5, LenProperties
  <2> QED BY <2>2
<1>9. ASSUME NEW j \in 2 .. Len(w) - 1 PROVE Len(w[j]) = Size
  <2>1. j \in 1 .. Len(list) /\ (j = Len(list) \/ j \in 2 .. Len(list) - 1)
    <3>1. Len(list) \in Nat \ {0} /\ Len(w) = Len(list) + 1
      BY <1>2, <1>4, Zenon
    <3> QED BY <3>1
  <2>2. w[j] = list[j]
    BY <2>1, <1>4
  <2>3. CASE j = Len(list)
    BY <2>2, <2>3, <1>6
  <2>4. CASE j \in 2 .. Len(list) - 1
    BY <2>2, <2>4, <1>7
  <2> QED BY <2>1, <2>3, <2>4
<1>10. ASSUME NEW j \in DOMAIN w, NEW i \in DOMAIN w[j] PROVE c[Before(w, j) + i] = w[j][i]
  <2>1. CASE j = Len(list) + 1
    <3>1. w[j] = <<>> /\ DOMAIN w[j] = {}
      <4>1. DOMAIN <<>> = 1 .. 0
        BY <1>3, LenProperties
      <4> QED BY <4>1, <2>1, <1>4
    <3> QED BY <3>1
  <2>2. CASE j \in 1 .. Len(list)
    <3>1. w[j] = list[j] /\ i \in DOMAIN list[j] /\ j \in DOMAIN list
      BY <2>2, <1>2, <1>4
    <3> QED BY <3>1, <1>5, <1>7
  <2> QED BY <2>1, <2>2, <1>2, <1>4
<1>11. Spells(w, c)
  BY <1>8, <1>9, <1>10 DEF Spells
<1> QED BY <1>4, <1>11 DEF w

\* A sequence with another last element.
LEMMA LastReplaced ==
  ASSUME NEW S, NEW q \in Seq(S), q # <<>>, NEW e \in S,
         NEW w, w = [q EXCEPT ![Len(q)] = e]
  PROVE  /\ w \in Seq(S) /\ Len(w) = Len(q) /\ w # <<>> /\ w[Len(q)] = e
         /\ \A j \in 1 .. Len(q) : j # Len(q) => w[j] = q[j]
<1>1. Len(q) \in 1 .. Len(q) /\ DOMAIN q = 1 .. Len(q) /\ Len(q) \in Nat \ {0}
  BY EmptySeq, LenProperties
<1> DEFINE n == Len(q)
<1>2. w = [q EXCEPT ![n] = e] /\ n \in 1 .. Len(q)
  BY <1>1
<1> HIDE DEF n
<1>3. w \in Seq(S) /\ Len(w) = Len(q)
  BY <1>2, ExceptSeq
<1>4. \A j \in 1 .. Len(q) : w[j] = IF j = n THEN e ELSE q[j]
  BY <1>1, <1>2
<1>5. w # <<>>
  BY <1>1, <1>3, EmptySeq
<1> QED BY <1>1, <1>3, <1>4, <1>5 DEF n

\* The place of the i-th byte of a block that has p bytes before it and k in it.
LEMMA PlaceInside ==
  \A p, k, l, x, i \in Nat :
    l = p + k /\ i >= 1 =>
      /\ i <= k => p + i \in 1 .. l + x /\ p + i <= l
      /\ i > k /\ i <= k + x => p + i \in 1 .. l + x /\ ~(p + i <= l) /\ (p + i) - l = i - k
OBVIOUS

\* Where one list has the blocks of another, with a longer tail block.
LEMMA LongerTail ==
  ASSUME Size \in Nat \ {0},
         NEW list \in Seq(Seq(Values)), list # <<>>, NEW c \in Seq(Values), Spells(list, c),
         NEW x \in Seq(Values), NEW w \in Seq(Seq(Values)), Len(w) = Len(list),
         w[Len(list)] = list[Len(list)] \o x,
         \A j \in 1 .. Len(list) : j # Len(list) => w[j] = list[j]
  PROVE  Spells(w, c \o x)
<1> DEFINE n == Len(list)
           d == c \o x
<1>1. /\ n \in Nat \ {0} /\ DOMAIN list = 1 .. n /\ 1 \in 1 .. n /\ n \in 1 .. n
      /\ \A j \in 1 .. n :
           list[j] \in Seq(Values) /\ Len(list[j]) \in Nat /\ DOMAIN list[j] = 1 .. Len(list[j])
  BY BlocksTypes
<1>2. /\ list[n] \o x \in Seq(Values) /\ Len(list[n] \o x) = Len(list[n]) + Len(x)
      /\ DOMAIN (list[n] \o x) = 1 .. Len(list[n]) + Len(x)
      /\ \A i \in 1 .. Len(list[n]) + Len(x) :
           (list[n] \o x)[i] = IF i <= Len(list[n]) THEN list[n][i] ELSE x[i - Len(list[n])]
  BY <1>1, ConcatProperties, LenProperties
<1>3. /\ w \in Seq(Seq(Values)) /\ Len(w) = n /\ DOMAIN w = 1 .. n
      /\ w[n] = list[n] \o x /\ \A j \in 1 .. n : j # n => w[j] = list[j]
  BY LenProperties
<1>4. /\ Len(c) = Before(list, n) + Len(list[n]) /\ Len(c) \in Nat /\ Len(x) \in Nat
      /\ \A j \in 2 .. n - 1 : Len(list[j]) = Size
      /\ \A j \in DOMAIN list : \A i \in DOMAIN list[j] : c[Before(list, j) + i] = list[j][i]
  BY LenProperties DEF Spells
<1>5. Len(d) = Len(c) + Len(x) /\ \A i \in 1 .. Len(c) + Len(x) :
        d[i] = IF i <= Len(c) THEN c[i] ELSE x[i - Len(c)]
  BY ConcatProperties
<1> HIDE DEF n, d
<1>6. ASSUME NEW j \in 1 .. n
      PROVE  /\ Before(w, j) = Before(list, j) /\ Before(list, j) \in Nat
             /\ Before(list, j) + Len(list[j]) <= Len(c)
  <2>1. Before(list, j) \in Nat /\ Before(list, j) + Len(list[j]) <= Len(c)
    BY SpelledInside DEF n
  <2>2. CASE j = 1
    BY <2>1, <2>2 DEF Before
  <2>3. CASE j # 1
    <3>1. 1 \in 1 .. n /\ n # 1
      BY <2>3, <1>1
    <3>2. w[1] = list[1]
      BY <3>1, <1>3
    <3>3. \A m : Before(w, m) = Before(list, m)
      BY <3>2 DEF Before
    <3> QED BY <2>1, <3>3
  <2> QED BY <2>2, <2>3
<1>7. Len(d) = Before(w, Len(w)) + Len(w[Len(w)])
  <2>1. w[n] = list[n] \o x /\ Before(w, n) = Before(list, n) /\ Before(list, n) \in Nat
    BY <1>1, <1>3, <1>6
  <2>2. Len(list[n]) \in Nat
    BY <1>1
  <2> QED BY <2>1, <2>2, <1>2, <1>3, <1>4, <1>5
<1>8. \A j \in 2 .. Len(w) - 1 : Len(w[j]) = Size
  <2>1. ASSUME NEW j \in 2 .. n - 1 PROVE Len(w[j]) = Size
    <3>1. j \in 1 .. n /\ j # n
      BY <1>1
    <3> QED BY <3>1, <1>3, <1>4
  <2> QED BY <2>1, <1>3
<1>9. ASSUME NEW j \in DOMAIN w, NEW i \in DOMAIN w[j] PROVE d[Before(w, j) + i] = w[j][i]
  <2>0. j \in 1 .. n /\ j \in DOMAIN list
    BY <1>1, <1>3
  <2>1. CASE j # n
    <3>1. w[j] = list[j] /\ i \in DOMAIN list[j] /\ i \in 1 .. Len(list[j])
      BY <2>0, <2>1, <1>1, <1>3
    <3>2. Before(list, j) + i \in 1 .. Len(c) + Len(x) /\ Before(list, j) + i <= Len(c)
      <4>1. Before(list, j) \in Nat /\ Before(list, j) + Len(list[j]) <= Len(c)
        BY <2>0, <1>6
      <4>2. Len(list[j]) \in Nat /\ i \in 1 .. Len(list[j])
        BY <2>0, <3>1, <1>1
      <4>3. Len(c) \in Nat /\ Len(x) \in Nat
        BY <1>4
      <4>4. \A p, k, l, y, m \in Nat :
              p + k <= l /\ m >= 1 /\ m <= k => p + m \in 1 .. l + y /\ p + m <= l
        OBVIOUS
      <4>5. i \in Nat /\ i >= 1 /\ i <= Len(list[j])
        BY <4>2
      <4> QED BY <4>1, <4>2, <4>3, <4>4, <4>5
    <3>3. d[Before(list, j) + i] = c[Before(list, j) + i]
      BY <3>2, <1>5, Zenon
    <3>4. c[Before(list, j) + i] = list[j][i]
      BY <3>1, <2>0, <1>4, Zenon
    <3>5. Before(w, j) = Before(list, j)
      BY <2>0, <1>6, Zenon
    <3> QED BY <3>1, <3>3, <3>4, <3>5, Zenon
  <2>2. CASE j = n
    <3>1. i \in 1 .. Len(list[n]) + Len(x) /\ w[n] = list[n] \o x /\ Len(list[n]) \in Nat
      BY <2>0, <2>2, <1>1, <1>2, <1>3
    <3>2. Before(w, n) = Before(list, n) /\ Before(list, n) \in Nat
      BY <2>0, <2>2, <1>6
    <3>3. CASE i <= Len(list[n])
      <4>1. i \in DOMAIN list[n] /\ w[n][i] = list[n][i]
        BY <3>1, <3>3, <1>1, <1>2
      <4>2. Before(list, n) + i \in 1 .. Len(c) + Len(x) /\ Before(list, n) + i <= Len(c)
        <5>1. i \in 1 .. Len(list[n]) + Len(x) /\ Len(list[n]) \in Nat
          BY <3>1
        <5>2. Len(c) = Before(list, n) + Len(list[n]) /\ Len(c) \in Nat /\ Len(x) \in Nat
          BY <1>4
        <5>3. i \in Nat /\ i >= 1
          BY <5>1
        <5> QED BY <5>1, <5>2, <5>3, <3>2, <3>3, PlaceInside
      <4> QED BY <4>1, <4>2, <3>2, <2>0, <2>2, <1>4, <1>5
    <3>4. CASE i > Len(list[n])
      <4>1. w[n][i] = x[i - Len(list[n])]
        <5>1. i \in 1 .. Len(list[n]) + Len(x) /\ Len(list[n]) \in Nat
          BY <3>1
        <5>2. ~(i <= Len(list[n]))
          BY <5>1, <3>4, <1>4
        <5>3. (list[n] \o x)[i] = IF i <= Len(list[n]) THEN list[n][i] ELSE x[i - Len(list[n])]
          BY <5>1, <1>2, Zenon
        <5> QED BY <5>2, <5>3, <3>1, Zenon
      <4>2. /\ Before(list, n) + i \in 1 .. Len(c) + Len(x) /\ ~(Before(list, n) + i <= Len(c))
            /\ (Before(list, n) + i) - Len(c) = i - Len(list[n])
        <5>1. i \in 1 .. Len(list[n]) + Len(x) /\ Len(list[n]) \in Nat
          BY <3>1
        <5>2. Len(c) = Before(list, n) + Len(list[n]) /\ Len(c) \in Nat /\ Len(x) \in Nat
          BY <1>4
        <5>3. i \in Nat /\ i >= 1 /\ i <= Len(list[n]) + Len(x)
          BY <5>1, <5>2
        <5> QED BY <5>1, <5>2, <5>3, <3>2, <3>4, PlaceInside
      <4> QED BY <4>1, <4>2, <3>2, <2>2, <1>5
    <3> QED BY <3>1, <3>3, <3>4
  <2> QED BY <2>1, <2>2
<1>10. Spells(w, d)
  BY <1>7, <1>8, <1>9 DEF Spells
<1> QED BY <1>10 DEF d

\* What is copied to the tail block is spelled behind the rest.
LEMMA MoreInTail ==
  ASSUME Size \in Nat \ {0},
         NEW list \in Seq(Seq(Values)), list # <<>>, NEW c \in Seq(Values), Spells(list, c),
         NEW x \in Seq(Values)
  PROVE  /\ CopiedTo(list, x) \in Seq(Seq(Values)) /\ CopiedTo(list, x) # <<>>
         /\ Len(CopiedTo(list, x)) = Len(list)
         /\ Spells(CopiedTo(list, x), c \o x)
         /\ CopiedTo(list, x)[Len(list)] = list[Len(list)] \o x
         /\ \A j \in 1 .. Len(list) : j # Len(list) => CopiedTo(list, x)[j] = list[j]
<1> DEFINE e == list[Len(list)] \o x
           w == CopiedTo(list, x)
<1>1. e \in Seq(Values) /\ w = [list EXCEPT ![Len(list)] = e]
  <2>1. list[Len(list)] \in Seq(Values)
    BY BlocksTypes
  <2>2. e \in Seq(Values)
    BY <2>1, ConcatProperties
  <2> QED BY <2>2 DEF CopiedTo
<1> HIDE DEF e
<1>2. /\ w \in Seq(Seq(Values)) /\ Len(w) = Len(list) /\ w # <<>> /\ w[Len(list)] = e
      /\ \A j \in 1 .. Len(list) : j # Len(list) => w[j] = list[j]
  <2> HIDE DEF w
  <2> QED BY <1>1, LastReplaced
<1>3. Spells(w, c \o x)
  <2>1. w[Len(list)] = list[Len(list)] \o x
    BY <1>2 DEF e
  <2> HIDE DEF w
  <2> QED BY <1>2, <2>1, LongerTail
<1> QED BY <1>2, <1>3 DEF e, w

\* What add copies in a turn.
LEMMA AddedBlocks ==
  ASSUME Size \in Nat \ {0},
         NEW list \in Blocks, NEW c \in Seq(Values), Spells(list, c),
         NEW x \in Seq(Values), x # <<>>,
         Len(WithRoom(list)[Len(WithRoom(list))]) + Len(x) <= Size
  PROVE  /\ CopiedTo(WithRoom(list), x) \in Blocks /\ Spells(CopiedTo(WithRoom(list), x), c \o x)
         /\ Len(CopiedTo(WithRoom(list), x)[1]) =
              IF Len(list[1]) = Len(c) THEN Flat!Least(Size, Len(c) + Len(x)) ELSE Len(list[1])
<1> DEFINE room == WithRoom(list)
           w == CopiedTo(room, x)
<1>a. room = IF Len(list[Len(list)]) >= Size THEN Append(list, <<>>) ELSE list
  BY DEF WithRoom
<1>b. Len(room[Len(room)]) + Len(x) <= Size
  OBVIOUS
<1>c. SUFFICES /\ w \in Blocks /\ Spells(w, c \o x)
               /\ Len(w[1]) = IF Len(list[1]) = Len(c) THEN Flat!Least(Size, Len(c) + Len(x))
                                                       ELSE Len(list[1])
  OBVIOUS
<1> HIDE DEF room
<1> HIDE DEF w
<1>1. /\ list \in Seq(Seq(Values)) /\ list # <<>> /\ \A j \in DOMAIN list : Len(list[j]) <= Size
      /\ Len(list) > 1 => list[1] # <<>> /\ list[Len(list)] # <<>>
  BY DEF Blocks
<1>2. /\ Len(list) \in Nat \ {0} /\ DOMAIN list = 1 .. Len(list)
      /\ 1 \in 1 .. Len(list) /\ Len(list) \in 1 .. Len(list)
      /\ \A j \in 1 .. Len(list) : list[j] \in Seq(Values) /\ Len(list[j]) \in Nat
  BY <1>1, BlocksTypes
<1>3. Len(x) \in Nat \ {0} /\ Len(c) \in Nat /\ Size \in Nat \ {0}
  BY EmptySeq, LenProperties
<1>4. Len(list[1]) = Len(c) <=> Len(list) = 1
  BY HeadOrAll
<1>5. CASE Len(list[Len(list)]) >= Size
  <2>1. /\ room = Append(list, <<>>) /\ room \in Seq(Seq(Values)) /\ Len(room) = Len(list) + 1
        /\ \A j \in 1 .. Len(list) : room[j] = list[j]
        /\ room[Len(list) + 1] = <<>> /\ Spells(room, c)
    BY <1>a, <1>5, NewTail
  <2>2. room # <<>>
    <3>1. Len(room) = Len(list) + 1 /\ Len(list) \in Nat
      BY <2>1, <1>2, Zenon
    <3>2. Len(room) # 0
      BY <3>1
    <3>3. Len(<<>>) = 0
      BY EmptySeq
    <3> QED BY <3>2, <3>3, Zenon
  <2>3. /\ w \in Seq(Seq(Values)) /\ Len(w) = Len(room) /\ w # <<>> /\ Spells(w, c \o x)
        /\ w[Len(room)] = room[Len(room)] \o x
        /\ \A j \in 1 .. Len(room) : j # Len(room) => w[j] = room[j]
    BY <2>1, <2>2, MoreInTail DEF w
  <2>4. /\ \A j \in 1 .. Len(list) : w[j] = list[j]
        /\ w[Len(w)] = <<>> \o x
    <3>1. w[Len(list) + 1] = room[Len(list) + 1] \o x /\ Len(w) = Len(list) + 1
      BY <2>1, <2>3
    <3>2. \A j \in 1 .. Len(list) : j \in 1 .. Len(list) + 1 /\ j # Len(list) + 1
      <4>1. Len(list) \in Nat
        BY <1>2
      <4> QED BY <4>1
    <3>3. \A j \in 1 .. Len(list) : w[j] = list[j]
      BY <2>1, <2>3, <3>2, Zenon
    <3> QED BY <2>1, <3>1, <3>3, Zenon
  <2>5. w[Len(w)] = x /\ Len(<<>>) = 0
    BY <2>4, ConcatEmptySeq, EmptySeq
  <2>6. Len(list[1]) <= Size /\ 1 \in 1 .. Len(list) /\ w[1] = list[1]
    BY <2>4, <1>1, <1>2
  <2>7. list[1] # <<>>
    <3>1. CASE Len(list) = 1
      BY <3>1, <1>3, <1>5, EmptySeq
    <3> QED BY <3>1, <1>1, <1>2
  <2>8. ASSUME NEW j \in DOMAIN w PROVE Len(w[j]) <= Size
    <3>1. j \in 1 .. Len(list) + 1
      BY <2>1, <2>3, LenProperties
    <3>2. CASE j \in 1 .. Len(list)
      BY <3>2, <2>4, <1>1, <1>2
    <3>3. CASE j = Len(list) + 1
      <4>1. w[j] = x /\ Len(x) \in Nat /\ Size \in Nat
        BY <3>3, <2>1, <2>3, <2>5, <1>3
      <4>2. Len(room[Len(room)]) = 0
        BY <2>1, <2>5
      <4>3. 0 + Len(x) <= Size
        BY <4>2, <1>b
      <4> QED BY <4>1, <4>3
    <3> QED BY <3>1, <3>2, <3>3, <1>2
  <2>9. w \in Blocks
    BY <2>3, <2>5, <2>6, <2>7, <2>8 DEF Blocks
  <2>10. Len(list) = 1 => Len(list[1]) = Size
    BY <2>6, <1>2, <1>3, <1>5
  <2>11. Len(w[1]) = IF Len(list[1]) = Len(c) THEN Flat!Least(Size, Len(c) + Len(x))
                                              ELSE Len(list[1])
    <3>1. CASE Len(list[1]) = Len(c)
      <4>1. Len(c) = Size /\ Len(w[1]) = Size
        BY <3>1, <2>6, <2>10, <1>4
      <4>2. Flat!Least(Size, Len(c) + Len(x)) = Size
        BY <4>1, <1>3 DEF Flat!Least
      <4> QED BY <3>1, <4>1, <4>2
    <3>2. CASE Len(list[1]) # Len(c)
      <4>1. Len(w[1]) = Len(list[1])
        BY <2>6
      <4> QED BY <3>2, <4>1
    <3> QED BY <3>1, <3>2
  <2> QED BY <2>3, <2>9, <2>11
<1>6. CASE ~(Len(list[Len(list)]) >= Size)
  <2>1. room = list
    BY <1>6, <1>a
  <2>2. /\ w \in Seq(Seq(Values)) /\ Len(w) = Len(list) /\ w # <<>> /\ Spells(w, c \o x)
        /\ w[Len(list)] = list[Len(list)] \o x
        /\ \A j \in 1 .. Len(list) : j # Len(list) => w[j] = list[j]
    BY <2>1, <1>1, MoreInTail DEF w
  <2>3. /\ list[Len(list)] \o x \in Seq(Values)
        /\ Len(list[Len(list)] \o x) = Len(list[Len(list)]) + Len(x)
    BY <1>2, ConcatProperties
  <2>4. w[Len(w)] = list[Len(list)] \o x /\ w[Len(w)] # <<>>
    <3>1. w[Len(w)] = list[Len(list)] \o x
      BY <2>2, <1>2
    <3>2. Len(w[Len(w)]) # 0
      BY <3>1, <2>3, <1>2, <1>3
    <3> QED BY <3>1, <3>2, EmptySeq
  <2>5. ASSUME NEW j \in DOMAIN w PROVE Len(w[j]) <= Size
    <3>1. j \in 1 .. Len(list)
      BY <2>2, LenProperties
    <3>2. CASE j = Len(list)
      BY <3>2, <2>1, <2>2, <2>3, <2>4, <1>b
    <3>3. CASE j # Len(list)
      BY <3>1, <3>3, <2>2, <1>1, <1>2
    <3> QED BY <3>2, <3>3
  <2>6. CASE Len(list) = 1
    <3>1. Len(w[1]) = Len(c) + Len(x) /\ Len(w[1]) <= Size
      BY <2>1, <2>2, <2>3, <2>4, <2>6, <1>4, <1>b
    <3>2. Flat!Least(Size, Len(c) + Len(x)) = Len(c) + Len(x)
      <4>1. Len(x) \in Nat /\ Len(c) \in Nat /\ Size \in Nat /\ Len(c) + Len(x) <= Size
        BY <3>1, <1>3
      <4>2. \A a, b \in Nat : a <= b => Flat!Least(b, a) = a
        BY DEF Flat!Least
      <4>3. Len(c) + Len(x) \in Nat
        BY <4>1
      <4> QED BY <4>1, <4>2, <4>3
    <3>3. w \in Blocks
      <4>1. ~(Len(w) > 1)
        <5>1. Len(w) = 1
          BY <2>2, <2>6
        <5> QED BY <5>1
      <4> QED BY <4>1, <2>2, <2>5 DEF Blocks
    <3>4. Len(list[1]) = Len(c)
      BY <2>6, <1>4
    <3> QED BY <3>1, <3>2, <3>3, <3>4, <2>2
  <2>7. CASE Len(list) # 1
    <3>0. Len(list) > 1 /\ 1 # Len(list)
      BY <1>2, <2>7
    <3>1. w[1] = list[1] /\ list[1] # <<>>
      BY <3>0, <1>1, <1>2, <2>2, Zenon
    <3>2. w \in Blocks
      BY <3>1, <2>2, <2>4, <2>5 DEF Blocks
    <3>3. Len(list[1]) # Len(c)
      BY <2>7, <1>4
    <3>4. Len(w[1]) = Len(list[1])
      BY <3>1
    <3> QED BY <3>2, <3>3, <3>4, <2>2
  <2> QED BY <2>6, <2>7, <1>2
<1> QED BY <1>5, <1>6

-----------------------------------------------------------------------------
(* What a turn of pop's loop does to the list.                             *)

\* How many bytes are before a block grows by the length of a block.
LEMMA BeforeStride ==
  ASSUME Size \in Nat \ {0}
  PROVE  \E f \in [Nat -> Nat] :
           /\ \A n \in Nat : f[n + 1] = f[n] + Size
           /\ \A list : Len(list[1]) \in Nat =>
                \A n \in Nat : Before(list, n + 2) = Len(list[1]) + f[n]
<1>1. Size \in Nat
  OBVIOUS
<1>2. PICK f \in [Nat -> Nat] :
        \A n \in Nat : f[n] = n * Size /\ f[n + 1] = f[n] + Size
  BY <1>1, Strides
<1>3. ASSUME NEW list, Len(list[1]) \in Nat, NEW n \in Nat
      PROVE  Before(list, n + 2) = Len(list[1]) + f[n]
  <2>1. n + 2 # 1 /\ (n + 2) - 2 = n
    OBVIOUS
  <2>2. Before(list, n + 2) = Len(list[1]) + n * Size
    BY <2>1 DEF Before
  <2> QED BY <2>2, <1>2
<1> QED BY <1>2, <1>3

\* The first n elements.
LEMMA AtFront ==
  ASSUME NEW S, NEW q \in Seq(S), NEW n \in 0 .. Len(q)
  PROVE  /\ SubSeq(q, 1, n) \in Seq(S) /\ Len(SubSeq(q, 1, n)) = n
         /\ \A i \in 1 .. n : SubSeq(q, 1, n)[i] = q[i]
<1>1. Len(q) \in Nat /\ n \in Int /\ n >= 0 /\ \A i \in 1 .. n : q[i] \in S
  BY LenProperties, ElementOfSeq
<1> DEFINE p == SubSeq(q, 1, n)
<1>2. /\ p \in Seq(S) /\ Len(p) = IF 1 <= n THEN n - 1 + 1 ELSE 0
      /\ \A i \in 1 .. n - 1 + 1 : p[i] = q[1 + i - 1]
  BY <1>1, SubSeqProperties
<1> HIDE DEF p
<1>3. n - 1 + 1 = n /\ \A i \in 1 .. n : 1 + i - 1 = i
  BY <1>1
<1>4. p \in Seq(S) /\ Len(p) = n /\ \A i \in 1 .. n : p[i] = q[i]
  BY <1>1, <1>2, <1>3
<1> QED BY <1>4 DEF p

\* The bytes at the front are those of the head block.
LEMMA FrontIsHead ==
  ASSUME Size \in Nat \ {0},
         NEW list \in Blocks, NEW c \in Seq(Values), Spells(list, c),
         NEW n \in 0 .. Len(list[1])
  PROVE  /\ n \in 0 .. Len(c) /\ SubSeq(list[1], 1, n) = SubSeq(c, 1, n)
         /\ n = Len(list[1]) => SubSeq(c, 1, n) = list[1]
<1>1. list \in Seq(Seq(Values)) /\ list # <<>>
  BY DEF Blocks
<1>2. /\ 1 \in DOMAIN list /\ list[1] \in Seq(Values) /\ Len(list[1]) \in Nat
      /\ DOMAIN list[1] = 1 .. Len(list[1])
  BY <1>1, BlocksTypes
<1>3. Len(list[1]) <= Len(c) /\ Len(c) \in Nat
  BY HeadOrAll, LenProperties
<1>4. n \in 0 .. Len(c)
  BY <1>2, <1>3
<1>5. \A i \in 1 .. Len(list[1]) : c[i] = list[1][i]
  <2>1. Before(list, 1) = 0
    BY <1>1, BeforePlaces
  <2>2. \A i \in DOMAIN list[1] : c[Before(list, 1) + i] = list[1][i]
    BY <1>2 DEF Spells
  <2>3. \A i \in 1 .. Len(list[1]) : 0 + i = i
    BY <1>2
  <2> QED BY <1>2, <2>1, <2>2, <2>3
<1> DEFINE p == SubSeq(list[1], 1, n)
           q == SubSeq(c, 1, n)
<1>6. p \in Seq(Values) /\ Len(p) = n /\ \A i \in 1 .. n : p[i] = list[1][i]
  BY <1>2, AtFront
<1>7. q \in Seq(Values) /\ Len(q) = n /\ \A i \in 1 .. n : q[i] = c[i]
  BY <1>4, AtFront
<1> HIDE DEF p, q
<1>8. p = q
  <2>1. \A i \in 1 .. n : i \in 1 .. Len(list[1])
    BY <1>2
  <2>2. \A i \in 1 .. n : p[i] = q[i]
    BY <1>5, <1>6, <1>7, <2>1
  <2> QED BY <1>6, <1>7, <2>2, SeqEqual
<1>9. n = Len(list[1]) => p = list[1]
  BY <1>2, SubSeqFull DEF p
<1> QED BY <1>4, <1>8, <1>9 DEF p, q

\* The empty list: one block that is empty.
LEMMA EmptyBlocks ==
  ASSUME Size \in Nat \ {0}
  PROVE  << <<>> >> \in Blocks /\ Spells(<< <<>> >>, <<>>) /\ Len(<< <<>> >>[1]) = 0
<1>1. <<>> \in Seq(Values) /\ Len(<<>>) = 0 /\ DOMAIN <<>> = {}
  BY EmptySeq, LenProperties
<1> DEFINE e == << <<>> >>
<1>2. e \in Seq(Seq(Values)) /\ Len(e) = 1 /\ DOMAIN e = 1 .. 1 /\ e[1] = <<>> /\ e # <<>>
  BY <1>1
<1> HIDE DEF e
<1>3. Before(e, 1) = 0
  BY <1>2, BeforePlaces
<1>4. \A j \in DOMAIN e : e[j] = <<>>
  BY <1>2
<1>5. e \in Blocks
  <2>1. \A j \in DOMAIN e : Len(e[j]) <= Size
    BY <1>1, <1>4
  <2>2. ~(Len(e) > 1)
    BY <1>2
  <2> QED BY <1>2, <2>1, <2>2 DEF Blocks
<1>6. Spells(e, <<>>)
  <2>1. Len(<<>>) = Before(e, Len(e)) + Len(e[Len(e)])
    <3>1. Before(e, Len(e)) = 0 /\ Len(e[Len(e)]) = 0
      BY <1>1, <1>2, <1>3, Zenon
    <3> QED BY <3>1, <1>1
  <2>2. \A j \in 2 .. Len(e) - 1 : Len(e[j]) = Size
    BY <1>2
  <2>3. \A j \in DOMAIN e : DOMAIN e[j] = {}
    BY <1>1, <1>4
  <2> QED BY <2>1, <2>2, <2>3 DEF Spells
<1>7. Len(e[1]) = 0
  BY <1>1, <1>2
<1> QED BY <1>5, <1>6, <1>7 DEF e

\* What is left when the head block is used up.
LEMMA FreedBlocks ==
  ASSUME Size \in Nat \ {0},
         NEW list \in Blocks, NEW c \in Seq(Values), Spells(list, c),
         NEW k
  PROVE  k = Len(list[1]) =>
           /\ HeadFreed(list) \in Blocks
           /\ Spells(HeadFreed(list), SubSeq(c, k + 1, Len(c)))
           /\ Len(HeadFreed(list)[1]) = Flat!Least(Size, Len(c) - k)
<1> DEFINE w == HeadFreed(list)
           d == SubSeq(c, k + 1, Len(c))
<1>0. SUFFICES ASSUME k = Len(list[1])
               PROVE  w \in Blocks /\ Spells(w, d) /\ Len(w[1]) = Flat!Least(Size, Len(c) - k)
  OBVIOUS
<1>1. /\ list \in Seq(Seq(Values)) /\ list # <<>> /\ \A j \in DOMAIN list : Len(list[j]) <= Size
      /\ Len(list) > 1 => list[1] # <<>> /\ list[Len(list)] # <<>>
  BY DEF Blocks
<1>2. /\ Len(list) \in Nat \ {0} /\ DOMAIN list = 1 .. Len(list)
      /\ 1 \in 1 .. Len(list) /\ Len(list) \in 1 .. Len(list)
      /\ \A j \in 1 .. Len(list) :
           list[j] \in Seq(Values) /\ Len(list[j]) \in Nat /\ DOMAIN list[j] = 1 .. Len(list[j])
  BY <1>1, BlocksTypes
<1>3. /\ k \in Nat /\ k <= Len(c) /\ Len(c) \in Nat /\ Size \in Nat \ {0}
      /\ k = Len(c) <=> Len(list) = 1
  BY <1>0, HeadOrAll, LenProperties
<1>4. /\ d \in Seq(Values) /\ Len(d) = Len(c) - k
      /\ \A i \in 1 .. Len(c) - k : d[i] = c[i + k]
  <2>1. k \in 0 .. Len(c)
    BY <1>3
  <2> QED BY <2>1, AtDrop
<1>5. <<>> \in Seq(Values) /\ Len(<<>>) = 0 /\ DOMAIN <<>> = {}
  BY EmptySeq, LenProperties
<1>6. CASE Len(list) = 1
  <2>1. w = << <<>> >>
    BY <1>6 DEF HeadFreed
  <2>2. Len(c) - k = 0
    BY <1>3, <1>6
  <2>3. d = <<>>
    BY <2>2, <1>4, EmptySeq
  <2>4. Flat!Least(Size, Len(c) - k) = 0
    BY <2>2, <1>3 DEF Flat!Least
  <2> HIDE DEF w, d
  <2> QED BY <2>1, <2>3, <2>4, EmptyBlocks
<1>7. CASE Len(list) # 1
  <2>0. Len(list) > 1 /\ Len(list) - 1 \in Nat \ {0} /\ Len(list) - 1 >= 1 /\ 2 \in 1 .. Len(list)
    BY <1>2, <1>7
  <2>1. /\ w \in Seq(Seq(Values)) /\ Len(w) = Len(list) - 1
        /\ \A j \in 1 .. Len(list) - 1 : w[j] = list[j + 1]
    <3>1. w = Tail(list)
      BY <1>7 DEF HeadFreed
    <3> HIDE DEF w
    <3> QED BY <3>1, <1>1, HeadTailProperties
  <2> HIDE DEF w, d
  <2>2. DOMAIN w = 1 .. Len(list) - 1 /\ w # <<>>
    BY <2>0, <2>1, LenProperties, EmptySeq
  <2>3. \A j \in 1 .. Len(list) - 1 : j + 1 \in 1 .. Len(list) /\ j + 1 \in DOMAIN list
    BY <1>2
  <2>4. /\ Len(c) = Before(list, Len(list)) + Len(list[Len(list)])
        /\ \A j \in 2 .. Len(list) - 1 : Len(list[j]) = Size
        /\ \A j \in DOMAIN list : \A i \in DOMAIN list[j] : c[Before(list, j) + i] = list[j][i]
    BY DEF Spells
  <2>5. 1 \in 1 .. Len(list) - 1 /\ Len(list) - 1 \in 1 .. Len(list) - 1 /\ (Len(list) - 1) + 1 = Len(list)
    BY <2>0
  <2>6. w[1] = list[2] /\ w[Len(w)] = list[Len(list)]
    <3>1. w[1] = list[1 + 1] /\ w[Len(list) - 1] = list[(Len(list) - 1) + 1]
      BY <2>1, <2>5
    <3> QED BY <3>1, <2>1, <2>5
  <2>7. ASSUME NEW j \in 1 .. Len(list) - 1 PROVE Before(list, j + 1) = Before(w, j) + k
    <3>1. CASE j = 1
      <4>1. Before(list, 2) = k /\ Before(w, 1) = 0
        BY <1>0, <1>1, <2>1, <2>2, BeforePlaces
      <4> QED BY <3>1, <4>1, <1>3
    <3>2. CASE j # 1
      <4>1. PICK n \in Nat : j = n + 2
        <5>1. j - 2 \in Nat /\ j = (j - 2) + 2
          BY <2>0, <3>2
        <5> QED BY <5>1
      <4>2. j + 1 = (n + 1) + 2 /\ n + 1 \in Nat /\ 2 \in 2 .. Len(list) - 1
        BY <4>1, <2>0
      <4>3. PICK f \in [Nat -> Nat] :
              /\ \A m \in Nat : f[m + 1] = f[m] + Size
              /\ \A v : Len(v[1]) \in Nat => \A m \in Nat : Before(v, m + 2) = Len(v[1]) + f[m]
        BY BeforeStride
      <4>4. Len(w[1]) = Size
        BY <2>4, <2>6, <4>2
      <4>5. Before(list, j + 1) = k + f[n + 1]
        BY <1>0, <1>3, <4>2, <4>3
      <4>6. Before(w, j) = Size + f[n]
        BY <1>3, <4>1, <4>3, <4>4
      <4>7. f[n + 1] = f[n] + Size /\ f[n] \in Nat
        BY <4>3
      <4>8. \A a, x, z \in Nat : a + (x + z) = (z + x) + a
        OBVIOUS
      <4>9. k \in Nat /\ f[n] \in Nat /\ Size \in Nat
        BY <1>3, <4>7
      <4>10. k + (f[n] + Size) = (Size + f[n]) + k
        BY <4>8, <4>9, ZenonT(60)
      <4> QED BY <4>5, <4>6, <4>7, <4>10, Zenon
    <3> QED BY <3>1, <3>2
  <2>8. ASSUME NEW j \in 1 .. Len(list) - 1
        PROVE  Before(w, j) \in Nat
    <3>1. j = 1 \/ (j \in Nat /\ j >= 2)
      BY <2>0
    <3>2. CASE j = 1
      <4>1. Before(w, 1) = 0
        BY <2>1, <2>2, BeforePlaces
      <4> QED BY <4>1, <3>2
    <3>3. CASE j \in Nat /\ j >= 2
      BY <3>3, <2>1, <2>2, BeforePlaces
    <3> QED BY <3>1, <3>2, <3>3
  <2>9. Len(d) = Before(w, Len(w)) + Len(w[Len(w)])
    <3>1. Before(list, Len(list)) = Before(w, Len(list) - 1) + k /\ Before(w, Len(list) - 1) \in Nat
      BY <2>5, <2>7, <2>8
    <3>2. Len(list[Len(list)]) \in Nat
      BY <1>2
    <3> DEFINE a == Before(w, Len(list) - 1)
               l == Len(list[Len(list)])
               m == Len(c)
    <3>3. m = (a + k) + l
      BY <3>1, <2>4, Zenon
    <3>4. a \in Nat /\ l \in Nat /\ m \in Nat /\ k \in Nat
      BY <3>1, <3>2, <1>3
    <3>5. m - k = a + l
      <4> HIDE DEF a, l, m
      <4> QED BY <3>3, <3>4
    <3>6. Len(c) - k = Before(w, Len(list) - 1) + Len(list[Len(list)])
      BY <3>5
    <3> QED BY <3>6, <1>4, <2>1, <2>6
  <2>10. ASSUME NEW j \in 2 .. Len(w) - 1 PROVE Len(w[j]) = Size
    <3>1. Len(w) = Len(list) - 1
      BY <2>1
    <3>2. j \in 1 .. Len(list) - 1 /\ j + 1 \in 2 .. Len(list) - 1
      BY <3>1, <2>0
    <3>3. w[j] = list[j + 1]
      BY <3>2, <2>1
    <3> QED BY <3>2, <3>3, <2>4
  <2>11. ASSUME NEW j \in DOMAIN w, NEW i \in DOMAIN w[j] PROVE d[Before(w, j) + i] = w[j][i]
    <3>1. j \in 1 .. Len(list) - 1
      BY <2>2
    <3>2. w[j] = list[j + 1] /\ j + 1 \in 1 .. Len(list) /\ j + 1 \in DOMAIN list
      BY <3>1, <2>1, <2>3
    <3>3. c[Before(list, j + 1) + i] = w[j][i]
      BY <3>2, <2>4
    <3>4. i \in 1 .. Len(list[j + 1]) /\ Len(list[j + 1]) \in Nat
      BY <3>2, <1>2
    <3>5. Before(list, j + 1) + Len(list[j + 1]) <= Len(c)
      BY <3>2, <1>1, SpelledInside
    <3>6. Before(list, j + 1) = Before(w, j) + k /\ Before(w, j) \in Nat
      BY <3>1, <2>7, <2>8
    <3>8. Before(w, j) + i \in 1 .. Len(c) - k
          /\ (Before(w, j) + i) + k = Before(list, j + 1) + i
      <4>1. i \in Nat /\ i >= 1 /\ i <= Len(list[j + 1]) /\ Len(list[j + 1]) \in Nat
        BY <3>4
      <4>2. k \in Nat /\ Len(c) \in Nat /\ Before(w, j) \in Nat
        BY <1>3, <3>6
      <4>3. (Before(w, j) + k) + Len(list[j + 1]) <= Len(c)
        BY <3>5, <3>6, Zenon
      <4> DEFINE a == Before(w, j)
                 l == Len(list[j + 1])
                 m == Len(c)
      <4>4. a \in Nat /\ l \in Nat /\ m \in Nat /\ (a + k) + l <= m
        BY <4>1, <4>2, <4>3
      <4>5. a + i \in 1 .. m - k /\ (a + i) + k = (a + k) + i
        <5> HIDE DEF a, l, m
        <5>1. i \in Nat /\ i >= 1 /\ i <= l
          BY <4>1 DEF l
        <5> QED BY <4>2, <4>4, <5>1
      <4> QED BY <3>6, <4>5, Zenon
    <3>9. d[Before(w, j) + i] = c[(Before(w, j) + i) + k]
      BY <3>8, <1>4
    <3> QED BY <3>3, <3>8, <3>9
  <2>12. w \in Blocks
    <3>1. \A j \in DOMAIN w : Len(w[j]) <= Size
      BY <2>1, <2>2, <2>3, <1>1, Zenon
    <3>2. w[Len(w)] # <<>>
      BY <2>0, <2>6, <1>1
    <3>3. Len(w) > 1 => w[1] # <<>>
      <4>1. ASSUME Len(w) > 1 PROVE w[1] # <<>>
        <5>1. 2 \in 2 .. Len(list) - 1
          BY <4>1, <2>0, <2>1
        <5>2. Len(w[1]) = Size
          BY <5>1, <2>4, <2>6
        <5> QED BY <5>2, <1>3, <1>5
      <4> QED BY <4>1
    <3> QED BY <2>1, <2>2, <3>1, <3>2, <3>3 DEF Blocks
  <2>13. Spells(w, d)
    BY <2>9, <2>10, <2>11 DEF Spells
  <2>14. Len(w[1]) = Flat!Least(Size, Len(c) - k)
    <3>1. Before(list, 2) = k
      BY <1>0, <1>1, BeforePlaces
    <3>2. Len(list[2]) \in Nat /\ Len(list[2]) <= Size
      BY <2>0, <1>1, <1>2
    <3>3. k + Len(list[2]) <= Len(c)
      BY <2>0, <3>1, <1>1, SpelledInside
    <3>4. CASE Len(list) = 2
      <4>1. Len(c) = k + Len(list[2])
        BY <3>1, <3>4, <2>4
      <4>2. \A x \in Nat : x <= Size => Flat!Least(Size, x) = x
        BY <1>3 DEF Flat!Least
      <4>3. Len(c) - k = Len(list[2])
        BY <4>1, <3>2, <1>3
      <4> QED BY <4>2, <4>3, <3>2, <2>6
    <3>5. CASE Len(list) # 2
      <4>1. 2 \in 2 .. Len(list) - 1
        <5>1. Len(list) \in Nat
          BY <1>2
        <5>2. \A n \in Nat : n > 1 /\ n # 2 => 2 \in 2 .. n - 1
          OBVIOUS
        <5> QED BY <5>1, <5>2, <3>5, <2>0, Zenon
      <4>2. Len(list[2]) = Size
        BY <4>1, <2>4
      <4>3. \A x \in Nat : Size <= x => Flat!Least(Size, x) = Size
        BY <1>3 DEF Flat!Least
      <4>4. Len(c) - k \in Nat /\ Size <= Len(c) - k
        BY <4>2, <3>3, <1>3
      <4> QED BY <4>2, <4>3, <4>4, <2>6
    <3> QED BY <3>4, <3>5
  <2> QED BY <2>12, <2>13, <2>14
<1> QED BY <1>6, <1>7

\* What is left when a part of the head block is used up.
LEMMA CutBlocks ==
  ASSUME Size \in Nat \ {0},
         NEW list \in Blocks, NEW c \in Seq(Values), Spells(list, c),
         NEW n \in Nat, n < Len(list[1])
  PROVE  /\ HeadCut(list, n) \in Blocks
         /\ Spells(HeadCut(list, n), SubSeq(c, n + 1, Len(c)))
         /\ Len(HeadCut(list, n)[1]) = Len(list[1]) - n
<1> DEFINE w == HeadCut(list, n)
           d == SubSeq(c, n + 1, Len(c))
           rest == SubSeq(list[1], n + 1, Len(list[1]))
<1>0. SUFFICES w \in Blocks /\ Spells(w, d) /\ Len(w[1]) = Len(list[1]) - n
  OBVIOUS
<1>1. /\ list \in Seq(Seq(Values)) /\ list # <<>> /\ \A j \in DOMAIN list : Len(list[j]) <= Size
      /\ Len(list) > 1 => list[1] # <<>> /\ list[Len(list)] # <<>>
  BY DEF Blocks
<1>2. /\ Len(list) \in Nat \ {0} /\ DOMAIN list = 1 .. Len(list)
      /\ 1 \in 1 .. Len(list) /\ Len(list) \in 1 .. Len(list)
      /\ \A j \in 1 .. Len(list) :
           list[j] \in Seq(Values) /\ Len(list[j]) \in Nat /\ DOMAIN list[j] = 1 .. Len(list[j])
  BY <1>1, BlocksTypes
<1>3. /\ Len(list[1]) \in Nat /\ Len(list[1]) <= Len(c) /\ Len(c) \in Nat /\ Len(list[1]) <= Size
      /\ n < Len(c) /\ Size \in Nat \ {0}
  BY HeadOrAll, LenProperties
<1>4. /\ d \in Seq(Values) /\ Len(d) = Len(c) - n
      /\ \A i \in 1 .. Len(c) - n : d[i] = c[i + n]
  <2>1. n \in 0 .. Len(c)
    BY <1>3
  <2> QED BY <2>1, AtDrop
<1>5. /\ rest \in Seq(Values) /\ Len(rest) = Len(list[1]) - n
      /\ DOMAIN rest = 1 .. Len(list[1]) - n
      /\ \A i \in 1 .. Len(list[1]) - n : rest[i] = list[1][i + n]
  <2>1. n \in 0 .. Len(list[1]) /\ list[1] \in Seq(Values)
    BY <1>2, <1>3
  <2> QED BY <2>1, AtDrop
<1>6. w = [list EXCEPT ![1] = rest]
  BY DEF HeadCut
<1> HIDE DEF w, d, rest
<1>7. /\ w \in Seq(Seq(Values)) /\ Len(w) = Len(list) /\ DOMAIN w = 1 .. Len(list) /\ w # <<>>
      /\ w[1] = rest /\ \A j \in 1 .. Len(list) : j # 1 => w[j] = list[j]
  <2>1. w \in Seq(Seq(Values)) /\ Len(w) = Len(list)
    BY <1>1, <1>2, <1>5, <1>6, ExceptSeq
  <2>2. w[1] = rest /\ \A j \in 1 .. Len(list) : j # 1 => w[j] = list[j]
    BY <1>2, <1>6
  <2>3. DOMAIN w = 1 .. Len(list) /\ w # <<>>
    BY <1>2, <2>1, LenProperties, EmptySeq
  <2> QED BY <2>1, <2>2, <2>3
<1>8. Len(w[1]) = Len(list[1]) - n /\ Len(w[1]) \in Nat \ {0} /\ Len(w[1]) <= Size
  <2>1. Len(w[1]) = Len(list[1]) - n
    BY <1>5, <1>7
  <2> QED BY <2>1, <1>3
<1>9. /\ Len(c) = Before(list, Len(list)) + Len(list[Len(list)])
      /\ \A j \in 2 .. Len(list) - 1 : Len(list[j]) = Size
      /\ \A j \in DOMAIN list : \A i \in DOMAIN list[j] : c[Before(list, j) + i] = list[j][i]
  BY DEF Spells
<1>10. Before(list, 1) = 0 /\ Before(w, 1) = 0
  BY <1>1, <1>7, BeforePlaces
<1>11. ASSUME NEW j \in 1 .. Len(list), j # 1
       PROVE  Before(list, j) = Before(w, j) + n /\ Before(w, j) \in Nat
  <2>1. PICK m \in Nat : j = m + 2
    <3>1. j - 2 \in Nat /\ j = (j - 2) + 2
      BY <1>11
    <3> QED BY <3>1
  <2>2. PICK f \in [Nat -> Nat] :
          \A v : Len(v[1]) \in Nat => \A y \in Nat : Before(v, y + 2) = Len(v[1]) + f[y]
    BY BeforeStride
  <2>3. Before(list, j) = Len(list[1]) + f[m] /\ Before(w, j) = Len(w[1]) + f[m] /\ f[m] \in Nat
    BY <1>3, <1>8, <2>1, <2>2
  <2>4. Len(list[1]) + f[m] = (Len(w[1]) + f[m]) + n /\ Len(w[1]) + f[m] \in Nat
    <3>1. Len(list[1]) = Len(w[1]) + n
      BY <1>3, <1>8
    <3>2. Len(w[1]) \in Nat /\ f[m] \in Nat
      BY <2>3, <1>8
    <3>3. (Len(w[1]) + n) + f[m] = (Len(w[1]) + f[m]) + n /\ Len(w[1]) + f[m] \in Nat
      <4>1. \A a, x \in Nat : (a + n) + x = (a + x) + n /\ a + x \in Nat
        OBVIOUS
      <4> QED BY <3>2, <4>1, Zenon
    <3> QED BY <3>1, <3>3, Zenon
  <2> QED BY <2>3, <2>4, Zenon
<1>12. Len(d) = Before(w, Len(w)) + Len(w[Len(w)])
  <2>1. CASE Len(list) = 1
    <3>1. Len(c) = 0 + Len(list[1])
      BY <2>1, <1>9, <1>10
    <3>2. Len(d) = 0 + Len(w[1])
      BY <3>1, <1>3, <1>4, <1>8
    <3>3. Before(w, Len(w)) = 0 /\ w[Len(w)] = w[1]
      BY <2>1, <1>7, <1>10
    <3> QED BY <3>2, <3>3, Zenon
  <2>2. CASE Len(list) # 1
    <3>1. w[Len(w)] = list[Len(list)] /\ Before(w, Len(w)) = Before(w, Len(list))
      BY <2>2, <1>2, <1>7, Zenon
    <3>2. /\ Before(list, Len(list)) = Before(w, Len(list)) + n /\ Before(w, Len(list)) \in Nat
          /\ Len(list[Len(list)]) \in Nat
      BY <2>2, <1>2, <1>11
    <3>3. Len(c) - n = Before(w, Len(list)) + Len(list[Len(list)])
      BY <3>2, <1>9
    <3> QED BY <3>1, <3>3, <1>4, Zenon
  <2> QED BY <2>1, <2>2
<1>13. ASSUME NEW j \in 2 .. Len(w) - 1 PROVE Len(w[j]) = Size
  <2>1. Len(w) = Len(list) /\ Len(list) \in Nat
    BY <1>2, <1>7
  <2>2. j \in 2 .. Len(list) - 1 /\ j \in 1 .. Len(list) /\ j # 1
    BY <2>1
  <2> QED BY <2>2, <1>7, <1>9
<1>14. ASSUME NEW j \in DOMAIN w, NEW i \in DOMAIN w[j] PROVE d[Before(w, j) + i] = w[j][i]
  <2>0. j \in 1 .. Len(list) /\ j \in DOMAIN list
    BY <1>2, <1>7
  <2>1. CASE j = 1
    <3>1. i \in 1 .. Len(list[1]) - n /\ w[j] = rest
      BY <2>1, <1>5, <1>7
    <3>2. i \in 1 .. Len(c) - n /\ i + n \in 1 .. Len(list[1]) /\ 0 + i = i /\ 0 + (i + n) = i + n
      BY <3>1, <1>3
    <3>3. Before(w, j) + i = i /\ Before(list, 1) + (i + n) = i + n
      BY <3>2, <2>1, <1>10, Zenon
    <3>4. rest[i] = list[1][i + n] /\ d[i] = c[i + n]
      BY <3>1, <3>2, <1>4, <1>5
    <3>5. i + n \in DOMAIN list[1] /\ 1 \in DOMAIN list
      BY <3>2, <1>2
    <3>6. c[Before(list, 1) + (i + n)] = list[1][i + n]
      BY <3>5, <1>9, Zenon
    <3> QED BY <3>1, <3>3, <3>4, <3>6, Zenon
  <2>2. CASE j # 1
    <3>1. w[j] = list[j] /\ Before(list, j) = Before(w, j) + n /\ Before(w, j) \in Nat
      BY <2>0, <2>2, <1>7, <1>11
    <3>2. Before(list, j) + Len(list[j]) <= Len(c)
      BY <2>0, <1>1, SpelledInside
    <3>3. c[Before(list, j) + i] = w[j][i]
      BY <2>0, <3>1, <1>9
    <3>4. i \in Nat /\ i >= 1 /\ i <= Len(list[j]) /\ Len(list[j]) \in Nat
      <4>1. i \in 1 .. Len(list[j]) /\ Len(list[j]) \in Nat
        BY <2>0, <3>1, <1>2
      <4> QED BY <4>1
    <3>5. (Before(w, j) + n) + Len(list[j]) <= Len(c) /\ Len(c) \in Nat /\ Before(w, j) \in Nat
      BY <3>1, <3>2, <1>3
    <3>6. /\ Before(w, j) + i \in 1 .. Len(c) - n
          /\ (Before(w, j) + i) + n = (Before(w, j) + n) + i
      BY <3>4, <3>5
    <3>7. d[Before(w, j) + i] = c[(Before(w, j) + i) + n]
      BY <3>6, <1>4
    <3> QED BY <3>1, <3>3, <3>6, <3>7, Zenon
  <2> QED BY <2>1, <2>2
<1>15. w \in Blocks
  <2>1. ASSUME NEW j \in DOMAIN w PROVE Len(w[j]) <= Size
    <3>1. j \in 1 .. Len(list) /\ j \in DOMAIN list
      BY <1>2, <1>7
    <3> QED BY <3>1, <1>1, <1>7, <1>8
  <2>2. w[1] # <<>>
    BY <1>8, EmptySeq
  <2>3. ASSUME Len(w) > 1 PROVE w[Len(w)] # <<>>
    <3>1. Len(list) > 1 /\ Len(list) \in Nat
      BY <2>3, <1>2, <1>7
    <3>2. Len(list) # 1
      <4>1. ~(1 > 1)
        OBVIOUS
      <4> QED BY <3>1, <4>1, Zenon
    <3> QED BY <3>1, <3>2, <1>1, <1>2, <1>7, Zenon
  <2> QED BY <1>7, <2>1, <2>2, <2>3 DEF Blocks
<1>16. Spells(w, d)
  BY <1>12, <1>13, <1>14 DEF Spells
<1> QED BY <1>8, <1>15, <1>16

-----------------------------------------------------------------------------
(* What Buffer says of a list.                                             *)

\* The value of module Buffer for a list that spells c.
Now(list, c) == [bytes |-> c, head |-> Len(list[1]), length |-> Len(c)]

\* Nothing added is nothing changed.
LEMMA AddNothing ==
  ASSUME Size \in Nat \ {0},
         NEW list \in Blocks, NEW c \in Seq(Values), Spells(list, c)
  PROVE  Flat!Add(Now(list, c), <<>>) = Now(list, c)
<1>1. c \o <<>> = c /\ Len(<<>>) = 0
  BY ConcatEmptySeq, EmptySeq
<1>2. Len(list[1]) \in Nat /\ Len(list[1]) <= Size /\ Len(c) \in Nat /\ Size \in Nat
  BY HeadOrAll, LenProperties
<1>3. \A x \in Nat : x <= Size => Flat!Least(Size, x + 0) = x
  BY <1>2 DEF Flat!Least
<1>4. Flat!Least(Size, Len(list[1]) + 0) = Len(list[1]) /\ Len(c) + 0 = Len(c)
  BY <1>2, <1>3
<1> QED BY <1>1, <1>4 DEF Now, Flat!Add

\* Buffer's Add of what is left to add, after a turn that added x.
LEMMA AddedSoFar ==
  ASSUME Size \in Nat \ {0},
         NEW list \in Blocks, NEW c \in Seq(Values), Spells(list, c),
         NEW x \in Seq(Values), NEW y \in Seq(Values),
         NEW w
  PROVE  Len(w[1]) = (IF Len(list[1]) = Len(c) THEN Flat!Least(Size, Len(c) + Len(x))
                                               ELSE Len(list[1]))
           => Flat!Add(Now(w, c \o x), y) = Flat!Add(Now(list, c), x \o y)
<1>0. SUFFICES ASSUME Len(w[1]) = IF Len(list[1]) = Len(c) THEN Flat!Least(Size, Len(c) + Len(x))
                                                           ELSE Len(list[1])
               PROVE  Flat!Add(Now(w, c \o x), y) = Flat!Add(Now(list, c), x \o y)
  OBVIOUS
<1>1. /\ Len(list[1]) \in Nat /\ Len(list[1]) <= Len(c) /\ Len(c) \in Nat
      /\ Len(x) \in Nat /\ Len(y) \in Nat
  BY HeadOrAll, LenProperties
<1>2. /\ Len(x \o y) = Len(x) + Len(y) /\ Len(c \o x) = Len(c) + Len(x)
      /\ (c \o x) \o y = c \o (x \o y)
  <2>1. Len(x \o y) = Len(x) + Len(y) /\ Len(c \o x) = Len(c) + Len(x)
    BY ConcatProperties
  <2>2. c \o (x \o y) = (c \o x) \o y
    BY BatchBehind
  <2>3. (c \o x) \o y = c \o (x \o y)
    BY <2>2
  <2> QED BY <2>1, <2>3
<1>3. (IF Len(w[1]) = Len(c) + Len(x) THEN Flat!Least(Size, Len(w[1]) + Len(y)) ELSE Len(w[1]))
        = IF Len(list[1]) = Len(c) THEN Flat!Least(Size, Len(list[1]) + (Len(x) + Len(y)))
                                   ELSE Len(list[1])
  <2> DEFINE g == Len(w[1])
             h == Len(list[1])
             n == Len(c)
             p == Len(x)
             q == Len(y)
  <2>1. h \in Nat /\ h <= n /\ n \in Nat /\ p \in Nat /\ q \in Nat
    BY <1>1
  <2>2. (h = n => g = Flat!Least(Size, n + p)) /\ (h # n => g = h)
    BY <1>0
  <2> HIDE DEF g, h, n, p, q
  <2>3. g \in Nat
    BY <2>1, <2>2 DEF Flat!Least
  <2>4. CASE h # n
    <3>1. g # n + p
      BY <2>1, <2>2, <2>4
    <3> QED BY <3>1, <2>2, <2>4 DEF g, h, n, p, q
  <2>5. CASE h = n /\ n + p <= Size
    <3>1. g = n + p
      <4>1. \A z \in Nat : z <= Size => Flat!Least(Size, z) = z
        BY DEF Flat!Least
      <4>2. n + p \in Nat
        BY <2>1
      <4> QED BY <4>1, <4>2, <2>2, <2>5, Zenon
    <3>2. g + q = h + (p + q)
      BY <3>1, <2>1, <2>5
    <3> QED BY <3>1, <3>2, <2>5 DEF g, h, n, p, q
  <2>6. CASE h = n /\ ~(n + p <= Size)
    <3>1. g = Size /\ g # n + p
      BY <2>1, <2>2, <2>6 DEF Flat!Least
    <3>2. Flat!Least(Size, h + (p + q)) = Size
      BY <2>1, <2>6 DEF Flat!Least
    <3> QED BY <3>1, <3>2, <2>6 DEF g, h, n, p, q
  <2> QED BY <2>4, <2>5, <2>6
<1>4. (Len(c) + Len(x)) + Len(y) = Len(c) + (Len(x) + Len(y))
  BY <1>1
<1>5. Flat!Add(Now(w, c \o x), y) =
        [bytes |-> (c \o x) \o y,
         head |-> IF Len(w[1]) = Len(c \o x) THEN Flat!Least(Size, Len(w[1]) + Len(y)) ELSE Len(w[1]),
         length |-> Len(c \o x) + Len(y)]
  BY DEF Flat!Add, Now
<1>6. Flat!Add(Now(list, c), x \o y) =
        [bytes |-> c \o (x \o y),
         head |-> IF Len(list[1]) = Len(c) THEN Flat!Least(Size, Len(list[1]) + Len(x \o y))
                                           ELSE Len(list[1]),
         length |-> Len(c) + Len(x \o y)]
  BY DEF Flat!Add, Now
<1>7. (IF Len(w[1]) = Len(c \o x) THEN Flat!Least(Size, Len(w[1]) + Len(y)) ELSE Len(w[1]))
        = IF Len(list[1]) = Len(c) THEN Flat!Least(Size, Len(list[1]) + Len(x \o y))
                                   ELSE Len(list[1])
  BY <1>2, <1>3, Zenon
<1>8. Len(c \o x) + Len(y) = Len(c) + Len(x \o y)
  BY <1>2, <1>4, Zenon
<1>9. \A a, b, h, g, l, m : a = b /\ h = g /\ l = m =>
        [bytes |-> a, head |-> h, length |-> l] = [bytes |-> b, head |-> g, length |-> m]
  OBVIOUS
<1>10. (c \o x) \o y = c \o (x \o y)
  BY <1>2, Zenon
<1> QED BY <1>5, <1>6, <1>7, <1>8, <1>9, <1>10, Zenon

\* What Buffer says the head block holds when n bytes of l are used up and it
\* held h.
HeadLeft(h, l, n) ==
  IF n < h THEN h - n ELSE Flat!Least(Size - ((n - h) % Size), l - n)

\* Buffer's Pop of a list.
LEMMA PopOfNow ==
  ASSUME NEW list \in Blocks, NEW c \in Seq(Values), Spells(list, c), NEW n \in 1 .. Len(c)
  PROVE  Flat!Pop(Now(list, c), n) =
           [bytes |-> SubSeq(c, n + 1, Len(c)), head |-> HeadLeft(Len(list[1]), Len(c), n),
            length |-> Len(c) - n]
<1>1. Len(c) \in Nat
  BY LenProperties
<1>2. ~(n = 0 \/ n > Len(c))
  BY <1>1
<1> QED BY <1>2 DEF Now, Flat!Pop, Flat!HeadAfter, HeadLeft

\* All of the head block and then nothing: the head block is the next one.
LEMMA HeadLeftBehind ==
  ASSUME Size \in Nat \ {0},
         NEW h \in Nat, NEW l \in Nat, h <= l
  PROVE  HeadLeft(h, l, h) = Flat!Least(Size, l - h)
<1>1. Size \in Nat \ {0}
  OBVIOUS
<1>2. h - h = 0 /\ 0 % Size = 0 /\ Size - 0 = Size /\ ~(h < h)
  BY <1>1
<1> QED BY <1>2 DEF HeadLeft

\* One block more or less leaves the same remainder.
LEMMA SameRemainder ==
  ASSUME NEW d \in Nat \ {0}, NEW n \in Nat, n >= d
  PROVE  (n - d) % d = n % d
<1>1. PICK f \in [Nat -> Nat] :
        /\ \A x \in Nat : f[x] = x * d /\ f[x + 1] = f[x] + d
        /\ \A x, e \in Nat : f[x + e] >= f[x]
  BY Strides
<1>2. \A m \in Nat : \E q \in Nat : m = f[q] + (m % d) /\ m % d \in Nat /\ m % d < d
  <2>1. ASSUME NEW m \in Nat
        PROVE  m \div d \in Nat /\ m = (m \div d) * d + (m % d) /\ m % d \in Nat /\ m % d < d
    OBVIOUS
  <2> QED BY <1>1, <2>1
<1>3. PICK q \in Nat, r \in Nat : n = f[q] + r /\ r < d /\ r = n % d
  BY <1>2
<1>4. n - d \in Nat
  OBVIOUS
<1>5. PICK p \in Nat, s \in Nat : n - d = f[p] + s /\ s < d /\ s = (n - d) % d
  BY <1>2, <1>4
<1>6. /\ n = f[q] + r /\ r < d /\ s < d /\ n = (f[p] + d) + s
      /\ f[p] \in Nat /\ f[q] \in Nat
  <2>1. f[p] \in Nat /\ f[q] \in Nat
    BY <1>1
  <2>2. n - d = f[p] + s
    BY <1>5
  <2>3. n = f[q] + r /\ r < d /\ s < d
    BY <1>3, <1>5
  <2>4. \A x \in Nat : n - d = x => n = x + d
    OBVIOUS
  <2>5. \A x \in Nat : x + s \in Nat /\ (x + s) + d = (x + d) + s
    OBVIOUS
  <2>6. n = (f[p] + s) + d
    BY <2>1, <2>2, <2>4, <2>5
  <2> QED BY <2>1, <2>3, <2>5, <2>6
<1>7. f[p + 1] = f[p] + d /\ f[(p + 1) + 1] = f[p + 1] + d /\ f[q + 1] = f[q] + d
  BY <1>1
<1>8. CASE q = p + 1
  <2>1. f[q] = f[p] + d
    BY <1>7, <1>8
  <2>2. \A x \in Nat : x + r = x + s => r = s
    OBVIOUS
  <2>3. f[q] + r = f[q] + s
    BY <1>6, <2>1
  <2>4. r = s
    BY <1>6, <2>2, <2>3
  <2> QED BY <2>4, <1>3, <1>5
<1>9. CASE q > p + 1
  <2>1. PICK e \in Nat : q = ((p + 1) + 1) + e
    <3>1. q - ((p + 1) + 1) \in Nat /\ q = ((p + 1) + 1) + (q - ((p + 1) + 1))
      BY <1>9
    <3> QED BY <3>1
  <2>2. f[q] >= f[(p + 1) + 1]
    BY <1>1, <2>1
  <2> QED BY <1>6, <1>7, <2>2
<1>10. CASE q < p + 1
  <2>1. PICK e \in Nat : p + 1 = (q + 1) + e
    <3>1. (p + 1) - (q + 1) \in Nat /\ p + 1 = (q + 1) + ((p + 1) - (q + 1))
      BY <1>10
    <3> QED BY <3>1
  <2>2. f[p + 1] >= f[q + 1]
    BY <1>1, <2>1
  <2> QED BY <1>6, <1>7, <2>2
<1> QED BY <1>8, <1>9, <1>10

\* All of the head block and then n more: the next block has become the head,
\* and n of it and of those behind it are used up.
LEMMA HeadLeftTwice ==
  ASSUME Size \in Nat \ {0},
         NEW h \in Nat, NEW l \in Nat, NEW n \in Nat \ {0}, h + n <= l
  PROVE  HeadLeft(Flat!Least(Size, l - h), l - h, n) = HeadLeft(h, l, h + n)
<1>1. Size \in Nat \ {0}
  OBVIOUS
<1>2. PICK m \in Nat : m = l - h /\ n <= m
  <2>1. l - h \in Nat /\ n <= l - h
    OBVIOUS
  <2> QED BY <2>1
<1>3. ~(h + n < h) /\ (h + n) - h = n /\ l - (h + n) = m - n
  BY <1>2
<1>4. HeadLeft(h, l, h + n) = Flat!Least(Size - (n % Size), m - n)
  BY <1>3, Zenon DEF HeadLeft
<1>5. CASE Size <= m
  <2>1. Flat!Least(Size, m) = Size
    BY <1>5 DEF Flat!Least
  <2>2. CASE n < Size
    <3>1. n % Size = n
      BY <1>1, <2>2
    <3>2. Flat!Least(Size - n, m - n) = Size - n
      BY <1>1, <1>2, <1>5, <2>2 DEF Flat!Least
    <3>3. HeadLeft(Size, m, n) = Size - n
      BY <2>2 DEF HeadLeft
    <3> QED BY <1>2, <1>4, <2>1, <3>1, <3>2, <3>3
  <2>3. CASE ~(n < Size)
    <3>1. (n - Size) % Size = n % Size
      <4>1. n \in Nat /\ n >= Size
        BY <1>1, <2>3
      <4> QED BY <1>1, <4>1, SameRemainder
    <3>2. HeadLeft(Size, m, n) = Flat!Least(Size - ((n - Size) % Size), m - n)
      BY <2>3 DEF HeadLeft
    <3> QED BY <1>2, <1>4, <2>1, <3>1, <3>2
  <2> QED BY <2>2, <2>3
<1>6. CASE ~(Size <= m)
  <2>1. Flat!Least(Size, m) = m /\ n < Size /\ n % Size = n
    BY <1>1, <1>2, <1>6 DEF Flat!Least
  <2>2. CASE n < m
    <3>1. Flat!Least(Size - n, m - n) = m - n
      BY <1>1, <1>2, <1>6, <2>2 DEF Flat!Least
    <3>2. HeadLeft(m, m, n) = m - n
      BY <2>2 DEF HeadLeft
    <3> QED BY <1>2, <1>4, <2>1, <3>1, <3>2
  <2>3. CASE n = m
    <3>1. Flat!Least(Size - n, m - n) = 0
      BY <1>1, <1>2, <2>1, <2>3 DEF Flat!Least
    <3>2. HeadLeft(m, m, n) = Flat!Least(Size, m - m)
      BY <2>3, HeadLeftBehind
    <3>3. Flat!Least(Size, m - m) = 0
      BY <1>1, <1>2 DEF Flat!Least
    <3> QED BY <1>2, <1>4, <2>1, <3>1, <3>2, <3>3
  <2> QED BY <1>2, <2>2, <2>3
<1> QED BY <1>5, <1>6

\* The bytes of c behind the first k, without the first n of them.
LEMMA RestOfRest ==
  ASSUME NEW c \in Seq(Values), NEW k \in Nat, NEW n \in Nat, k + n <= Len(c),
         NEW d
  PROVE  d = SubSeq(c, k + 1, Len(c)) =>
           /\ d \in Seq(Values) /\ Len(d) = Len(c) - k
           /\ SubSeq(d, n + 1, Len(d)) = SubSeq(c, (k + n) + 1, Len(c))
           /\ SubSeq(c, 1, k + n) = SubSeq(c, 1, k) \o SubSeq(d, 1, n)
<1>a. SUFFICES ASSUME d = SubSeq(c, k + 1, Len(c))
               PROVE  /\ d \in Seq(Values) /\ Len(d) = Len(c) - k
                      /\ SubSeq(d, n + 1, Len(d)) = SubSeq(c, (k + n) + 1, Len(c))
                      /\ SubSeq(c, 1, k + n) = SubSeq(c, 1, k) \o SubSeq(d, 1, n)
  OBVIOUS
<1>0. /\ Len(c) \in Nat /\ k \in 0 .. Len(c) /\ k + n \in 0 .. Len(c) /\ n \in 0 .. Len(c) - k
      /\ Len(c) - k \in Nat
  BY LenProperties
<1>1. d \in Seq(Values) /\ Len(d) = Len(c) - k /\ \A i \in 1 .. Len(c) - k : d[i] = c[i + k]
  BY <1>a, <1>0, AtDrop
<1> DEFINE l == SubSeq(d, n + 1, Len(d))
           r == SubSeq(c, (k + n) + 1, Len(c))
           a == SubSeq(c, 1, k)
           b == SubSeq(d, 1, n)
           f == SubSeq(c, 1, k + n)
<1>2. l \in Seq(Values) /\ Len(l) = Len(d) - n /\ \A i \in 1 .. Len(d) - n : l[i] = d[i + n]
  BY <1>0, <1>1, AtDrop
<1>3. r \in Seq(Values) /\ Len(r) = Len(c) - (k + n)
      /\ \A i \in 1 .. Len(c) - (k + n) : r[i] = c[i + (k + n)]
  BY <1>0, AtDrop
<1>4. a \in Seq(Values) /\ Len(a) = k /\ \A i \in 1 .. k : a[i] = c[i]
  BY <1>0, AtFront
<1>5. b \in Seq(Values) /\ Len(b) = n /\ \A i \in 1 .. n : b[i] = d[i]
  BY <1>0, <1>1, AtFront
<1>6. f \in Seq(Values) /\ Len(f) = k + n /\ \A i \in 1 .. k + n : f[i] = c[i]
  BY <1>0, AtFront
<1>7. a \o b \in Seq(Values) /\ Len(a \o b) = k + n
      /\ \A i \in 1 .. k + n : (a \o b)[i] = IF i <= k THEN a[i] ELSE b[i - k]
  <2> HIDE DEF a, b
  <2>1. a \in Seq(Values) /\ b \in Seq(Values) /\ Len(a) = k /\ Len(b) = n
    BY <1>4, <1>5, Zenon
  <2>2. /\ a \o b \in Seq(Values) /\ Len(a \o b) = Len(a) + Len(b)
        /\ \A i \in 1 .. Len(a) + Len(b) :
             (a \o b)[i] = IF i <= Len(a) THEN a[i] ELSE b[i - Len(a)]
    BY <2>1, ConcatProperties
  <2> QED BY <2>1, <2>2
<1> HIDE DEF l, r, a, b, f
<1>8. l = r
  <2>1. Len(d) - n = Len(c) - (k + n)
    BY <1>0, <1>1
  <2>2. ASSUME NEW i \in 1 .. Len(l) PROVE l[i] = r[i]
    <3>1. i \in 1 .. Len(c) - (k + n) /\ i \in 1 .. Len(d) - n
      BY <1>2, <2>1
    <3>2. i + n \in 1 .. Len(c) - k /\ (i + n) + k = i + (k + n)
      BY <1>0, <3>1
    <3>3. l[i] = d[i + n]
      BY <1>2, <3>1, Zenon
    <3>4. d[i + n] = c[(i + n) + k]
      BY <1>1, <3>2, Zenon
    <3>5. r[i] = c[i + (k + n)]
      BY <1>3, <3>1, Zenon
    <3> QED BY <3>2, <3>3, <3>4, <3>5, Zenon
  <2>3. Len(l) = Len(r)
    BY <1>2, <1>3, <2>1
  <2> QED BY <1>2, <1>3, <2>2, <2>3, SeqEqual
<1>9. f = a \o b
  <2>1. ASSUME NEW i \in 1 .. k + n PROVE f[i] = (a \o b)[i]
    <3>1. CASE i <= k
      <4>1. i \in 1 .. k
        BY <3>1
      <4> QED BY <4>1, <3>1, <1>4, <1>6, <1>7
    <3>2. CASE ~(i <= k)
      <4>1. i - k \in 1 .. n /\ i - k \in 1 .. Len(c) - k /\ (i - k) + k = i
        BY <3>2, <1>0
      <4>2. (a \o b)[i] = b[i - k]
        BY <3>2, <1>7, Zenon
      <4>3. b[i - k] = d[i - k]
        BY <4>1, <1>5, Zenon
      <4>4. d[i - k] = c[(i - k) + k]
        BY <4>1, <1>1, Zenon
      <4>5. f[i] = c[i]
        BY <1>6, Zenon
      <4> QED BY <4>1, <4>2, <4>3, <4>4, <4>5, Zenon
    <3> QED BY <3>1, <3>2
  <2> QED BY <1>6, <1>7, <2>1, SeqEqual
<1> QED BY <1>1, <1>8, <1>9 DEF l, r, a, b, f

-----------------------------------------------------------------------------
(* The block list spells what Buffer's operators compute.                  *)

\* Where a call is, when the blocks spell c: add has the rest of Buffer's Add to
\* do, pop the rest of Buffer's Pop.
InCall(c) ==
  /\ Spells(blocks, c) /\ dataLength = Len(c) + popIndex
  /\ popLen = 0 => flat = Flat!Add(Now(blocks, c), toAdd) /\ popOut = flatOut
  /\ popLen # 0 =>
       /\ toAdd = <<>> /\ popIndex < popLen
       /\ flat = Flat!Pop(Now(blocks, c), popLen - popIndex)
       /\ flatOut = popOut \o SubSeq(c, 1, popLen - popIndex)

\* The inductive invariant: the types, the shape of the list, and where a call is.
BlockInv == BufferTypeOK /\ blocks \in Blocks /\ \E c \in Seq(Values) : InCall(c)

\* Between two calls, Buffer has what the list spells.
LEMMA BetweenCalls ==
  ASSUME Size \in Nat \ {0},
         BlockInv, Returned
  PROVE  \E c \in Seq(Values) :
           /\ Spells(blocks, c) /\ flat = Now(blocks, c) /\ dataLength = Len(c)
           /\ popIndex = 0 /\ popOut = flatOut
<1>1. PICK c \in Seq(Values) : InCall(c)
  BY DEF BlockInv
<1>2. toAdd = <<>> /\ popLen = 0 /\ popIndex = 0
  BY DEF Returned, BlockInv, BufferTypeOK
<1>3. Spells(blocks, c) /\ dataLength = Len(c) + popIndex
      /\ flat = Flat!Add(Now(blocks, c), toAdd) /\ popOut = flatOut
  BY <1>1, <1>2 DEF InCall
<1>4. Flat!Add(Now(blocks, c), <<>>) = Now(blocks, c)
  BY <1>3, AddNothing DEF BlockInv
<1>5. dataLength = Len(c)
  <2>1. Len(c) \in Nat
    BY LenProperties
  <2> QED BY <1>2, <1>3, <2>1
<1> QED BY <1>2, <1>3, <1>4, <1>5, Zenon

\* The new list: one empty block.
LEMMA BlockInit ==
  ASSUME Size \in Nat \ {0}, MaxLength \in Nat
  PROVE  BufferInit => BlockInv
<1> SUFFICES ASSUME BufferInit PROVE BlockInv
  OBVIOUS
<1> USE DEF BufferInit
<1>1. <<>> \in Seq(Values) /\ Len(<<>>) = 0
  BY EmptySeq
<1>2. blocks \in Blocks /\ Spells(blocks, <<>>) /\ Len(blocks[1]) = 0
  BY EmptyBlocks
<1>3. BufferTypeOK
  <2>1. blocks \in Seq(Seq(Values)) /\ blocks # <<>>
    BY <1>2 DEF Blocks
  <2>2. Flat!Empty \in [bytes : Seq(Values), head : 0 .. Size, length : 0 .. MaxLength]
    BY <1>1 DEF Flat!Empty
  <2> QED BY <1>1, <2>1, <2>2 DEF BufferTypeOK
<1>4. Now(blocks, <<>>) = Flat!Empty
  BY <1>1, <1>2 DEF Now, Flat!Empty
<1>5. InCall(<<>>)
  <2>1. Flat!Add(Now(blocks, <<>>), <<>>) = Now(blocks, <<>>)
    BY <1>1, <1>2, AddNothing
  <2> QED BY <1>1, <1>2, <1>4, <2>1 DEF InCall
<1> QED BY <1>1, <1>2, <1>3, <1>5 DEF BlockInv

\* add is called: it has all of its bytes to copy.
LEMMA CallAddInv ==
  ASSUME Size \in Nat \ {0}, MaxLength \in Nat,
         BlockInv, NEW bytes \in Seq(Values), CallAdd(bytes)
  PROVE  BlockInv'
<1> USE DEF CallAdd
<1>1. PICK c \in Seq(Values) :
        /\ Spells(blocks, c) /\ flat = Now(blocks, c) /\ dataLength = Len(c)
        /\ popIndex = 0 /\ popOut = flatOut
  BY BetweenCalls
<1>2. blocks' = blocks /\ blocks \in Blocks /\ popLen = 0
  BY DEF BlockInv, Returned
<1>3. flat' = Flat!Add(Now(blocks, c), bytes)
  BY <1>1
<1>4. InCall(c)'
  BY <1>1, <1>2, <1>3 DEF InCall
<1>5. BufferTypeOK'
  <2>1. flat' = [bytes |-> c \o bytes,
                 head |-> IF Len(blocks[1]) = Len(c) THEN Flat!Least(Size, Len(blocks[1]) + Len(bytes))
                                                     ELSE Len(blocks[1]),
                 length |-> Len(c) + Len(bytes)]
    BY <1>3 DEF Flat!Add, Now
  <2>2. Len(bytes) \in Nat /\ Len(c) \in Nat /\ c \o bytes \in Seq(Values)
    BY LenProperties, ConcatProperties
  <2>3. Len(blocks[1]) \in 0 .. Size /\ Size \in Nat
    BY <1>1, <1>2, HeadOrAll
  <2>4. \A x \in Nat : Flat!Least(Size, x) \in 0 .. Size
    BY DEF Flat!Least
  <2>5. Len(c) + Len(bytes) \in 0 .. MaxLength
    BY <1>1, <2>2
  <2>6. (IF Len(blocks[1]) = Len(c) THEN Flat!Least(Size, Len(blocks[1]) + Len(bytes))
                                    ELSE Len(blocks[1])) \in 0 .. Size
    <3>1. Len(blocks[1]) + Len(bytes) \in Nat
      BY <2>2, <2>3
    <3> QED BY <2>3, <2>4, <3>1, Zenon
  <2>7. flat' \in [bytes : Seq(Values), head : 0 .. Size, length : 0 .. MaxLength]
    <3> DEFINE h == IF Len(blocks[1]) = Len(c) THEN Flat!Least(Size, Len(blocks[1]) + Len(bytes))
                                               ELSE Len(blocks[1])
    <3>1. flat' = [bytes |-> c \o bytes, head |-> h, length |-> Len(c) + Len(bytes)]
      BY <2>1
    <3>2. h \in 0 .. Size
      BY <2>6
    <3> HIDE DEF h
    <3>3. \A b \in Seq(Values) : \A z \in 0 .. Size : \A l \in 0 .. MaxLength :
            [bytes |-> b, head |-> z, length |-> l]
              \in [bytes : Seq(Values), head : 0 .. Size, length : 0 .. MaxLength]
      OBVIOUS
    <3> QED BY <2>2, <2>5, <3>1, <3>2, <3>3, Zenon
  <2> QED BY <2>7 DEF BlockInv, BufferTypeOK
<1> QED BY <1>2, <1>4, <1>5 DEF BlockInv

\* A turn of add: what it copied is behind the rest, and the rest is to do.
LEMMA AddTurnInv ==
  ASSUME Size \in Nat \ {0}, MaxLength \in Nat,
         BlockInv, AddTurn
  PROVE  BlockInv'
<1> DEFINE room == WithRoom(blocks)
           tail == room[Len(room)]
<1>1. PICK c \in Seq(Values) : InCall(c)
  BY DEF BlockInv
<1>2. /\ blocks \in Blocks /\ blocks \in Seq(Seq(Values)) /\ blocks # <<>>
      /\ toAdd \in Seq(Values) /\ toAdd # <<>> /\ popLen = 0 /\ popIndex = 0
  BY <1>1 DEF BlockInv, BufferTypeOK, AddTurn, InCall
<1>3. /\ Spells(blocks, c) /\ dataLength = Len(c) + popIndex
      /\ flat = Flat!Add(Now(blocks, c), toAdd) /\ popOut = flatOut
  BY <1>1, <1>2 DEF InCall
<1>4. Len(tail) \in Nat /\ Len(tail) < Size /\ Size \in Nat
  <2>1. Size \in Nat \ {0}
    OBVIOUS
  <2>2. Len(blocks) \in 1 .. Len(blocks) /\ Len(blocks[Len(blocks)]) \in Nat
    BY <1>2, BlocksTypes
  <2>3. CASE Len(blocks[Len(blocks)]) >= Size
    <3>1. room = Append(blocks, <<>>)
      BY <2>3 DEF WithRoom
    <3>2. Len(room) = Len(blocks) + 1 /\ room[Len(blocks) + 1] = <<>>
      BY <1>2, <1>3, <2>3, <3>1, NewTail
    <3>3. Len(tail) = 0
      BY <3>2, EmptySeq
    <3> QED BY <2>1, <3>3
  <2>4. CASE ~(Len(blocks[Len(blocks)]) >= Size)
    <3>1. room = blocks
      BY <2>4 DEF WithRoom
    <3> QED BY <2>1, <2>2, <2>4, <3>1
  <2> QED BY <2>3, <2>4
<1>5. Len(toAdd) \in Nat \ {0}
  BY <1>2, EmptySeq
<1>6. CopyLen \in 1 .. Len(toAdd) /\ Len(tail) + CopyLen <= Size
  <2>1. CopyLen = Flat!Least(Size - Len(tail), Len(toAdd))
    BY DEF CopyLen
  <2> HIDE DEF tail
  <2>2. \A t, l \in Nat : t < Size /\ l > 0 =>
          Flat!Least(Size - t, l) \in 1 .. l /\ t + Flat!Least(Size - t, l) <= Size
    BY <1>4 DEF Flat!Least
  <2> QED BY <1>4, <1>5, <2>1, <2>2
<1>7. PICK x \in Seq(Values), y \in Seq(Values) :
        /\ Len(x) = CopyLen /\ x \o y = toAdd /\ toAdd' = y
        /\ blocks' = CopiedTo(WithRoom(blocks), x)
  <2>1. CopyLen \in 0 .. Len(toAdd)
    BY <1>5, <1>6
  <2> DEFINE p == SubSeq(toAdd, 1, CopyLen)
             q == SubSeq(toAdd, CopyLen + 1, Len(toAdd))
  <2>2. p \in Seq(Values) /\ Len(p) = CopyLen /\ q \in Seq(Values) /\ p \o q = toAdd
    BY <1>2, <2>1, SplitAt
  <2>3. toAdd' = q /\ blocks' = CopiedTo(WithRoom(blocks), p)
    BY DEF AddTurn
  <2> HIDE DEF p, q
  <2> QED BY <2>2, <2>3
<1>8. /\ dataLength' = dataLength + CopyLen
      /\ popLen' = popLen /\ popIndex' = popIndex /\ popOut' = popOut
      /\ flat' = flat /\ flatOut' = flatOut
  BY DEF AddTurn
<1>9. x # <<>> /\ Len(tail) + Len(x) <= Size
  <2>1. Len(x) # 0
    BY <1>6, <1>7
  <2> QED BY <1>6, <1>7, <2>1, EmptySeq
<1>10. /\ blocks' \in Blocks /\ Spells(blocks', c \o x)
       /\ Len(blocks'[1]) = IF Len(blocks[1]) = Len(c) THEN Flat!Least(Size, Len(c) + Len(x))
                                                       ELSE Len(blocks[1])
  <2>1. Len(WithRoom(blocks)[Len(WithRoom(blocks))]) + Len(x) <= Size
    BY <1>9
  <2> QED BY <1>2, <1>3, <1>7, <1>9, <2>1, AddedBlocks
<1> HIDE DEF room, tail
<1>11. flat = Flat!Add(Now(blocks', c \o x), y)
  <2>1. Flat!Add(Now(blocks', c \o x), y) = Flat!Add(Now(blocks, c), x \o y)
    <3>1. blocks \in Blocks /\ Spells(blocks, c)
      BY <1>2, <1>3, Zenon
    <3>2. Len(blocks'[1]) = IF Len(blocks[1]) = Len(c) THEN Flat!Least(Size, Len(c) + Len(x))
                                                       ELSE Len(blocks[1])
      BY <1>10, Zenon
    <3> QED BY <3>1, <3>2, AddedSoFar
  <2> QED BY <1>3, <1>7, <2>1, Zenon
<1>12. c \o x \in Seq(Values) /\ Len(c \o x) = Len(c) + Len(x) /\ Len(c) \in Nat
  BY <1>7, ConcatProperties, LenProperties
<1>13. dataLength' = Len(c \o x) + popIndex' /\ dataLength' \in Nat
  BY <1>2, <1>3, <1>6, <1>7, <1>8, <1>12
<1>14. InCall(c \o x)'
  <2>1. popLen' = 0
    BY <1>2, <1>8
  <2>2. flat' = Flat!Add(Now(blocks', c \o x), toAdd') /\ popOut' = flatOut'
    BY <1>3, <1>7, <1>8, <1>11, Zenon
  <2> QED BY <1>10, <1>13, <2>1, <2>2, Zenon DEF InCall
<1>15. BufferTypeOK'
  <2>1. dataLength' <= MaxLength
    <3>1. flat.length = Len(c \o x) + Len(y) /\ flat.length \in 0 .. MaxLength
      <4>1. flat.length = Len(c \o x) + Len(y)
        BY <1>11 DEF Flat!Add, Now
      <4> QED BY <4>1 DEF BlockInv, BufferTypeOK
    <3>2. Len(y) \in Nat
      BY <1>7, LenProperties
    <3>3. dataLength' = Len(c \o x)
      BY <1>2, <1>8, <1>12, <1>13
    <3>4. \A a, b \in Nat : a + b <= MaxLength => a <= MaxLength
      OBVIOUS
    <3>5. Len(c \o x) \in Nat /\ Len(c \o x) + Len(y) <= MaxLength
      BY <1>13, <3>1, <3>3
    <3> QED BY <3>2, <3>3, <3>4, <3>5, Zenon
  <2>2. blocks' \in Seq(Seq(Values)) /\ blocks' # <<>>
    BY <1>10 DEF Blocks
  <2>3. popLen' \in 0 .. dataLength' /\ popIndex' \in 0 .. popLen'
    BY <1>2, <1>8, <1>13
  <2>4. dataLength' \in 0 .. MaxLength
    BY <1>13, <2>1
  <2>5. /\ popOut \in Seq(Values) /\ flatOut \in Seq(Values)
        /\ flat \in [bytes : Seq(Values), head : 0 .. Size, length : 0 .. MaxLength]
    BY DEF BlockInv, BufferTypeOK
  <2> QED BY <1>7, <1>8, <2>2, <2>3, <2>4, <2>5, Zenon DEF BufferTypeOK
<1> QED BY <1>10, <1>12, <1>14, <1>15, Zenon DEF BlockInv

\* What Buffer has after a Pop has the types of a buffer.
LEMMA PoppedType ==
  ASSUME Size \in Nat \ {0}, MaxLength \in Nat,
         NEW list \in Blocks, NEW c \in Seq(Values), Spells(list, c), NEW n \in 1 .. Len(c),
         Len(c) <= MaxLength
  PROVE  /\ Flat!Pop(Now(list, c), n)
              \in [bytes : Seq(Values), head : 0 .. Size, length : 0 .. MaxLength]
         /\ SubSeq(c, 1, n) \in Seq(Values)
<1> DEFINE h == HeadLeft(Len(list[1]), Len(c), n)
           r == SubSeq(c, n + 1, Len(c))
<1>1. /\ Len(list[1]) \in Nat /\ Len(list[1]) <= Size /\ Len(c) \in Nat
      /\ Size \in Nat \ {0} /\ MaxLength \in Nat
  BY HeadOrAll, LenProperties
<1>2. Flat!Pop(Now(list, c), n) = [bytes |-> r, head |-> h, length |-> Len(c) - n]
  BY PopOfNow
<1>3. n \in 0 .. Len(c) /\ Len(c) - n \in 0 .. MaxLength
  BY <1>1
<1>4. r \in Seq(Values) /\ SubSeq(c, 1, n) \in Seq(Values)
  BY <1>3, AtDrop, AtFront
<1>5. h \in 0 .. Size
  <2>1. CASE n < Len(list[1])
    <3>1. h = Len(list[1]) - n
      BY <2>1 DEF HeadLeft
    <3> HIDE DEF h
    <3> QED BY <1>1, <2>1, <3>1
  <2>2. CASE ~(n < Len(list[1]))
    <3>1. h = Flat!Least(Size - ((n - Len(list[1])) % Size), Len(c) - n)
      BY <2>2 DEF HeadLeft
    <3> HIDE DEF h
    <3>2. \A z \in Nat : z % Size \in Nat /\ z % Size < Size
      BY <1>1
    <3>3. n - Len(list[1]) \in Nat /\ Len(c) - n \in Nat
      BY <1>1, <2>2
    <3>4. PICK m \in Nat : m = (n - Len(list[1])) % Size /\ m < Size
      BY <3>2, <3>3
    <3>5. \A z \in Nat : Flat!Least(Size - m, z) \in 0 .. Size
      <4>1. Size - m \in Nat /\ Size - m <= Size
        <5>1. \A z \in Nat : z < Size => Size - z \in Nat /\ Size - z <= Size
          BY <1>1
        <5>2. m < Size
          BY <3>4, Zenon
        <5> QED BY <5>1, <5>2, Zenon
      <4>2. \A a, z \in Nat : Flat!Least(a, z) \in Nat /\ Flat!Least(a, z) <= a
        BY DEF Flat!Least
      <4>3. \A a, b \in Nat : b <= a /\ a <= Size => b \in 0 .. Size
        BY <1>1
      <4> QED BY <4>1, <4>2, <4>3
    <3> QED BY <3>1, <3>3, <3>4, <3>5, Zenon
  <2> QED BY <2>1, <2>2
<1> HIDE DEF h, r
<1>6. \A b \in Seq(Values) : \A z \in 0 .. Size : \A l \in 0 .. MaxLength :
        [bytes |-> b, head |-> z, length |-> l]
          \in [bytes : Seq(Values), head : 0 .. Size, length : 0 .. MaxLength]
  OBVIOUS
<1> QED BY <1>2, <1>3, <1>4, <1>5, <1>6, Zenon

\* pop is called: it returns at once, or has all of its bytes to copy.
LEMMA CallPopInv ==
  ASSUME Size \in Nat \ {0}, MaxLength \in Nat,
         BlockInv, NEW n \in Nat, CallPop(n)
  PROVE  BlockInv'
<1>0. /\ Returned
      /\ popLen' = (IF n <= dataLength THEN n ELSE 0) /\ popOut' = <<>>
      /\ flat' = Flat!Pop(flat, n)
      /\ flatOut' = (IF n <= flat.length THEN SubSeq(flat.bytes, 1, n) ELSE <<>>)
      /\ blocks' = blocks /\ dataLength' = dataLength /\ toAdd' = toAdd /\ popIndex' = popIndex
  BY DEF CallPop
<1>1. PICK c \in Seq(Values) :
        /\ Spells(blocks, c) /\ flat = Now(blocks, c) /\ dataLength = Len(c)
        /\ popIndex = 0 /\ popOut = flatOut
  BY <1>0, BetweenCalls
<1>2. blocks \in Blocks /\ toAdd = <<>> /\ Len(c) \in Nat
  BY <1>0, LenProperties DEF BlockInv, Returned
<1>3. /\ BufferTypeOK /\ Len(c) <= MaxLength
      /\ flat \in [bytes : Seq(Values), head : 0 .. Size, length : 0 .. MaxLength]
  <2>1. BufferTypeOK
    BY DEF BlockInv
  <2>2. dataLength \in 0 .. MaxLength
        /\ flat \in [bytes : Seq(Values), head : 0 .. Size, length : 0 .. MaxLength]
    BY <2>1 DEF BufferTypeOK
  <2> QED BY <1>1, <1>2, <2>1, <2>2
<1>4. flat.length = Len(c) /\ flat.bytes = c
  BY <1>1 DEF Now
<1>5. <<>> \in Seq(Values)
  BY EmptySeq
<1>6. Flat!Add(Now(blocks, c), <<>>) = Now(blocks, c)
  BY <1>1, <1>2, AddNothing
<1>7. CASE n = 0 \/ n > Len(c)
  <2>1. popLen' = 0
    BY <1>0, <1>1, <1>2, <1>7
  <2>2. flat' = flat
    BY <1>0, <1>4, <1>7 DEF Flat!Pop
  <2>3. flatOut' = <<>>
    <3>1. CASE n = 0
      <4>1. SubSeq(c, 1, 0) = <<>>
        BY SubSeqEmpty
      <4> QED BY <3>1, <4>1, <1>0, <1>4
    <3>2. CASE n > Len(c)
      BY <3>2, <1>0, <1>2, <1>4
    <3> QED BY <1>7, <3>1, <3>2
  <2>4. InCall(c)'
    <3>1. flat' = Flat!Add(Now(blocks', c), toAdd') /\ popOut' = flatOut'
      BY <1>0, <1>1, <1>2, <1>6, <2>2, <2>3, Zenon
    <3>2. Spells(blocks', c) /\ dataLength' = Len(c) + popIndex'
      BY <1>0, <1>1, <1>2
    <3> QED BY <2>1, <3>1, <3>2, Zenon DEF InCall
  <2>5. BufferTypeOK'
    <3>1. popLen' \in 0 .. dataLength' /\ popIndex' \in 0 .. popLen'
      BY <1>0, <1>1, <1>2, <2>1
    <3> QED BY <1>0, <1>3, <1>5, <2>2, <2>3, <3>1 DEF BufferTypeOK
  <2> QED BY <1>0, <1>2, <2>4, <2>5, Zenon DEF BlockInv
<1>8. CASE n # 0 /\ n <= Len(c)
  <2>1. n \in 1 .. Len(c) /\ n \in 0 .. Len(c)
    BY <1>2, <1>8
  <2>2. popLen' = n /\ flatOut' = SubSeq(c, 1, n) /\ flat' = Flat!Pop(Now(blocks, c), n)
    BY <1>0, <1>1, <1>4, <1>8
  <2>3. /\ flat' \in [bytes : Seq(Values), head : 0 .. Size, length : 0 .. MaxLength]
        /\ SubSeq(c, 1, n) \in Seq(Values)
    BY <1>1, <1>2, <1>3, <2>1, <2>2, PoppedType
  <2>4. flatOut' = popOut' \o SubSeq(c, 1, n)
    <3>1. <<>> \o SubSeq(c, 1, n) = SubSeq(c, 1, n)
      BY <2>3, ConcatEmptySeq
    <3> QED BY <1>0, <2>2, <3>1, Zenon
  <2>5. popLen' - popIndex' = n /\ popIndex' < popLen' /\ popLen' # 0
    BY <1>0, <1>1, <2>1, <2>2
  <2>6. Spells(blocks', c) /\ dataLength' = Len(c) + popIndex'
    BY <1>0, <1>1, <1>2
  <2>7. InCall(c)'
    BY <1>0, <1>2, <2>2, <2>4, <2>5, <2>6, Zenon DEF InCall
  <2>8. BufferTypeOK'
    <3>1. popLen' \in 0 .. dataLength' /\ popIndex' \in 0 .. popLen'
      BY <1>0, <1>1, <1>2, <2>1, <2>2
    <3> QED BY <1>0, <1>3, <1>5, <2>2, <2>3, <3>1 DEF BufferTypeOK
  <2> QED BY <1>0, <1>2, <2>7, <2>8, Zenon DEF BlockInv
<1> QED BY <1>2, <1>7, <1>8

\* A pop at work, in numbers: it has left bytes to copy, and they are there.
LEMMA InsidePop ==
  ASSUME MaxLength \in Nat,
         BlockInv, popLen > 0, NEW c \in Seq(Values), InCall(c)
  PROVE  /\ popLen \in Nat \ {0} /\ popIndex \in Nat /\ popIndex < popLen
         /\ popLen - popIndex \in 1 .. Len(c) /\ toAdd = <<>> /\ Len(c) <= MaxLength
         /\ Spells(blocks, c) /\ dataLength = Len(c) + popIndex
         /\ flat = Flat!Pop(Now(blocks, c), popLen - popIndex)
         /\ flatOut = popOut \o SubSeq(c, 1, popLen - popIndex)
         /\ blocks \in Blocks /\ popOut \in Seq(Values) /\ flatOut \in Seq(Values)
         /\ flat \in [bytes : Seq(Values), head : 0 .. Size, length : 0 .. MaxLength]
<1>1. /\ dataLength \in 0 .. MaxLength /\ popLen \in 0 .. dataLength /\ popIndex \in 0 .. popLen
      /\ popOut \in Seq(Values) /\ flatOut \in Seq(Values) /\ blocks \in Blocks
      /\ flat \in [bytes : Seq(Values), head : 0 .. Size, length : 0 .. MaxLength]
  BY DEF BlockInv, BufferTypeOK
<1>2. popLen # 0 /\ popLen \in Nat
  BY <1>1
<1>3. /\ Spells(blocks, c) /\ dataLength = Len(c) + popIndex
      /\ toAdd = <<>> /\ popIndex < popLen
      /\ flat = Flat!Pop(Now(blocks, c), popLen - popIndex)
      /\ flatOut = popOut \o SubSeq(c, 1, popLen - popIndex)
  BY <1>2 DEF InCall
<1>4. Len(c) \in Nat /\ MaxLength \in Nat
  BY LenProperties
<1>5. popLen - popIndex \in 1 .. Len(c) /\ Len(c) <= MaxLength /\ popIndex \in Nat
  BY <1>1, <1>2, <1>3, <1>4
<1> QED BY <1>1, <1>2, <1>3, <1>5

\* The turn that ends a pop: the list spells what is left, and Buffer has it.
LEMMA PopReturns ==
  ASSUME Size \in Nat \ {0}, MaxLength \in Nat,
         BlockInv, popLen > 0, NEW c \in Seq(Values), InCall(c), NEW left, left = popLen - popIndex,
         NEW d, d = SubSeq(c, left + 1, Len(c)),
         blocks' \in Blocks, Spells(blocks', d),
         Len(blocks'[1]) = HeadLeft(Len(blocks[1]), Len(c), left),
         popOut' = popOut \o SubSeq(c, 1, left),
         popIndex' = 0, popLen' = 0, dataLength' = dataLength - popLen,
         toAdd' = toAdd, flat' = flat, flatOut' = flatOut
  PROVE  BlockInv'
<1>1. /\ popLen \in Nat \ {0} /\ popIndex \in Nat /\ popIndex < popLen
      /\ left \in 1 .. Len(c) /\ toAdd = <<>> /\ Len(c) <= MaxLength
      /\ Spells(blocks, c) /\ dataLength = Len(c) + popIndex
      /\ flat = Flat!Pop(Now(blocks, c), left)
      /\ flatOut = popOut \o SubSeq(c, 1, left)
      /\ blocks \in Blocks /\ popOut \in Seq(Values) /\ flatOut \in Seq(Values)
      /\ flat \in [bytes : Seq(Values), head : 0 .. Size, length : 0 .. MaxLength]
  BY InsidePop
<1>2. left \in 0 .. Len(c) /\ Len(c) \in Nat /\ MaxLength \in Nat
  BY <1>1, LenProperties
<1>3. d \in Seq(Values) /\ Len(d) = Len(c) - left
  BY <1>2, AtDrop
<1>4. flat = Now(blocks', d)
  <2>1. flat = [bytes |-> d, head |-> HeadLeft(Len(blocks[1]), Len(c), left),
                length |-> Len(c) - left]
    BY <1>1, PopOfNow
  <2> QED BY <1>3, <2>1, Zenon DEF Now
<1>5. dataLength' = Len(d) /\ Len(d) \in 0 .. MaxLength
  BY <1>1, <1>2, <1>3
<1>6. InCall(d)'
  <2>1. Flat!Add(Now(blocks', d), <<>>) = Now(blocks', d)
    BY <1>3, AddNothing
  <2>2. flat' = Flat!Add(Now(blocks', d), toAdd') /\ popOut' = flatOut'
    BY <1>1, <1>4, <2>1, Zenon
  <2>3. dataLength' = Len(d) + popIndex'
    BY <1>5
  <2> QED BY <2>2, <2>3, Zenon DEF InCall
<1>7. BufferTypeOK'
  <2>1. popLen' \in 0 .. dataLength' /\ popIndex' \in 0 .. popLen' /\ dataLength' \in 0 .. MaxLength
    BY <1>5
  <2>2. blocks' \in Seq(Seq(Values)) /\ blocks' # <<>>
    BY DEF Blocks
  <2>3. toAdd' \in Seq(Values) /\ popOut' \in Seq(Values) /\ flatOut' \in Seq(Values)
    BY <1>1, EmptySeq, Zenon
  <2> QED BY <1>1, <2>1, <2>2, <2>3, Zenon DEF BufferTypeOK
<1> QED BY <1>3, <1>6, <1>7, Zenon DEF BlockInv

\* The last turn of pop, when a part of the head block is left.
LEMMA PopPartInv ==
  ASSUME Size \in Nat \ {0}, MaxLength \in Nat,
         BlockInv, PopPart
  PROVE  BlockInv'
<1>1. PICK c \in Seq(Values) : InCall(c)
  BY DEF BlockInv
<1>2. popLen > 0
  BY DEF PopPart
<1>3. /\ popLen \in Nat \ {0} /\ popIndex \in Nat /\ popIndex < popLen
      /\ popLen - popIndex \in 1 .. Len(c) /\ Spells(blocks, c) /\ blocks \in Blocks
  BY <1>1, <1>2, InsidePop
<1>4. PICK left \in Nat : left = popLen - popIndex
  <2>1. popLen - popIndex \in Nat
    BY <1>3
  <2> QED BY <2>1
<1>5. /\ left < Len(blocks[1])
      /\ popOut' = popOut \o SubSeq(blocks[1], 1, left)
      /\ blocks' = HeadCut(blocks, left)
      /\ popIndex' = 0 /\ popLen' = 0 /\ dataLength' = dataLength - popLen
      /\ toAdd' = toAdd /\ flat' = flat /\ flatOut' = flatOut
  <2>1. ~(popLen < popLen)
    BY <1>3
  <2> QED BY <1>4, <2>1 DEF PopPart, PopFrom
<1>6. Len(blocks[1]) \in Nat
  BY <1>3, HeadOrAll
<1>7. /\ blocks' \in Blocks /\ Spells(blocks', SubSeq(c, left + 1, Len(c)))
      /\ Len(blocks'[1]) = Len(blocks[1]) - left
  BY <1>3, <1>5, CutBlocks
<1>8. HeadLeft(Len(blocks[1]), Len(c), left) = Len(blocks[1]) - left
  BY <1>5 DEF HeadLeft
<1>9. popOut' = popOut \o SubSeq(c, 1, left)
  <2>1. left \in 0 .. Len(blocks[1])
    BY <1>5, <1>6
  <2> QED BY <1>3, <1>5, <2>1, FrontIsHead
<1> QED BY <1>1, <1>2, <1>4, <1>5, <1>7, <1>8, <1>9, PopReturns

\* Concatenation of what was copied is associative.
LEMMA ValuesRegrouped ==
  \A p, q, r \in Seq(Values) : p \o (q \o r) = (p \o q) \o r
  BY ConcatAssociative, SMTT(30)

\* A turn of pop that uses up the head block, the last one or not.
LEMMA PopBlockInv ==
  ASSUME Size \in Nat \ {0}, MaxLength \in Nat,
         BlockInv, PopBlock
  PROVE  BlockInv'
<1>1. PICK c \in Seq(Values) : InCall(c)
  BY DEF BlockInv
<1>2. popLen > 0
  BY DEF PopBlock
<1>3. /\ popLen \in Nat \ {0} /\ popIndex \in Nat /\ popIndex < popLen
      /\ popLen - popIndex \in 1 .. Len(c) /\ toAdd = <<>> /\ Len(c) <= MaxLength
      /\ Spells(blocks, c) /\ dataLength = Len(c) + popIndex
      /\ flat = Flat!Pop(Now(blocks, c), popLen - popIndex)
      /\ flatOut = popOut \o SubSeq(c, 1, popLen - popIndex)
      /\ blocks \in Blocks /\ popOut \in Seq(Values) /\ flatOut \in Seq(Values)
      /\ flat \in [bytes : Seq(Values), head : 0 .. Size, length : 0 .. MaxLength]
  BY <1>1, <1>2, InsidePop
<1>4. PICK left \in Nat \ {0} : left = popLen - popIndex /\ left <= Len(c)
  <2>1. popLen - popIndex \in Nat \ {0} /\ popLen - popIndex <= Len(c)
    BY <1>3
  <2> QED BY <2>1
<1>5. PICK k \in Nat \ {0} : k = Len(blocks[1]) /\ k <= Len(c) /\ Len(c) \in Nat
  <2>1. Len(blocks[1]) \in Nat /\ Len(blocks[1]) <= Len(c) /\ (Len(blocks[1]) = 0 => c = <<>>)
    BY <1>3, HeadOrAll
  <2>2. Len(c) \in Nat /\ c # <<>>
    BY <1>4, LenProperties, EmptySeq
  <2> QED BY <2>1, <2>2
<1>6. /\ left >= k /\ popOut' = popOut \o blocks[1] /\ blocks' = HeadFreed(blocks)
      /\ PopFrom(popIndex + k)
      /\ toAdd' = toAdd /\ flat' = flat /\ flatOut' = flatOut
  BY <1>4, <1>5 DEF PopBlock
<1>7. PICK d \in Seq(Values) : d = SubSeq(c, k + 1, Len(c)) /\ Len(d) = Len(c) - k
  <2>1. k \in 0 .. Len(c)
    BY <1>5
  <2> QED BY <2>1, AtDrop
<1>8. /\ blocks' \in Blocks /\ Spells(blocks', d)
      /\ Len(blocks'[1]) = Flat!Least(Size, Len(c) - k)
  <2>1. blocks \in Blocks /\ Spells(blocks, c) /\ k = Len(blocks[1])
    BY <1>3, <1>5, Zenon
  <2>2. /\ HeadFreed(blocks) \in Blocks /\ Spells(HeadFreed(blocks), SubSeq(c, k + 1, Len(c)))
        /\ Len(HeadFreed(blocks)[1]) = Flat!Least(Size, Len(c) - k)
    BY <2>1, FreedBlocks
  <2> QED BY <1>6, <1>7, <2>2, Zenon
<1>9. popOut' = popOut \o SubSeq(c, 1, k)
  <2>1. k \in 0 .. Len(blocks[1])
    BY <1>5
  <2>2. SubSeq(c, 1, k) = blocks[1]
    BY <1>3, <1>5, <2>1, FrontIsHead
  <2> QED BY <1>6, <2>2, Zenon
<1>10. CASE left = k
  <2>1. ~(popIndex + k < popLen)
    BY <1>3, <1>4, <1>10
  <2>2. popIndex' = 0 /\ popLen' = 0 /\ dataLength' = dataLength - popLen
    BY <1>6, <2>1 DEF PopFrom
  <2>3. HeadLeft(Len(blocks[1]), Len(c), left) = Len(blocks'[1])
    BY <1>5, <1>8, <1>10, HeadLeftBehind
  <2>4. d = SubSeq(c, left + 1, Len(c)) /\ popOut' = popOut \o SubSeq(c, 1, left)
    BY <1>7, <1>9, <1>10
  <2> QED BY <1>1, <1>2, <1>4, <1>6, <1>8, <2>2, <2>3, <2>4, PopReturns
<1>11. CASE left # k
  <2>1. popIndex + k < popLen /\ left > k
    <3>1. left >= k
      BY <1>6
    <3>2. left > k
      BY <3>1, <1>11
    <3>3. popLen \in Nat /\ popIndex \in Nat /\ left = popLen - popIndex
      BY <1>3, <1>4
    <3> QED BY <3>2, <3>3
  <2>2. popIndex' = popIndex + k /\ popLen' = popLen /\ dataLength' = dataLength
    BY <1>6, <2>1 DEF PopFrom
  <2>3. PICK more \in Nat \ {0} : left = k + more /\ k + more <= Len(c)
    <3>1. left - k \in Nat \ {0} /\ left = k + (left - k)
      BY <2>1
    <3> QED BY <3>1, <1>4
  <2>4. popLen' - popIndex' = more /\ popIndex' < popLen' /\ popLen' # 0
    BY <1>3, <1>4, <2>1, <2>2, <2>3
  <2>5. /\ SubSeq(d, more + 1, Len(d)) = SubSeq(c, left + 1, Len(c))
        /\ SubSeq(c, 1, left) = SubSeq(c, 1, k) \o SubSeq(d, 1, more)
    BY <1>7, <2>3, RestOfRest
  <2>6. flat = Flat!Pop(Now(blocks', d), more)
    <3>1. left \in 1 .. Len(c) /\ more \in 1 .. Len(d) /\ Len(d) - more = Len(c) - left
      <4>1. Len(c) \in Nat /\ Len(d) = Len(c) - k
        BY <1>5, <1>7
      <4> QED BY <4>1, <2>3
    <3>2. flat = [bytes |-> SubSeq(c, left + 1, Len(c)), head |-> HeadLeft(k, Len(c), left),
                  length |-> Len(c) - left]
      BY <1>3, <1>4, <1>5, <3>1, PopOfNow
    <3>3. Flat!Pop(Now(blocks', d), more) =
            [bytes |-> SubSeq(d, more + 1, Len(d)),
             head |-> HeadLeft(Len(blocks'[1]), Len(d), more), length |-> Len(d) - more]
      BY <1>8, <3>1, PopOfNow
    <3>4. HeadLeft(Len(blocks'[1]), Len(d), more) = HeadLeft(k, Len(c), left)
      <4>1. HeadLeft(Flat!Least(Size, Len(c) - k), Len(c) - k, more) = HeadLeft(k, Len(c), k + more)
        BY <1>5, <2>3, HeadLeftTwice
      <4> QED BY <4>1, <1>7, <1>8, <2>3, Zenon
    <3> QED BY <3>1, <3>2, <3>3, <3>4, <2>5, Zenon
  <2>7. flatOut = popOut' \o SubSeq(d, 1, more)
    <3>1. SubSeq(c, 1, k) \in Seq(Values) /\ SubSeq(d, 1, more) \in Seq(Values)
      <4>1. k \in 0 .. Len(c) /\ more \in 0 .. Len(d)
        BY <1>5, <1>7, <2>3
      <4> QED BY <4>1, AtFront
    <3> DEFINE p == SubSeq(c, 1, k)
               q == SubSeq(d, 1, more)
    <3>2. flatOut = popOut \o (p \o q)
      BY <1>3, <1>4, <2>5, Zenon
    <3>3. popOut' = popOut \o p /\ p \in Seq(Values) /\ q \in Seq(Values)
      BY <1>9, <3>1
    <3> HIDE DEF p, q
    <3>4. popOut \o (p \o q) = (popOut \o p) \o q
      <4>1. popOut \in Seq(Values) /\ p \in Seq(Values) /\ q \in Seq(Values)
        BY <1>3, <3>3, Zenon
      <4> QED BY <4>1, ValuesRegrouped, ZenonT(60)
    <3>5. flatOut = popOut' \o q
      BY <3>2, <3>3, <3>4, Zenon
    <3> QED BY <3>5 DEF q
  <2>8. dataLength' = Len(d) + popIndex'
    <3>1. dataLength' = Len(c) + popIndex /\ Len(d) = Len(c) - k /\ popIndex' = popIndex + k
      BY <1>3, <1>7, <2>2, Zenon
    <3>2. Len(c) \in Nat /\ popIndex \in Nat
      BY <1>3, <1>5
    <3>3. Len(c) + popIndex = (Len(c) - k) + (popIndex + k)
      BY <3>2
    <3> QED BY <3>1, <3>3, Zenon
  <2>9. InCall(d)'
    BY <1>3, <1>6, <1>8, <2>4, <2>6, <2>7, <2>8, Zenon DEF InCall
  <2>10. BufferTypeOK'
    <3>1. /\ dataLength \in 0 .. MaxLength /\ popLen \in 0 .. dataLength
      BY DEF BlockInv, BufferTypeOK
    <3>2. popLen' \in 0 .. dataLength' /\ popIndex' \in 0 .. popLen' /\ dataLength' \in 0 .. MaxLength
      BY <1>3, <2>1, <2>2, <3>1
    <3>3. blocks' \in Seq(Seq(Values)) /\ blocks' # <<>>
      BY <1>8 DEF Blocks
    <3>4. toAdd' \in Seq(Values) /\ flatOut' \in Seq(Values)
      BY <1>3, <1>6, EmptySeq, Zenon
    <3>5. popOut' \in Seq(Values)
      <4>1. SubSeq(c, 1, k) \in Seq(Values)
        <5>1. k \in 0 .. Len(c)
          BY <1>5
        <5> QED BY <5>1, AtFront
      <4> QED BY <1>3, <1>9, <4>1, ConcatProperties
    <3> QED BY <1>3, <1>6, <3>2, <3>3, <3>4, <3>5, Zenon DEF BufferTypeOK
  <2> QED BY <1>8, <2>9, <2>10, Zenon DEF BlockInv
<1> QED BY <1>10, <1>11

\* clear leaves what a new list has.
LEMMA ClearInv ==
  ASSUME Size \in Nat \ {0}, MaxLength \in Nat,
         BlockInv, ClearBuffer
  PROVE  BlockInv'
<1>1. PICK c \in Seq(Values) : popIndex = 0 /\ popOut = flatOut
  BY BetweenCalls DEF ClearBuffer
<1>2. /\ blocks' = << <<>> >> /\ dataLength' = 0 /\ flat' = Flat!Empty
      /\ toAdd = <<>> /\ popLen = 0 /\ toAdd' = toAdd /\ popLen' = popLen
      /\ popIndex' = popIndex /\ popOut' = popOut /\ flatOut' = flatOut
  BY DEF ClearBuffer, Returned
<1>3. <<>> \in Seq(Values) /\ Len(<<>>) = 0
  BY EmptySeq
<1>4. blocks' \in Blocks /\ Spells(blocks', <<>>) /\ Len(blocks'[1]) = 0
  BY <1>2, EmptyBlocks
<1>5. flat' = Now(blocks', <<>>)
  BY <1>2, <1>3, <1>4 DEF Now, Flat!Empty
<1>6. InCall(<<>>)'
  <2>1. Flat!Add(Now(blocks', <<>>), <<>>) = Now(blocks', <<>>)
    BY <1>3, <1>4, AddNothing
  <2> QED BY <1>1, <1>2, <1>3, <1>4, <1>5, <2>1 DEF InCall
<1>7. BufferTypeOK'
  <2>1. blocks' \in Seq(Seq(Values)) /\ blocks' # <<>>
    BY <1>4 DEF Blocks
  <2>2. flat' \in [bytes : Seq(Values), head : 0 .. Size, length : 0 .. MaxLength]
    BY <1>2, <1>3 DEF Flat!Empty
  <2>3. popOut \in Seq(Values) /\ flatOut \in Seq(Values)
    BY DEF BlockInv, BufferTypeOK
  <2> QED BY <1>1, <1>2, <1>3, <2>1, <2>2, <2>3 DEF BufferTypeOK
<1> QED BY <1>3, <1>4, <1>6, <1>7 DEF BlockInv

\* Every step keeps the list in shape and what it says right.
LEMMA BlockStep ==
  ASSUME Size \in Nat \ {0}, MaxLength \in Nat
  PROVE  BlockInv /\ [BufferNext]_bufferVars => BlockInv'
<1> SUFFICES ASSUME BlockInv, [BufferNext]_bufferVars PROVE BlockInv'
  OBVIOUS
<1>1. ASSUME NEW n \in 0 .. MaxAdd, NEW bytes \in [1 .. n -> Values], CallAdd(bytes)
      PROVE  BlockInv'
  <2>1. n \in Nat
    OBVIOUS
  <2>2. bytes \in Seq(Values)
    BY <2>1, SeqDef
  <2> QED BY <1>1, <2>2, CallAddInv
<1>2. ASSUME NEW n \in 0 .. MaxLength + 1, CallPop(n) PROVE BlockInv'
  <2>1. n \in Nat
    OBVIOUS
  <2> QED BY <1>2, <2>1, CallPopInv
<1>3. CASE AddTurn
  BY <1>3, AddTurnInv
<1>4. CASE PopBlock
  BY <1>4, PopBlockInv
<1>5. CASE PopPart
  BY <1>5, PopPartInv
<1>6. CASE ClearBuffer
  BY <1>6, ClearInv
<1>7. CASE UNCHANGED bufferVars
  <2>1. PICK c \in Seq(Values) : InCall(c)
    BY DEF BlockInv
  <2>2. InCall(c)'
    BY <1>7, <2>1 DEF bufferVars, InCall
  <2> QED BY <1>7, <2>2 DEF bufferVars, BlockInv, BufferTypeOK
<1> QED BY <1>1, <1>2, <1>3, <1>4, <1>5, <1>6, <1>7 DEF BufferNext

\* Whatever is added and popped, in calls of any length and blocks of any size,
\* the list is in shape and says the same as the operators of module Buffer.
\* That a block has room for a byte is what Buffer's constructor asserts.
THEOREM BlockInvariant ==
  ASSUME Size \in Nat \ {0}, MaxLength \in Nat
  PROVE  BufferSafeSpec => []BlockInv
<1>1. BufferInit => BlockInv
  BY BlockInit
<1>2. BlockInv /\ [BufferNext]_bufferVars => BlockInv'
  BY BlockStep
<1> QED BY <1>1, <1>2, PTL DEF BufferSafeSpec

\* Type correctness of the block list: pop never takes more than there is, so
\* that m_curDataLength does not wrap.
THEOREM BlockTypeCorrect ==
  ASSUME Size \in Nat \ {0}, MaxLength \in Nat
  PROVE  BufferSafeSpec => []BufferTypeOK
<1>1. BlockInv => BufferTypeOK
  BY DEF BlockInv
<1> QED BY <1>1, BlockInvariant, PTL

\* When a call has returned, the list spells the bytes added and not popped, and
\* pop has copied those at the front: module Buffer, which NetMsgMgr is written
\* with, stands for the code of Buffer.h.
THEOREM ListCorrect ==
  ASSUME Size \in Nat \ {0}, MaxLength \in Nat
  PROVE  BufferSafeSpec => []ListIsBuffer
<1>1. BlockInv => ListIsBuffer
  <2> SUFFICES ASSUME BlockInv, Returned
               PROVE  /\ Spells(blocks, flat.bytes)
                      /\ Len(blocks[1]) = flat.head /\ dataLength = flat.length
                      /\ popOut = flatOut
    BY DEF ListIsBuffer
  <2>1. PICK c \in Seq(Values) :
          /\ Spells(blocks, c) /\ flat = Now(blocks, c) /\ dataLength = Len(c)
          /\ popIndex = 0 /\ popOut = flatOut
    BY BetweenCalls
  <2>2. flat.bytes = c /\ flat.head = Len(blocks[1]) /\ flat.length = Len(c)
    BY <2>1 DEF Now
  <2> QED BY <2>1, <2>2
<1> QED BY <1>1, BlockInvariant, PTL

=============================================================================
