----------------------------- MODULE BlockList -----------------------------
(***************************************************************************)
(* Buffer as the code has it: a list of blocks, of which pop frees those   *)
(* that are used up and add makes new ones.  Every turn of the two loops   *)
(* is a step.  What the buffer should hold is computed by the operators of *)
(* module Buffer, which NetMsgMgr is written with; that the list spells it *)
(* whenever a call has returned is why they may stand for the code.        *)
(*                                                                         *)
(* Names carry the prefix Buffer where other specifications have Init,     *)
(* Next, Spec and TypeOK: the module of the proofs extends several.        *)
(***************************************************************************)
EXTENDS Naturals, Sequences

CONSTANTS
  Size,       \* m_blockSize, at least 1
  Values,     \* what a byte may be
  MaxAdd,     \* bound: bytes added in one call
  MaxLength   \* bound: bytes in the buffer

VARIABLES
  blocks,     \* the blocks from m_headBlock to m_tailBlock, the bytes of each
  dataLength, \* m_curDataLength
  toAdd,      \* what add has still to copy; <<>>: it has returned
  popLen,     \* the argument len of pop; 0: it has returned
  popIndex,   \* its curIndex
  popOut,     \* pOutData: what the last pop has copied
  flat,       \* what the buffer should be, by module Buffer (history)
  flatOut     \* what the last pop should copy (history)

bufferVars == <<blocks, dataLength, toAdd, popLen, popIndex, popOut, flat, flatOut>>

Flat == INSTANCE Buffer WITH BlockSize <- Size

Returned == toAdd = <<>> /\ popLen = 0

BufferInit ==
  /\ blocks = << <<>> >> /\ dataLength = 0
  /\ toAdd = <<>> /\ popLen = 0 /\ popIndex = 0 /\ popOut = <<>>
  /\ flat = Flat!Empty /\ flatOut = <<>>

-----------------------------------------------------------------------------
\* add

CallAdd(bytes) ==
  /\ Returned /\ dataLength + Len(bytes) <= MaxLength
  /\ toAdd' = bytes
  /\ flat' = Flat!Add(flat, bytes)
  /\ UNCHANGED <<blocks, dataLength, popLen, popIndex, popOut, flatOut>>

\* The list with a tail that is not full.
WithRoom(list) == IF Len(list[Len(list)]) >= Size THEN Append(list, <<>>) ELSE list

\* The list with more bytes in its tail block.
CopiedTo(list, bytes) == [list EXCEPT ![Len(list)] = @ \o bytes]

\* copylen
CopyLen ==
  LET list == WithRoom(blocks) IN Flat!Least(Size - Len(list[Len(list)]), Len(toAdd))

\* A turn of add's loop.
AddTurn ==
  /\ toAdd # <<>>
  /\ blocks' = CopiedTo(WithRoom(blocks), SubSeq(toAdd, 1, CopyLen))
  /\ dataLength' = dataLength + CopyLen
  /\ toAdd' = SubSeq(toAdd, CopyLen + 1, Len(toAdd))
  /\ UNCHANGED <<popLen, popIndex, popOut, flat, flatOut>>

-----------------------------------------------------------------------------
\* pop

\* A call for nothing or for more than there is returns at once.
CallPop(n) ==
  /\ Returned
  /\ popLen' = IF n <= dataLength THEN n ELSE 0
  /\ popOut' = <<>>
  /\ flat' = Flat!Pop(flat, n)
  /\ flatOut' = IF n <= flat.length THEN SubSeq(flat.bytes, 1, n) ELSE <<>>
  /\ UNCHANGED <<blocks, dataLength, toAdd, popIndex>>

\* The loop goes on behind the first index bytes, or ends.
PopFrom(index) ==
  IF index < popLen
    THEN popIndex' = index /\ UNCHANGED <<popLen, dataLength>>
    ELSE popIndex' = 0 /\ popLen' = 0 /\ dataLength' = dataLength - popLen

\* The list without its head block; a single block is emptied.
HeadFreed(list) == IF Len(list) = 1 THEN << <<>> >> ELSE Tail(list)

\* The list without the first n bytes of its head block.
HeadCut(list, n) == [list EXCEPT ![1] = SubSeq(@, n + 1, Len(@))]

\* A turn of pop's loop that uses up the head block.
PopBlock ==
  /\ popLen > 0 /\ popLen - popIndex >= Len(blocks[1])
  /\ popOut' = popOut \o blocks[1]
  /\ blocks' = HeadFreed(blocks)
  /\ PopFrom(popIndex + Len(blocks[1]))
  /\ UNCHANGED <<toAdd, flat, flatOut>>

\* The last turn when it takes a part of the head block.
PopPart ==
  LET diff == popLen - popIndex
  IN  /\ popLen > 0 /\ diff < Len(blocks[1])
      /\ popOut' = popOut \o SubSeq(blocks[1], 1, diff)
      /\ blocks' = HeadCut(blocks, diff)
      /\ PopFrom(popLen)
      /\ UNCHANGED <<toAdd, flat, flatOut>>

-----------------------------------------------------------------------------
\* clear
ClearBuffer ==
  /\ Returned
  /\ blocks' = << <<>> >> /\ dataLength' = 0
  /\ flat' = Flat!Empty
  /\ UNCHANGED <<toAdd, popLen, popIndex, popOut, flatOut>>

BufferNext ==
  \/ \E n \in 0 .. MaxAdd : \E bytes \in [1 .. n -> Values] : CallAdd(bytes)
  \/ \E n \in 0 .. MaxLength + 1 : CallPop(n)
  \/ AddTurn \/ PopBlock \/ PopPart \/ ClearBuffer

BufferSafeSpec == BufferInit /\ [][BufferNext]_bufferVars

\* A call that has begun goes on.
BufferSpec == BufferSafeSpec /\ WF_bufferVars(AddTurn \/ PopBlock \/ PopPart)

-----------------------------------------------------------------------------
BufferTypeOK ==
  /\ blocks \in Seq(Seq(Values)) /\ blocks # <<>>
  /\ dataLength \in 0 .. MaxLength
  /\ toAdd \in Seq(Values) /\ popOut \in Seq(Values) /\ flatOut \in Seq(Values)
  /\ popLen \in 0 .. dataLength /\ popIndex \in 0 .. popLen
  /\ flat \in [bytes : Seq(Values), head : 0 .. Size, length : 0 .. MaxLength]

\* How many bytes the blocks of a list before the j-th hold.
Before(list, j) == IF j = 1 THEN 0 ELSE Len(list[1]) + (j - 2) * Size

\* What get copies, block after block.  All blocks but the first and the last
\* are full.
Spells(list, bytes) ==
  /\ Len(bytes) = Before(list, Len(list)) + Len(list[Len(list)])
  /\ \A j \in 2 .. Len(list) - 1 : Len(list[j]) = Size
  /\ \A j \in DOMAIN list : \A i \in DOMAIN list[j] : bytes[Before(list, j) + i] = list[j][i]

\* Whatever was called before: when a call has returned, the blocks spell the
\* bytes that were added and not popped, the head block holds as many as Buffer
\* says, the count is right, and pop has copied the bytes at the front.
ListIsBuffer ==
  Returned => /\ Spells(blocks, flat.bytes)
              /\ Len(blocks[1]) = flat.head /\ dataLength = flat.length
              /\ popOut = flatOut

\* Every call returns: no turn of pop's loop meets an empty head block.
CallsReturn == ~Returned ~> Returned
=============================================================================
