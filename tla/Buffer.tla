------------------------------- MODULE Buffer -------------------------------
(***************************************************************************)
(* Buffer: the bytes received and not yet used, in a list of blocks of     *)
(* BlockSize.  The list is never empty.  Bytes are added to the last block *)
(* and to new ones once it is full, and popped from the head block, whose  *)
(* rest moves to its front.  So every block but the head and the last is   *)
(* full, and how the bytes are spread over the blocks is known from how    *)
(* many of them the head block holds.                                      *)
(***************************************************************************)
EXTENDS Naturals, Sequences

CONSTANT BlockSize  \* m_blockSize

\* bytes: those of all blocks; head: m_headBlock->dataLen;
\* length: m_curDataLength
Empty == [bytes |-> <<>>, head |-> 0, length |-> 0]

\* get: the bytes of all blocks
Bytes(b) == b.bytes

\* getHeadBlockData: only the bytes of the first block
HeadBlockData(b) == SubSeq(b.bytes, 1, b.head)

Least(m, n) == IF m <= n THEN m ELSE n

\* add: the head block takes some of it only when it is the last one too.
Add(b, bytes) ==
  [bytes  |-> b.bytes \o bytes,
   head   |-> IF b.head = Len(b.bytes) THEN Least(BlockSize, b.head + Len(bytes)) ELSE b.head,
   length |-> b.length + Len(bytes)]

\* What the head block holds when pop has used up n bytes: the rest of the block
\* that pop stops in, or the block behind it.
HeadAfter(b, n) ==
  IF n < b.head THEN b.head - n
  ELSE Least(BlockSize - ((n - b.head) % BlockSize), Len(b.bytes) - n)

\* Mutant: the length is that of before.
PopKeepsLength(b, n) ==
  IF n = 0 \/ n > b.length THEN b
  ELSE [b EXCEPT !.bytes = SubSeq(@, n + 1, Len(@)), !.head = HeadAfter(b, n)]

\* pop
Pop(b, n) ==
  IF n = 0 \/ n > b.length THEN b
  ELSE [bytes  |-> SubSeq(b.bytes, n + 1, Len(b.bytes)),
        head   |-> HeadAfter(b, n),
        length |-> b.length - n]

\* What holds of every buffer: the count is that of the bytes, the head block is
\* not too long, and it is empty only when there are no bytes.
BufferOK(b) ==
  /\ b.length = Len(b.bytes)
  /\ b.head \in 0 .. BlockSize /\ b.head <= b.length
  /\ b.head = 0 => b.bytes = <<>>
=============================================================================
