------------------------------ MODULE DataProto ------------------------------
(***************************************************************************)
(* The operations of verl/protocol.py that take a batch apart and put it   *)
(* together again.  A batch is the sequence of its rows; the columns of a  *)
(* row stay together (check_consistency).                                  *)
(***************************************************************************)
EXTENDS Integers, Sequences

PadSize(data, divisor) == (divisor - (Len(data) % divisor)) % divisor

\* pad_dataproto_to_divisor: rows from the start are appended, all of them
\* again as often as needed.
PadToDivisor(data, divisor) ==
    [i \in 1 .. Len(data) + PadSize(data, divisor) |->
        data[((i - 1) % Len(data)) + 1]]

UnpadFront(data, padSize) == SubSeq(data, padSize + 1, Len(data))

\* unpad_dataproto: data[:-pad_size]
Unpad(data, padSize) == SubSeq(data, 1, Len(data) - padSize)

\* DataProto.chunk without auto padding asserts that the size is divisible.
CanChunk(data, chunks) == Len(data) % chunks = 0

Chunk(data, chunks) ==
    LET size == Len(data) \div chunks
    IN  [c \in 1 .. chunks |-> SubSeq(data, (c - 1) * size + 1, c * size)]

\* DataProto.concat, of chunks of the same size
Concat(parts) ==
    LET size == Len(parts[1])
    IN  [i \in 1 .. Len(parts) * size |->
            parts[(i - 1) \div size + 1][((i - 1) % size) + 1]]
=============================================================================
