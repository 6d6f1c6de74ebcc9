----------------------------- MODULE BatchWire -----------------------------
(***************************************************************************)
(* StaxCollection.executeBatch (src/stax_js/index.js) and its wrappers     *)
(* insertSync / removeSync: a batch of insert and remove operations is     *)
(* serialised into one Buffer, little-endian throughout:                   *)
(*   u32 count, then per operation u8 tag (1 insert, 2 remove),            *)
(*   u32 key length, key bytes, and for an insert u32 value length and     *)
(*   value bytes;                                                          *)
(* and the Buffer is handed to the native executeBatch().                  *)
(*                                                                         *)
(* Strings are sequences of Unicode code points; their bytes are their     *)
(* UTF-8 encoding.  The Buffer comes from Buffer.allocUnsafe, whose bytes  *)
(* are whatever the memory held: the model value Garbage until written.    *)
(***************************************************************************)
EXTENDS Integers, Sequences, SequencesExt

CONSTANTS
    Keys,        \* key strings (sequences of code points)
    Values,      \* value strings
    Batches,     \* the operation arrays callers pass to executeBatch()
    Garbage,     \* an uninitialised byte of Buffer.allocUnsafe
    MaxBatches   \* bound on executeBatch() calls

VARIABLES
    sent   \* native executeBatch() calls: [ops, buf], in order

vars == <<sent>>

Byte == 0..255
OpTypes == {"insert", "remove", "other"}
Op == [type : OpTypes, key : Seq(Nat), value : Seq(Nat)]

---------------------------------------------------------------------------
(* Conversions                                                             *)

\* UTF-8 encoding of one code point of the Basic Multilingual Plane.
Utf8Char(cp) ==
    CASE cp < 128  -> <<cp>>
      [] cp < 2048 -> <<192 + cp \div 64, 128 + (cp % 64)>>
      [] OTHER     -> <<224 + cp \div 4096, 128 + ((cp \div 64) % 64),
                        128 + (cp % 64)>>

Utf8(str) == FlattenSeq([k \in DOMAIN str |-> Utf8Char(str[k])])

\* Buffer.byteLength(str, 'utf8').
ByteLength(str) == Len(Utf8(str))

\* The four bytes writeUInt32LE(n) stores, least significant first.
U32LE(n) == <<n % 256, (n \div 256) % 256, (n \div 65536) % 256,
              (n \div 16777216) % 256>>

\* buf with bytes written from offset (0-based) on.
WriteBytes(buf, offset, bytes) ==
    [i \in DOMAIN buf |-> IF i - offset \in DOMAIN bytes
                          THEN bytes[i - offset] ELSE buf[i]]

\* buffer.write(str, offset, 'utf8'): the whole characters of str that fit
\* before the end of buf, and how many bytes that is.
StrFit(buf, offset, str) ==
    LET fits(k) == ByteLength(SubSeq(str, 1, k)) <= Len(buf) - offset
        n == CHOOSE k \in 0..Len(str) : fits(k) /\ (k = Len(str) \/ ~fits(k + 1))
    IN  Utf8(SubSeq(str, 1, n))

---------------------------------------------------------------------------
(* The encoder                                                             *)

\* The size computed by the first loop: 4, then 1 + 4 + key bytes per
\* operation, and 4 + value bytes more for an insert.
OpSizeRemoveWithValue(op) ==
    1 + 4 + ByteLength(op.key) + 4 + ByteLength(op.value)

OpSize(op) ==
    1 + 4 + ByteLength(op.key)
      + (IF op.type = "insert" THEN 4 + ByteLength(op.value) ELSE 0)

TotalSize(ops) == 4 + FoldLeft(LAMBDA acc, op : acc + OpSize(op), 0, ops)

WriteFieldCharCount(buf, offset, str) ==
    LET bytes == StrFit(buf, offset + 4, str)
    IN  <<WriteBytes(WriteBytes(buf, offset + 4, bytes), offset, U32LE(Len(str))),
          offset + 4 + Len(bytes)>>

\* One string field: the string's bytes at offset + 4, then the number of
\* bytes written as a u32 at offset.  Returns <<buffer, next offset>>.
WriteField(buf, offset, str) ==
    LET bytes == StrFit(buf, offset + 4, str)
    IN  <<WriteBytes(WriteBytes(buf, offset + 4, bytes), offset, U32LE(Len(bytes))),
          offset + 4 + Len(bytes)>>

\* One pass of the second loop: tag and fields for an insert or a remove;
\* an operation of any other type is skipped and nothing is written.
WriteOp(st, op) ==
    LET buf == st[1]  off == st[2] IN
    CASE op.type = "insert" ->
           LET k == WriteField(WriteBytes(buf, off, <<1>>), off + 1, op.key)
           IN  WriteField(k[1], k[2], op.value)
      [] op.type = "remove" ->
           WriteField(WriteBytes(buf, off, <<2>>), off + 1, op.key)
      [] OTHER -> st

\* Buffer.allocUnsafe(totalSize), the count header, then every operation.
Encode(ops) ==
    LET buf0 == [i \in 1..TotalSize(ops) |-> Garbage]
        hdr  == WriteBytes(buf0, 0, U32LE(Len(ops)))
    IN  FoldLeft(WriteOp, <<hdr, 4>>, ops)[1]

---------------------------------------------------------------------------
(* The engine's reading of a buffer (spec_modelled: spec section 4.5).     *)

ReadU32(buf, off) ==
    buf[off + 1] + 256 * buf[off + 2] + 65536 * buf[off + 3]
      + 16777216 * buf[off + 4]

RECURSIVE DecodeOps(_, _, _)
\* The n operations from offset off, or "malformed" if the bytes do not
\* parse (an unknown tag, a length past the end, an uninitialised byte).
DecodeOps(buf, off, n) ==
    LET isByte(i) == i \in DOMAIN buf /\ buf[i] \in Byte
        bytesOk(a, b) == \A i \in a..b : isByte(i)
        tag == buf[off + 1]
        klen == ReadU32(buf, off + 1)
        key == SubSeq(buf, off + 6, off + 5 + klen)
        voff == off + 5 + klen
    IN
    IF n = 0 THEN <<>>
    ELSE IF ~bytesOk(off + 1, off + 5) \/ tag \notin {1, 2} THEN "malformed"
    ELSE IF ~bytesOk(off + 6, off + 5 + klen) THEN "malformed"
    ELSE IF tag = 2
         THEN LET rest == DecodeOps(buf, voff, n - 1)
              IN  IF rest = "malformed" THEN rest
                  ELSE <<[type |-> "remove", key |-> key, value |-> <<>>]>> \o rest
    ELSE IF ~bytesOk(voff + 1, voff + 4) THEN "malformed"
    ELSE LET vlen == ReadU32(buf, voff)
             value == SubSeq(buf, voff + 5, voff + 4 + vlen)
         IN  IF ~bytesOk(voff + 5, voff + 4 + vlen) THEN "malformed"
             ELSE LET rest == DecodeOps(buf, voff + 4 + vlen, n - 1)
                  IN  IF rest = "malformed" THEN rest
                      ELSE <<[type |-> "insert", key |-> key, value |-> value]>> \o rest

DecodeBatch(buf) ==
    IF Len(buf) < 4 \/ \E i \in 1..4 : buf[i] \notin Byte THEN "malformed"
    ELSE LET ops == DecodeOps(buf, 4, ReadU32(buf, 0))
         IN  ops

\* What the caller meant: the operations with their strings as UTF-8 bytes.
Intended(ops) ==
    [k \in DOMAIN ops |->
        [type |-> ops[k].type, key |-> Utf8(ops[k].key),
         value |-> IF ops[k].type = "insert" THEN Utf8(ops[k].value) ELSE <<>>]]

---------------------------------------------------------------------------
(* Operations                                                              *)

\* executeBatch(operations) with an array: an empty one returns at once;
\* otherwise the buffer is built and passed to the native executeBatch().
\* (A non-array throws before anything happens.)
ExecuteBatch(ops) ==
    /\ Len(sent) < MaxBatches
    /\ \/ /\ ops = <<>>
          /\ UNCHANGED sent
       \/ /\ ops # <<>>
          /\ sent' = Append(sent, [ops |-> ops, buf |-> Encode(ops)])

\* insertSync(key, value) and removeSync(key): one-operation batches.
InsertSync(key, value) == ExecuteBatch(<<[type |-> "insert", key |-> key, value |-> value]>>)

RemoveSync(key) == ExecuteBatch(<<[type |-> "remove", key |-> key, value |-> <<>>]>>)

Init == sent = <<>>

Next ==
    \/ \E ops \in Batches : ExecuteBatch(ops)
    \/ \E k \in Keys, v \in Values : InsertSync(k, v)
    \/ \E k \in Keys : RemoveSync(k)

Spec == Init /\ [][Next]_vars

---------------------------------------------------------------------------
(* Properties                                                              *)

\* Every buffer handed to the engine consists of defined bytes: no byte of
\* the Buffer.allocUnsafe memory is left unwritten and sent.
TypeOK == sent \in Seq([ops : Seq(Op), buf : Seq(Byte)])

\* Spec sections 4.5 and 8: the engine, reading a sent buffer by the wire
\* layout, gets back exactly the caller's operations, in order, with keys
\* and values as their UTF-8 bytes, whatever mix of one-, two- and
\* three-byte characters and empty strings they hold.
RoundTrip ==
    \A k \in DOMAIN sent : DecodeBatch(sent[k].buf) = Intended(sent[k].ops)

\* Spec section 7: an operation that is neither an insert nor a remove is a
\* usage error, raised at the call and never sent to the engine.
UsageErrorsNotSent ==
    \A k \in DOMAIN sent : \A j \in DOMAIN sent[k].ops :
        sent[k].ops[j].type \in {"insert", "remove"}
===========================================================================
