----------------------------- MODULE RecordCodec -----------------------------
(***************************************************************************)
(* The records of the write-ahead log as bytes (class Record,              *)
(* src/wal/record.cpp): the checks that make a record, encode, and decode, *)
(* which has to tell a complete file from one that a failed or interrupted *)
(* append has cut, since records carry a length but no checksum.           *)
(*                                                                         *)
(* Widths are parameters.  The code has Base = 256, LenW = 2 and IdW = 8;  *)
(* a small Base brings the limits of the length fields within reach.       *)
(***************************************************************************)
EXTENDS Integers, SequencesExt

CONSTANTS
    Base,       \* values of a byte
    LenW,       \* bytes of a length field (uint16_t)
    IdW,        \* bytes of a transaction id (uint64_t)
    Ids,        \* transaction ids written
    Texts,      \* keys and values written, any bytes
    MaxRecs,    \* bound: records in the file
    Marks       \* bound: values a damaged byte may take

\* The number of values that w bytes have.
Pow(w) ==
    LET power[i \in 0..w] == IF i = 0 THEN 1 ELSE Base * power[i - 1]
    IN  power[w]

MaxLength == Pow(LenW) - 1
HeaderSize == LenW + IdW + 1

\* Five operations have codes of one byte, and a header fits into a record.
ASSUME WidthsAssumption ==
    /\ Base \in Nat /\ Base > 5 /\ LenW \in Nat \ {0} /\ IdW \in Nat
    /\ HeaderSize <= MaxLength
ASSUME IdsAssumption == Ids \subseteq 0..(Pow(IdW) - 1)
ASSUME InputsAssumption ==
    Texts \subseteq Seq(0..(Base - 1)) /\ MaxRecs \in Nat /\ Marks \subseteq 0..(Base - 1)

VARIABLES
    data,       \* the bytes of the file
    recs,       \* history: the records encoded into it
    fault       \* what happened to the file

kvars == <<data, recs, fault>>

KInit == data = <<>> /\ recs = <<>> /\ fault = "none"

-----------------------------------------------------------------------------
(* Making a record: the five factories and their limits.                    *)

Rec(op, id, key, value, len) ==
    [op |-> op, id |-> id, key |-> key, value |-> value, len |-> len % Pow(LenW)]

StateRecord(op, id) == Rec(op, id, <<>>, <<>>, HeaderSize)
PutRecord(id, key, value) ==
    Rec("PUT", id, key, value, HeaderSize + 2 * LenW + Len(key) + Len(value))
DeleteRecord(id, key) ==
    Rec("DELETE", id, key, <<>>, HeaderSize + LenW + Len(key))

\* Faulty variant: only key and value are limited, not the whole record.
FitsByPart(fixed, key, value) == Len(key) <= MaxLength /\ Len(value) <= MaxLength

\* Otherwise putRecord and deleteRecord throw.
Fits(fixed, key, value) ==
    /\ Len(key) <= MaxLength /\ Len(value) <= MaxLength
    /\ fixed + Len(key) + Len(value) <= MaxLength

-----------------------------------------------------------------------------
(* encode: little-endian integers, strings after their length.              *)

Codes == <<"CREATE", "COMMIT", "ROLLBACK", "PUT", "DELETE">>
Code(op) == (CHOOSE i \in DOMAIN Codes : Codes[i] = op) - 1

\* append_uint: the last byte of what is left, which is then shifted out.
Uint(n, w) ==
    LET left[i \in 0..w] == IF i = 0 THEN n ELSE left[i - 1] \div Base
    IN  [i \in 1..w |-> left[i - 1] % Base]

\* append_string
Str(text) == Uint(Len(text), LenW) \o text

Encode(r) ==
    Uint(r.len, LenW) \o Uint(r.id, IdW) \o <<Code(r.op)>>
      \o (IF r.op \in {"PUT", "DELETE"} THEN Str(r.key) ELSE <<>>)
      \o (IF r.op = "PUT" THEN Str(r.value) ELSE <<>>)

EncodeAll(rs) == FlattenSeq([i \in DOMAIN rs |-> Encode(rs[i])])

-----------------------------------------------------------------------------
(* decode.  Positions count from 1; `end` is the first one not to be read.  *)

Throws == [ok |-> FALSE]

\* read_uint
ReadUint(d, pos, w, end) ==
    LET value[i \in 0..w] ==
          IF i = 0 THEN 0 ELSE value[i - 1] + d[pos + i - 1] * Pow(i - 1)
    IN  IF w > end - pos THEN Throws
        ELSE [ok |-> TRUE, val |-> value[w], pos |-> pos + w]

\* read_string
ReadStr(d, pos, end) ==
    LET n == ReadUint(d, pos, LenW, end)
    IN  IF ~n.ok THEN Throws
        ELSE IF n.val > end - n.pos THEN Throws
        ELSE [ok |-> TRUE, val |-> SubSeq(d, n.pos, n.pos + n.val - 1),
              pos |-> n.pos + n.val]

\* Key and value of a record of type op: what is read and where it ends.
ReadBody(d, op, pos, end) ==
    LET key == ReadStr(d, pos, end)
        value == ReadStr(d, key.pos, end)
    IN  IF op \in {"CREATE", "COMMIT", "ROLLBACK"}
        THEN [ok |-> TRUE, key |-> <<>>, value |-> <<>>, pos |-> pos]
        ELSE IF ~key.ok THEN Throws
        ELSE IF op = "DELETE"
        THEN [ok |-> TRUE, key |-> key.val, value |-> <<>>, pos |-> key.pos]
        ELSE IF ~value.ok THEN Throws
        ELSE [ok |-> TRUE, key |-> key.val, value |-> value.val, pos |-> value.pos]

\* Faulty variants: bytes may be left over in a record; too few bytes for a
\* header are taken for the end of the file.
EndsAnywhere(pos, end) == pos <= end
AtEndShort(d, pos) == Len(d) + 1 - pos < HeaderSize

EndsAt(pos, end) == pos = end
AtEnd(d, pos) == pos = Len(d) + 1

\* One turn of the loop: the record at pos.
ReadRecord(d, pos) ==
    LET len == ReadUint(d, pos, LenW, Len(d) + 1)
        end == pos + len.val
        id == ReadUint(d, len.pos, IdW, end)
        op == ReadUint(d, id.pos, 1, end)
        body == ReadBody(d, Codes[op.val + 1], op.pos, end)
    IN  IF ~len.ok THEN Throws
        ELSE IF len.val < HeaderSize \/ end > Len(d) + 1 THEN Throws
        ELSE IF ~id.ok THEN Throws
        ELSE IF ~op.ok THEN Throws
        ELSE IF op.val >= Len(Codes) THEN Throws
        ELSE IF ~body.ok THEN Throws
        ELSE IF ~EndsAt(body.pos, end) THEN Throws
        ELSE [ok |-> TRUE, pos |-> end,
              rec |-> Rec(Codes[op.val + 1], id.val, body.key, body.value, len.val)]

\* The loop stands still at the end of the file and after an exception.
Extended(s, next) ==
    IF ~next.ok THEN Throws
    ELSE [ok |-> TRUE, pos |-> next.pos, recs |-> Append(s.recs, next.rec)]
NextTurn(d, s) ==
    IF ~s.ok \/ AtEnd(d, s.pos) THEN s ELSE Extended(s, ReadRecord(d, s.pos))

\* Every turn reads a byte or more.
Result(last) == IF last.ok THEN [ok |-> TRUE, recs |-> last.recs] ELSE Throws
Decode(d) ==
    LET turn[n \in 0..Len(d)] ==
          IF n = 0 THEN [ok |-> TRUE, pos |-> 1, recs |-> <<>>]
          ELSE NextTurn(d, turn[n - 1])
    IN  Result(turn[Len(d)])

-----------------------------------------------------------------------------
(* A file is written record by record, then it may be cut or damaged.       *)

AppendRecord(r) ==
    /\ fault = "none" /\ Len(recs) < MaxRecs
    /\ data' = data \o Encode(r)
    /\ recs' = Append(recs, r)
    /\ UNCHANGED fault

AppendState(op, id) == AppendRecord(StateRecord(op, id))
AppendPut(id, key, value) ==
    Fits(HeaderSize + 2 * LenW, key, value) /\ AppendRecord(PutRecord(id, key, value))
AppendDelete(id, key) ==
    Fits(HeaderSize + LenW, key, <<>>) /\ AppendRecord(DeleteRecord(id, key))

(* A failed or interrupted append leaves some prefix.                       *)
Cut(n) ==
    /\ fault = "none"
    /\ data' = SubSeq(data, 1, n) /\ fault' = "cut"
    /\ UNCHANGED recs

Damage(i, b) ==
    /\ fault = "none" /\ data[i] # b
    /\ data' = [data EXCEPT ![i] = b] /\ fault' = "damaged"
    /\ UNCHANGED recs

KNext ==
    \/ \E op \in {"CREATE", "COMMIT", "ROLLBACK"}, id \in Ids : AppendState(op, id)
    \/ \E id \in Ids, key, value \in Texts : AppendPut(id, key, value)
    \/ \E id \in Ids, key \in Texts : AppendDelete(id, key)
    \/ \E n \in 0..(Len(data) - 1) : Cut(n)
    \/ \E i \in DOMAIN data, b \in Marks : Damage(i, b)

KSpec == KInit /\ [][KNext]_kvars

-----------------------------------------------------------------------------
(* Properties.                                                              *)

\* encode and decode with the limits of putRecord and deleteRecord: a file of
\* records, however long their strings and whatever bytes they hold, is read
\* back as the same records.
RoundTrip ==
    fault = "none" => Decode(data) = [ok |-> TRUE, recs |-> recs]

\* decode on a cut file, which the cleaner must not take for a complete one:
\* it returns exactly the records before the cut if the cut is between two
\* records, and throws otherwise.
CutNoticed ==
    fault = "cut" =>
      LET whole == {i \in 0..Len(recs) : EncodeAll(SubSeq(recs, 1, i)) = data}
      IN  IF whole = {} THEN ~Decode(data).ok
          ELSE \E i \in whole : Decode(data) = [ok |-> TRUE, recs |-> SubSeq(recs, 1, i)]

\* decode checks lengths against fields: bytes it accepts, damaged ones too,
\* are the encoding of what it returns, so nothing in a file is passed over.
Canonical == Decode(data).ok => EncodeAll(Decode(data).recs) = data
=============================================================================
