------------------------------- MODULE TxCodec -------------------------------
(***************************************************************************)
(* The wire form of a signed transaction, crates/sqnr-core/src/tx.rs:      *)
(* encode as an operator, decode as the sequence of reads its Reader makes *)
(* over a buffer that came from the network.  A byte is a number below     *)
(* Base and a u32 is Width of them, so lengths wrap at U32Range as the     *)
(* casts of the code wrap at 2^32.                                         *)
(***************************************************************************)
EXTENDS Integers, SequencesExt

CONSTANTS
  Base,        \* number of byte values (256)
  Width,       \* bytes of a length (4)
  KeyLen,      \* bytes of a key and of a nonce (32)
  SigLen,      \* bytes of a signature (64)
  NotText,     \* bytes that occur in no UTF-8 string
  MAX_OPS, MAX_DETAIL, MAX_STR, MAX_PAYLOAD,
  Signed,      \* signed transactions some client encodes
  Foreign      \* other bodies that arrive: cut, altered, from elsewhere

Byte == 0..(Base - 1)

\* [u8; n], String and Vec<u8>, and SignedTransaction with its Transaction.
Array(n) == [1..n -> Byte]
Text     == Seq(Byte \ NotText)
Operations == [summary : Text, detail : Seq(Text), payload : Seq(Byte)]
SignedTransactions ==
  [server : Array(KeyLen), nonce : Array(KeyLen), ops : Seq(Operations),
   admin : Array(KeyLen), signature : Array(SigLen)]

\* The longest operation and the longest body that pass the decode bounds.
OpSize   == 3 * Width + MAX_STR + MAX_DETAIL * (Width + MAX_STR) + MAX_PAYLOAD
BodySize == 3 * KeyLen + SigLen + Width + MAX_OPS * OpSize

\* u32::MAX + 1: how many numbers Width bytes can hold (2^32)
U32Range ==
  LET power[k \in 0..Width] == IF k = 0 THEN 1 ELSE power[k - 1] * Base
  IN  power[Width]

\* With the code's constants BodySize is below 13 MB and a length goes up to
\* 4 GiB; a real signature is never empty.
ASSUME CodecAssumption ==
  /\ {Base, Width, KeyLen, SigLen} \subseteq Nat \ {0}
  /\ {MAX_OPS, MAX_DETAIL, MAX_STR, MAX_PAYLOAD} \subseteq Nat
  /\ NotText \subseteq Byte
  /\ Signed \subseteq SignedTransactions
  /\ Foreign \subseteq Seq(Byte)
  /\ BodySize < U32Range

VARIABLES
  sent,   \* the singleton of the transaction buf encodes, {} for a foreign body
  buf,    \* Reader.buf
  pos,    \* Reader.pos
  at,     \* the read that comes next, or the outcome
  left,   \* operations still to read
  lines,  \* detail lines of this operation still to read
  op,     \* the operation being read
  tx      \* the signed transaction read so far

vars == <<sent, buf, pos, at, left, lines, op, tx>>

-----------------------------------------------------------------------------
(* Encoding *)

\* (n as u32).to_be_bytes(): the last Width digits
Be(n) ==
  LET rest[k \in 0..Width] == IF k = 0 THEN n ELSE rest[k - 1] \div Base
  IN  [i \in 1..Width |-> rest[Width - i] % Base]

PutBytes(b) == Be(Len(b)) \o b

Each(f(_), s) == FlattenSeq([i \in DOMAIN s |-> f(s[i])])

EncodeOp(o) ==
  PutBytes(o.summary) \o Be(Len(o.detail)) \o Each(PutBytes, o.detail) \o PutBytes(o.payload)

\* Transaction::encode
Encode(t) == t.server \o t.nonce \o Be(Len(t.ops)) \o Each(EncodeOp, t.ops)

\* SignedTransaction::encode
EncodeSigned(s) == Encode(s) \o s.admin \o s.signature

-----------------------------------------------------------------------------
(* The Reader *)

\* take(n) succeeds, and what it returns.  (checked_add cannot fail: pos and
\* n are bounded by the buffer and by the field bounds.)
Take(n)  == pos + n <= Len(buf)
Slice(n) == SubSeq(buf, pos + 1, pos + n)

\* Mutant of U32: only the lowest byte counts.
U32Low == buf[pos + Width]

\* u32::from_be_bytes
Number(b) ==
  LET upTo[i \in 0..Width] == IF i = 0 THEN 0 ELSE upTo[i - 1] * Base + b[i]
  IN  upTo[Width]

\* u32(), once its bytes are there
U32 == Number(Slice(Width))

\* Mutant of Bytes: a field of exactly the maximal length is refused.
BytesBelow(max) == Take(Width) /\ U32 < max /\ Take(Width + U32)

\* Mutant of Bytes: a field has no maximal length.
BytesUnbounded(max) == Take(Width) /\ Take(Width + U32)

\* bytes(max): the length, its bound, the bytes; and what it returns
Bytes(max) == Take(Width) /\ U32 <= max /\ Take(Width + U32)
Field      == SubSeq(buf, pos + Width + 1, pos + Width + U32)

\* Mutant of String: the length of a text is not bounded.
StringUnbounded(max) ==
  Take(Width) /\ Take(Width + U32) /\ \A i \in DOMAIN Field : Field[i] \notin NotText

\* string(max): bytes that are UTF-8
String(max) == Bytes(max) /\ \A i \in DOMAIN Field : Field[i] \notin NotText

\* Mutant of Count: the number of entries is not bounded.
CountUnbounded(max) == Take(Width)

\* A number of entries to follow, and its bound
Count(max) == Take(Width) /\ U32 <= max

\* The next read succeeds.
Accepts ==
  CASE at \in {"server", "nonce", "admin"} -> Take(KeyLen)
    [] at = "ops"                          -> Count(MAX_OPS)
    [] at \in {"summary", "line"}          -> String(MAX_STR)
    [] at = "details"                      -> Count(MAX_DETAIL)
    [] at = "payload"                      -> Bytes(MAX_PAYLOAD)
    [] at = "signature"                    -> Take(SigLen)
    [] at = "finish"                       -> pos = Len(buf)

-----------------------------------------------------------------------------
(* Decoding: SignedTransaction::decode and Transaction::decode_from *)

Blank == [server |-> <<>>, nonce |-> <<>>, ops |-> <<>>, admin |-> <<>>, signature |-> <<>>]
NoOp  == [summary |-> <<>>, detail |-> <<>>]

Init ==
  /\ \/ \E s \in Signed : sent = {s} /\ buf = EncodeSigned(s)
     \/ sent = {} /\ buf \in Foreign
  /\ pos = 0 /\ at = "server" /\ left = 0 /\ lines = 0
  /\ op = NoOp /\ tx = Blank

\* The Reader moves on by n bytes to the read `to`.
Go(n, to) == pos' = pos + n /\ at' = to /\ UNCHANGED <<sent, buf>>

\* array::<N>() into a field of the result
ReadArray(f, n, to) ==
  /\ at = f /\ Accepts
  /\ tx' = [tx EXCEPT ![f] = Slice(n)]
  /\ Go(n, to)
  /\ UNCHANGED <<left, lines, op>>

ReadOps ==
  /\ at = "ops" /\ Accepts
  /\ left' = U32
  /\ Go(Width, IF U32 = 0 THEN "admin" ELSE "summary")
  /\ UNCHANGED <<lines, op, tx>>

ReadSummary ==
  /\ at = "summary" /\ Accepts
  /\ op' = [summary |-> Field, detail |-> <<>>]
  /\ Go(Width + U32, "details")
  /\ UNCHANGED <<left, lines, tx>>

ReadDetails ==
  /\ at = "details" /\ Accepts
  /\ lines' = U32
  /\ Go(Width, IF U32 = 0 THEN "payload" ELSE "line")
  /\ UNCHANGED <<left, op, tx>>

ReadLine ==
  /\ at = "line" /\ Accepts
  /\ op' = [op EXCEPT !.detail = Append(@, Field)]
  /\ lines' = lines - 1
  /\ Go(Width + U32, IF lines = 1 THEN "payload" ELSE "line")
  /\ UNCHANGED <<left, tx>>

ReadPayload ==
  /\ at = "payload" /\ Accepts
  /\ tx' = [tx EXCEPT !.ops = Append(@, [summary |-> op.summary, detail |-> op.detail,
                                          payload |-> Field])]
  /\ left' = left - 1
  /\ Go(Width + U32, IF left = 1 THEN "admin" ELSE "summary")
  /\ UNCHANGED <<lines, op>>

Finish == at = "finish" /\ Accepts /\ Go(0, "ok") /\ UNCHANGED <<left, lines, op, tx>>

\* Any read that fails makes the whole body Malformed.
Refuse ==
  /\ at \notin {"ok", "malformed"} /\ ~ Accepts
  /\ Go(0, "malformed")
  /\ UNCHANGED <<left, lines, op, tx>>

Next ==
  \/ ReadArray("server", KeyLen, "nonce") \/ ReadArray("nonce", KeyLen, "ops")
  \/ ReadOps \/ ReadSummary \/ ReadDetails \/ ReadLine \/ ReadPayload
  \/ ReadArray("admin", KeyLen, "signature") \/ ReadArray("signature", SigLen, "finish")
  \/ Finish \/ Refuse

Spec == Init /\ [][Next]_vars

-----------------------------------------------------------------------------
(* Properties *)

\* The counts and lengths of a transaction are within the decode bounds.
Short(s, max) == Len(s) <= max
InBounds(s) ==
  /\ Short(s.ops, MAX_OPS)
  /\ \A i \in DOMAIN s.ops :
       LET o == s.ops[i]
       IN  /\ Short(o.summary, MAX_STR) /\ Short(o.payload, MAX_PAYLOAD)
           /\ Short(o.detail, MAX_DETAIL)
           /\ \A n \in DOMAIN o.detail : Short(o.detail[n], MAX_STR)

\* The reader stays inside its buffer and holds bounded, typed pieces: what is
\* decoded can be no larger than its bounds whatever the lengths claim.
TypeOK ==
  /\ pos \in 0..Len(buf)
  /\ at \in {"server", "nonce", "ops", "summary", "details", "line", "payload",
             "admin", "signature", "finish", "ok", "malformed"}
  /\ left \in 0..MAX_OPS /\ lines \in 0..MAX_DETAIL
  /\ Len(tx.ops) + left <= MAX_OPS
  /\ Len(op.detail) + lines <= MAX_DETAIL

\* A transaction within the bounds is decoded to itself, and the encoding of
\* any other one, a length or a count that wrapped at u32 included, is decoded
\* to itself or to nothing.
DecodedIsSent ==
  \A s \in sent : /\ at = "ok" => tx = s
                  /\ at = "malformed" => ~ InBounds(s)

\* No signature made over one transaction, one whose lengths wrapped included,
\* fits another that decode accepts: their signed bytes differ.
SignatureFitsOne ==
  at = "ok" =>
    \A s \in Signed : Encode(s) = Encode(tx) =>
      s.server = tx.server /\ s.nonce = tx.nonce /\ s.ops = tx.ops

\* "exactly one representation": the only bytes decode accepts for a
\* transaction are those that encode writes for it.
Canonical == at = "ok" => EncodeSigned(tx) = buf

\* A body that is accepted is shorter than the lengths a u32 can count, which
\* is why a wrapped encoding cannot be accepted.
AcceptedIsShort == at = "ok" => Len(buf) <= BodySize
=============================================================================
