---------------------------- MODULE TxCodecProofs ----------------------------
(***************************************************************************)
(* Proofs about TxCodec, for every base, width, bound and body.            *)
(***************************************************************************)
EXTENDS TxCodec, Iteration, SequenceTheorems

-----------------------------------------------------------------------------
(* Lengths as bytes *)

\* from_be_bytes builds the number digit by digit.
LEMMA NumberDigits ==
  ASSUME CodecAssumption, NEW b \in Array(Width)
  PROVE  \E v \in [0..Width -> Nat] :
           /\ v[0] = 0 /\ \A i \in 1..Width : v[i] = v[i - 1] * Base + b[i]
           /\ Number(b) = v[Width]
<1> DEFINE g == [i \in 1..Width |-> [x \in Nat |-> x * Base + b[i]]]
           Fcn(f) == f = [i \in 0..Width |-> IF i = 0 THEN 0 ELSE f[i - 1] * Base + b[i]]
           u == CHOOSE f : Fcn(f)
<1>1. Width \in Nat /\ Base \in Nat \ {0} /\ \A i \in 1..Width : b[i] \in Nat
  BY DEF CodecAssumption, Array, Byte
<1>2. g \in [1..Width -> [Nat -> Nat]]
  BY <1>1
<1>3. PICK v \in [0..Width -> Nat] : Iterates(v, 0, g, Width)
  <2> HIDE DEF g
  <2> QED
    BY <1>1, <1>2, IterationExists
<1>4. v[0] = 0 /\ \A i \in 1..Width : v[i] = v[i - 1] * Base + b[i]
  <2>1. v[0] = 0 /\ \A i \in 1..Width : v[i] = g[i][v[i - 1]]
    BY <1>3 DEF Iterates
  <2>2. \A i \in 1..Width : v[i - 1] \in Nat
    BY <1>1
  <2> QED
    BY <2>1, <2>2
<1>5. Fcn(v)
  BY <1>1, <1>4
<1>6. Fcn(u)
  <2> HIDE DEF Fcn
  <2> QED
    BY <1>5
<1> HIDE DEF u
<1>7. \A i \in 0..Width : u[i] = v[i]
  <2> DEFINE P == {i \in 0..Width : u[i] = v[i]}
  <2>1. \A i \in 0..Width : u[i] = IF i = 0 THEN 0 ELSE u[i - 1] * Base + b[i]
    BY <1>6
  <2>2. 0 \in P
    BY <1>1, <1>4, <2>1
  <2>3. ASSUME NEW i \in 1..Width, i - 1 \in P
        PROVE  i \in P
    <3>1. i \in 0..Width /\ i # 0 /\ u[i - 1] = v[i - 1]
      BY <1>1, <2>3
    <3> QED
      BY <1>4, <2>1, <3>1
  <2>4. \A i \in 0..Width : i \in P
    <3> HIDE DEF P
    <3> QED
      BY <1>1, <2>2, <2>3, UpTo
  <2> QED
    BY <2>4
<1>8. Number(b) = u[Width]
  BY DEF Number, u
<1>9. Number(b) = v[Width]
  BY <1>1, <1>7, <1>8
<1> HIDE DEF Fcn, g
<1> QED
  BY <1>4, <1>9

\* to_be_bytes divides the number digit by digit.
LEMMA BeDigits ==
  ASSUME CodecAssumption, NEW n \in Nat
  PROVE  \E q \in [0..Width -> Nat] :
           /\ q[0] = n /\ \A k \in 1..Width : q[k] = q[k - 1] \div Base
           /\ Be(n) = [i \in 1..Width |-> q[Width - i] % Base]
<1> DEFINE g == [k \in 1..Width |-> [x \in Nat |-> x \div Base]]
           Fcn(f) == f = [k \in 0..Width |-> IF k = 0 THEN n ELSE f[k - 1] \div Base]
           u == CHOOSE f : Fcn(f)
<1>1. Width \in Nat /\ Base \in Nat \ {0}
  BY DEF CodecAssumption
<1>2. g \in [1..Width -> [Nat -> Nat]]
  BY <1>1
<1>3. PICK q \in [0..Width -> Nat] : Iterates(q, n, g, Width)
  <2> HIDE DEF g
  <2> QED
    BY <1>1, <1>2, IterationExists
<1>4. q[0] = n /\ \A k \in 1..Width : q[k] = q[k - 1] \div Base
  <2>1. q[0] = n /\ \A k \in 1..Width : q[k] = g[k][q[k - 1]]
    BY <1>3 DEF Iterates
  <2>2. \A k \in 1..Width : q[k - 1] \in Nat
    BY <1>1
  <2> QED
    BY <2>1, <2>2
<1>5. Fcn(q)
  BY <1>1, <1>4
<1>6. Fcn(u)
  <2> HIDE DEF Fcn
  <2> QED
    BY <1>5
<1> HIDE DEF u
<1>7. \A k \in 0..Width : u[k] = q[k]
  <2> DEFINE P == {k \in 0..Width : u[k] = q[k]}
  <2>1. \A k \in 0..Width : u[k] = IF k = 0 THEN n ELSE u[k - 1] \div Base
    BY <1>6
  <2>2. 0 \in P
    BY <1>1, <1>4, <2>1
  <2>3. ASSUME NEW k \in 1..Width, k - 1 \in P
        PROVE  k \in P
    <3>1. k \in 0..Width /\ k # 0 /\ u[k - 1] = q[k - 1]
      BY <1>1, <2>3
    <3> QED
      BY <1>4, <2>1, <3>1
  <2>4. \A k \in 0..Width : k \in P
    <3> HIDE DEF P
    <3> QED
      BY <1>1, <2>2, <2>3, UpTo
  <2> QED
    BY <2>4
<1>8. Be(n) = [i \in 1..Width |-> u[Width - i] % Base]
  BY DEF Be, u
<1>9. Be(n) = [i \in 1..Width |-> q[Width - i] % Base]
  <2>1. \A i \in 1..Width : Width - i \in 0..Width
    BY <1>1
  <2> QED
    BY <1>7, <1>8, <2>1
<1> HIDE DEF Fcn, g
<1> QED
  BY <1>4, <1>9

\* A length is encoded in Width bytes.
LEMMA BeBytes ==
  ASSUME CodecAssumption, NEW n \in Nat
  PROVE  Be(n) \in Array(Width)
<1>1. PICK q \in [0..Width -> Nat] : Be(n) = [i \in 1..Width |-> q[Width - i] % Base]
  BY BeDigits
<1>2. Width \in Nat /\ Base \in Nat \ {0}
  BY DEF CodecAssumption
<1>3. \A i \in 1..Width : q[Width - i] % Base \in Byte
  BY <1>2 DEF Byte
<1> QED
  BY <1>1, <1>3 DEF Array

\* The last digit comes off by division.
LEMMA NextDigit ==
  ASSUME NEW B \in Nat \ {0}, NEW x \in Nat, NEW d \in 0..(B - 1), NEW y, y = x * B + d
  PROVE  y \div B = x /\ y % B = d
<1>1. (x * B + d) \div B = x
  OBVIOUS
<1>2. (x * B + d) % B = d
  OBVIOUS
<1> QED
  BY <1>1, <1>2

\* A number that was read has one encoding, the bytes it was read from.
LEMMA BeOfNumber ==
  ASSUME CodecAssumption, NEW b \in Array(Width)
  PROVE  Number(b) \in Nat /\ Be(Number(b)) = b
<1>1. Width \in Nat /\ Base \in Nat \ {0} /\ \A i \in 1..Width : b[i] \in 0..(Base - 1)
  BY DEF CodecAssumption, Array, Byte
<1>2. PICK v \in [0..Width -> Nat] :
        /\ v[0] = 0 /\ \A i \in 1..Width : v[i] = v[i - 1] * Base + b[i]
        /\ Number(b) = v[Width]
  BY NumberDigits
<1>3. Number(b) \in Nat
  BY <1>1, <1>2
<1>4. PICK q \in [0..Width -> Nat] :
        /\ q[0] = Number(b) /\ \A k \in 1..Width : q[k] = q[k - 1] \div Base
        /\ Be(Number(b)) = [i \in 1..Width |-> q[Width - i] % Base]
  BY <1>3, BeDigits
<1>5. ASSUME NEW i \in 1..Width
      PROVE  v[i] \div Base = v[i - 1] /\ v[i] % Base = b[i]
  <2> DEFINE x == v[i - 1]
             d == b[i]
             y == v[i]
  <2>1. y = x * Base + d
    BY <1>2
  <2>2. i - 1 \in 0..Width
    BY <1>1
  <2>3. x \in Nat /\ d \in 0..(Base - 1)
    BY <1>1, <2>2
  <2> HIDE DEF x, d, y
  <2>4. y \div Base = x /\ y % Base = d
    BY <1>1, <2>1, <2>3, NextDigit
  <2> QED
    BY <2>4 DEF x, d, y
<1>6. \A k \in 0..Width : q[k] = v[Width - k]
  <2> DEFINE P == {k \in 0..Width : q[k] = v[Width - k]}
  <2>1. 0 \in P
    BY <1>1, <1>2, <1>4
  <2>2. ASSUME NEW k \in 1..Width, k - 1 \in P
        PROVE  k \in P
    <3>1. k \in 0..Width /\ Width - (k - 1) \in 1..Width
      BY <1>1
    <3>2. q[k - 1] = v[Width - (k - 1)] /\ q[k] = q[k - 1] \div Base
      BY <1>4, <2>2
    <3>3. v[Width - (k - 1)] \div Base = v[Width - (k - 1) - 1]
      BY <1>5, <3>1
    <3>4. Width - (k - 1) - 1 = Width - k
      BY <1>1
    <3> QED
      BY <3>1, <3>2, <3>3, <3>4
  <2>3. \A k \in 0..Width : k \in P
    <3> HIDE DEF P
    <3> QED
      BY <1>1, <2>1, <2>2, UpTo
  <2> QED
    BY <2>3
<1>7. \A i \in 1..Width : q[Width - i] % Base = b[i]
  <2>1. \A i \in 1..Width : Width - i \in 0..Width /\ Width - (Width - i) = i
    BY <1>1
  <2> QED
    BY <1>5, <1>6, <2>1
<1>8. b = [i \in 1..Width |-> b[i]]
  BY DEF Array
<1> QED
  BY <1>3, <1>4, <1>7, <1>8
-----------------------------------------------------------------------------
(* Fields one after the other *)

\* A function on 1..n is a sequence.
LEMMA IsSeq ==
  ASSUME NEW S, NEW n \in Nat, NEW f \in [1..n -> S]
  PROVE  f \in Seq(S) /\ Len(f) = n
<1>1. f \in Seq(S)
  BY SeqDef
<1>2. Len(f) \in Nat /\ DOMAIN f = 1..Len(f) /\ DOMAIN f = 1..n
  BY <1>1, LenProperties
<1> QED
  BY <1>1, <1>2

\* FlattenSeq puts one sequence after the other.
LEMMA FlattenSteps ==
  ASSUME NEW S, NEW ss \in Seq(Seq(S))
  PROVE  \E w \in [0..Len(ss) -> Seq(S)] :
           /\ w[0] = <<>> /\ \A i \in 1..Len(ss) : w[i] = w[i - 1] \o ss[i]
           /\ FlattenSeq(ss) = w[Len(ss)]
<1> DEFINE n == Len(ss)
           g == [i \in 1..n |-> [x \in Seq(S) |-> x \o ss[i]]]
           Fcn(f) == f = [i \in 1..n |-> IF i = 1 THEN ss[i] ELSE f[i - 1] \o ss[i]]
           u == CHOOSE f : Fcn(f)
<1>1. n \in Nat /\ \A i \in 1..n : ss[i] \in Seq(S)
  OBVIOUS
<1>2. g \in [1..n -> [Seq(S) -> Seq(S)]]
  BY <1>1, ConcatProperties
<1>3. PICK w \in [0..n -> Seq(S)] : Iterates(w, <<>>, g, n)
  <2>1. <<>> \in Seq(S)
    OBVIOUS
  <2> HIDE DEF g, n
  <2> QED
    BY <1>1, <1>2, <2>1, IterationExists
<1> HIDE DEF n
<1>4. w[0] = <<>> /\ \A i \in 1..n : w[i] = w[i - 1] \o ss[i]
  <2>1. w[0] = <<>> /\ \A i \in 1..n : w[i] = g[i][w[i - 1]]
    BY <1>3 DEF Iterates
  <2>2. \A i \in 1..n : w[i - 1] \in Seq(S)
    BY <1>1
  <2> QED
    BY <2>1, <2>2
<1>5. CASE n = 0
  <2>1. ss = <<>>
    BY <1>5 DEF n
  <2>2. FlattenSeq(ss) = w[n]
    BY <1>4, <1>5, <2>1 DEF FlattenSeq, n
  <2> QED
    BY <1>4, <2>2 DEF n
<1>6. CASE n # 0
  <2> DEFINE v == [i \in 1..n |-> w[i]]
  <2>1. ss[1] = w[1]
    <3>1. 1 \in 1..n /\ 1 - 1 = 0
      BY <1>1, <1>6
    <3>2. w[1] = w[1 - 1] \o ss[1]
      BY <1>4, <3>1, Zenon
    <3>3. ss[1] \in Seq(S)
      BY <1>1, <3>1
    <3>4. w[1] = <<>> \o ss[1]
      BY <1>4, <3>1, <3>2, Zenon
    <3>5. <<>> \o ss[1] = ss[1]
      BY <3>3, ConcatEmptySeq
    <3> QED
      BY <3>4, <3>5
  <2>2. \A i \in 1..n : i # 1 => i - 1 \in 1..n
    BY <1>1
  <2>3. Fcn(v)
    BY <1>4, <2>1, <2>2
  <2>4. Fcn(u)
    <3> HIDE DEF Fcn
    <3> QED
      BY <2>3
  <2> HIDE DEF u
  <2>5. \A i \in 0..n : i # 0 => u[i] = w[i]
    <3> DEFINE P == {i \in 0..n : i # 0 => u[i] = w[i]}
    <3>1. \A i \in 1..n : u[i] = IF i = 1 THEN ss[i] ELSE u[i - 1] \o ss[i]
      BY <2>4
    <3>2. 0 \in P
      BY <1>1
    <3>3. ASSUME NEW i \in 1..n, i - 1 \in P
          PROVE  i \in P
      <4>1. i \in 0..n /\ (i # 1 => u[i - 1] = w[i - 1])
        BY <1>1, <3>3
      <4> QED
        BY <1>4, <2>1, <3>1, <4>1
    <3>4. \A i \in 0..n : i \in P
      <4> HIDE DEF P
      <4> QED
        BY <1>1, <3>2, <3>3, UpTo
    <3> QED
      BY <3>4
  <2>6. FlattenSeq(ss) = u[n]
    BY <1>6 DEF FlattenSeq, u, n
  <2>7. FlattenSeq(ss) = w[n]
    BY <1>1, <1>6, <2>5, <2>6
  <2> HIDE DEF Fcn, g, v
  <2> QED
    BY <1>4, <2>7 DEF n
<1> QED
  BY <1>5, <1>6

\* One sequence more makes one addition at the end.
LEMMA FlattenAppend ==
  ASSUME NEW S, NEW ss \in Seq(Seq(S)), NEW t \in Seq(S)
  PROVE  /\ FlattenSeq(ss) \in Seq(S)
         /\ FlattenSeq(Append(ss, t)) = FlattenSeq(ss) \o t
<1> DEFINE n == Len(ss)
           tt == Append(ss, t)
<1>1. /\ n \in Nat /\ tt \in Seq(Seq(S)) /\ Len(tt) = n + 1
      /\ tt[n + 1] = t /\ \A i \in 1..n : tt[i] = ss[i]
  OBVIOUS
<1> HIDE DEF tt
<1>2. PICK w \in [0..n -> Seq(S)] :
        /\ w[0] = <<>> /\ \A i \in 1..n : w[i] = w[i - 1] \o ss[i]
        /\ FlattenSeq(ss) = w[n]
  BY FlattenSteps
<1>3. PICK z \in [0..(n + 1) -> Seq(S)] :
        /\ z[0] = <<>> /\ \A i \in 1..(n + 1) : z[i] = z[i - 1] \o tt[i]
        /\ FlattenSeq(tt) = z[n + 1]
  <2>1. \E z \in [0..Len(tt) -> Seq(S)] :
          /\ z[0] = <<>> /\ \A i \in 1..Len(tt) : z[i] = z[i - 1] \o tt[i]
          /\ FlattenSeq(tt) = z[Len(tt)]
    BY <1>1, FlattenSteps
  <2> HIDE DEF n
  <2> QED
    BY <1>1, <2>1
<1> HIDE DEF n
<1>4. \A i \in 0..n : z[i] = w[i]
  <2> DEFINE P == {i \in 0..n : z[i] = w[i]}
  <2>1. 0 \in P
    BY <1>1, <1>2, <1>3
  <2>2. ASSUME NEW i \in 1..n, i - 1 \in P
        PROVE  i \in P
    <3>1. i \in 0..n /\ i \in 1..(n + 1) /\ z[i - 1] = w[i - 1]
      BY <1>1, <2>2
    <3> QED
      BY <1>1, <1>2, <1>3, <3>1
  <2>3. \A i \in 0..n : i \in P
    <3> HIDE DEF P
    <3> QED
      BY <1>1, <2>1, <2>2, UpTo
  <2> QED
    BY <2>3
<1>5. z[n + 1] = w[n] \o t
  <2>1. n + 1 \in 1..(n + 1) /\ n \in 0..n /\ (n + 1) - 1 = n
    BY <1>1
  <2>2. z[n + 1] = z[(n + 1) - 1] \o tt[n + 1]
    BY <1>3, <2>1, Zenon
  <2> QED
    BY <1>1, <1>4, <2>1, <2>2
<1>6. w[n] \in Seq(S)
  BY <1>1
<1>7. FlattenSeq(ss) = w[n] /\ FlattenSeq(tt) = z[n + 1]
  BY <1>2, <1>3
<1> QED
  BY <1>5, <1>6, <1>7, Zenon DEF tt

\* Of no pieces nothing is made.
LEMMA FlattenEmpty == FlattenSeq(<<>>) = <<>>
BY DEF FlattenSeq

\* put_bytes writes bytes, as many as the length and the field have.
LEMMA PutBytesBytes ==
  ASSUME CodecAssumption, NEW b \in Seq(Byte)
  PROVE  Be(Len(b)) \in Seq(Byte) /\ PutBytes(b) \in Seq(Byte)
<1>1. Be(Len(b)) \in Array(Width) /\ Width \in Nat
  BY BeBytes DEF CodecAssumption
<1>2. Be(Len(b)) \in Seq(Byte)
  BY <1>1, SeqDef DEF Array
<1> QED
  BY <1>2, ConcatProperties DEF PutBytes

\* The lines of an operation, one more at the end.
LEMMA EachLine ==
  ASSUME CodecAssumption, NEW s \in Seq(Seq(Byte)), NEW x \in Seq(Byte)
  PROVE  /\ Each(PutBytes, s) \in Seq(Byte) /\ Each(PutBytes, <<>>) = <<>>
         /\ Each(PutBytes, Append(s, x)) = Each(PutBytes, s) \o PutBytes(x)
<1> DEFINE ss == [i \in 1..Len(s) |-> PutBytes(s[i])]
<1>1. ss \in Seq(Seq(Byte)) /\ PutBytes(x) \in Seq(Byte)
  <2>1. Len(s) \in Nat /\ \A i \in 1..Len(s) : s[i] \in Seq(Byte)
    BY LenProperties, ElementOfSeq
  <2>2. ss \in [1..Len(s) -> Seq(Byte)]
    BY <2>1, PutBytesBytes
  <2> HIDE DEF ss
  <2> QED
    BY <2>1, <2>2, IsSeq, PutBytesBytes
<1>2. [i \in DOMAIN s |-> PutBytes(s[i])] = ss
  OBVIOUS
<1>3. [i \in DOMAIN Append(s, x) |-> PutBytes(Append(s, x)[i])] = Append(ss, PutBytes(x))
  <2>1. /\ Len(Append(s, x)) = Len(s) + 1 /\ DOMAIN Append(s, x) = 1..(Len(s) + 1)
        /\ Append(s, x)[Len(s) + 1] = x /\ \A i \in 1..Len(s) : Append(s, x)[i] = s[i]
    OBVIOUS
  <2>2. Len(ss) = Len(s)
    BY <1>1
  <2>3. Append(ss, PutBytes(x)) = [i \in 1..(Len(s) + 1) |->
                                     IF i <= Len(s) THEN ss[i] ELSE PutBytes(x)]
    BY <1>1, <2>2
  <2>4. \A i \in 1..(Len(s) + 1) :
          PutBytes(Append(s, x)[i]) = IF i <= Len(s) THEN ss[i] ELSE PutBytes(x)
    BY <2>1
  <2> QED
    BY <2>1, <2>3, <2>4
<1>4. Each(PutBytes, s) = FlattenSeq(ss)
      /\ Each(PutBytes, Append(s, x)) = FlattenSeq(Append(ss, PutBytes(x)))
  BY <1>2, <1>3 DEF Each
<1>5. Each(PutBytes, <<>>) = <<>>
  <2>1. [i \in DOMAIN <<>> |-> PutBytes((<<>>)[i])] = <<>>
    OBVIOUS
  <2> QED
    BY <2>1, FlattenEmpty DEF Each
<1> HIDE DEF ss
<1> QED
  BY <1>1, <1>4, <1>5, FlattenAppend

\* Texts are bytes.
LEMMA TextBytes ==
  ASSUME CodecAssumption
  PROVE  Text \subseteq Seq(Byte) /\ Seq(Text) \subseteq Seq(Seq(Byte))
<1>1. Text \subseteq Seq(Byte)
  BY SeqMonotonic DEF Text
<1>2. Seq(Text) \subseteq Seq(Seq(Byte))
  BY <1>1, SeqMonotonic
<1> QED
  BY <1>1, <1>2

\* Bytes put after bytes: where the brackets are is nothing to the result.
LEMMA Associative ==
  \A a, b, c \in Seq(Byte) : a \o b \in Seq(Byte) /\ (a \o b) \o c = a \o (b \o c)
BY ConcatAssociative, ConcatProperties

\* An operation is encoded as bytes.
LEMMA EncodeOpBytes ==
  ASSUME CodecAssumption, NEW o \in Operations
  PROVE  EncodeOp(o) \in Seq(Byte)
<1>1. o.summary \in Seq(Byte) /\ o.detail \in Seq(Seq(Byte)) /\ o.payload \in Seq(Byte)
  BY TextBytes DEF Operations
<1>2. Width \in Nat /\ Len(o.detail) \in Nat
  BY <1>1, LenProperties DEF CodecAssumption
<1>3. Be(Len(o.detail)) \in Seq(Byte)
  BY <1>2, BeBytes, IsSeq DEF Array
<1>4. /\ PutBytes(o.summary) \in Seq(Byte) /\ PutBytes(o.payload) \in Seq(Byte)
      /\ Each(PutBytes, o.detail) \in Seq(Byte)
  BY <1>1, PutBytesBytes, EachLine
<1> QED
  BY <1>3, <1>4, ConcatProperties DEF EncodeOp

\* The operations of a transaction, one more at the end.
LEMMA EachOperation ==
  ASSUME CodecAssumption, NEW s \in Seq(Operations), NEW o \in Operations
  PROVE  /\ Each(EncodeOp, s) \in Seq(Byte) /\ Each(EncodeOp, <<>>) = <<>>
         /\ Each(EncodeOp, Append(s, o)) = Each(EncodeOp, s) \o EncodeOp(o)
<1> DEFINE ss == [i \in 1..Len(s) |-> EncodeOp(s[i])]
<1>1. ss \in Seq(Seq(Byte)) /\ Len(ss) = Len(s) /\ EncodeOp(o) \in Seq(Byte)
  <2>1. Len(s) \in Nat /\ \A i \in 1..Len(s) : s[i] \in Operations
    BY LenProperties, ElementOfSeq
  <2>2. ss \in [1..Len(s) -> Seq(Byte)]
    BY <2>1, EncodeOpBytes
  <2> HIDE DEF ss
  <2> QED
    BY <2>1, <2>2, IsSeq, EncodeOpBytes
<1>2. [i \in DOMAIN s |-> EncodeOp(s[i])] = ss
  BY LenProperties
<1>3. [i \in DOMAIN Append(s, o) |-> EncodeOp(Append(s, o)[i])] = Append(ss, EncodeOp(o))
  <2>1. /\ DOMAIN Append(s, o) = 1..(Len(s) + 1)
        /\ Append(s, o)[Len(s) + 1] = o /\ \A i \in 1..Len(s) : Append(s, o)[i] = s[i]
    OBVIOUS
  <2>2. Append(ss, EncodeOp(o)) = [i \in 1..(Len(s) + 1) |->
                                     IF i <= Len(s) THEN ss[i] ELSE EncodeOp(o)]
    BY <1>1
  <2>3. \A i \in 1..(Len(s) + 1) :
          EncodeOp(Append(s, o)[i]) = IF i <= Len(s) THEN ss[i] ELSE EncodeOp(o)
    BY <2>1
  <2> QED
    BY <2>1, <2>2, <2>3
<1>4. Each(EncodeOp, s) = FlattenSeq(ss)
      /\ Each(EncodeOp, Append(s, o)) = FlattenSeq(Append(ss, EncodeOp(o)))
  BY <1>2, <1>3 DEF Each
<1>5. Each(EncodeOp, <<>>) = <<>>
  <2>1. [i \in DOMAIN <<>> |-> EncodeOp((<<>>)[i])] = <<>>
    OBVIOUS
  <2> QED
    BY <2>1, FlattenEmpty DEF Each
<1> HIDE DEF ss
<1> QED
  BY <1>1, <1>4, <1>5, FlattenAppend

\* A signed transaction is encoded as bytes.
LEMMA EncodeSignedBytes ==
  ASSUME CodecAssumption, NEW s \in SignedTransactions
  PROVE  EncodeSigned(s) \in Seq(Byte)
<1>1. KeyLen \in Nat /\ SigLen \in Nat /\ Width \in Nat
  BY DEF CodecAssumption
<1>2. /\ s.server \in Seq(Byte) /\ s.nonce \in Seq(Byte)
      /\ s.admin \in Seq(Byte) /\ s.signature \in Seq(Byte)
  BY <1>1, IsSeq DEF SignedTransactions, Array
<1>3. s.ops \in Seq(Operations) /\ Len(s.ops) \in Nat
  BY LenProperties DEF SignedTransactions
<1>4. Be(Len(s.ops)) \in Seq(Byte)
  BY <1>1, <1>3, BeBytes, IsSeq DEF Array
<1>5. Each(EncodeOp, s.ops) \in Seq(Byte)
  <2>1. [summary |-> <<>>, detail |-> <<>>, payload |-> <<>>] \in Operations
    BY EmptySeq DEF Operations, Text
  <2> QED
    BY <1>3, <2>1, EachOperation
<1>6. Encode(s) \in Seq(Byte)
  BY <1>2, <1>4, <1>5, ConcatProperties DEF Encode
<1> QED
  BY <1>2, <1>6, ConcatProperties DEF EncodeSigned
-----------------------------------------------------------------------------
(* The Reader *)

\* What has been read.
Read == SubSeq(buf, 1, pos)

\* The Reader is inside its buffer.
Inside == buf \in Seq(Byte) /\ pos \in 0..Len(buf)

\* take(n) returns n bytes, which are what is read next.
LEMMA TakeReads ==
  ASSUME Inside, NEW n \in Nat, Take(n)
  PROVE  /\ Slice(n) \in Array(n)
         /\ pos + n \in 0..Len(buf)
         /\ Read \in Seq(Byte) /\ SubSeq(buf, 1, pos + n) = Read \o Slice(n)
<1>1. Len(buf) \in Nat /\ pos \in Nat /\ pos + n <= Len(buf)
  BY LenProperties DEF Inside, Take
<1>2. \A i \in 1..Len(buf) : buf[i] \in Byte
  BY ElementOfSeq DEF Inside
<1>3. Slice(n) \in Seq(Byte) /\ Len(Slice(n)) = n
  <2>1. pos + 1 \in Int /\ pos + n \in Int /\ \A i \in (pos + 1)..(pos + n) : buf[i] \in Byte
    BY <1>1, <1>2
  <2>2. /\ Slice(n) \in Seq(Byte)
        /\ Len(Slice(n)) = IF pos + 1 <= pos + n THEN (pos + n) - (pos + 1) + 1 ELSE 0
    BY <2>1, SubSeqProperties DEF Slice
  <2> QED
    BY <1>1, <2>2
<1>4. Slice(n) \in Array(n)
  BY <1>3, LenProperties DEF Array
<1>5. SubSeq(buf, 1, pos) \o SubSeq(buf, pos + 1, pos + n) = SubSeq(buf, 1, pos + n)
  <2>1. /\ 1 \in 1..(Len(buf) + 1) /\ pos \in (1 - 1)..Len(buf) /\ pos + n \in pos..Len(buf)
    BY <1>1
  <2> QED
    BY <2>1, ConcatAdjacentSubSeq DEF Inside
<1>6. Read \in Seq(Byte)
  <2>1. 1 \in Int /\ pos \in Int /\ \A i \in 1..pos : buf[i] \in Byte
    BY <1>1, <1>2
  <2> QED
    BY <2>1, SubSeqProperties DEF Read
<1> QED
  BY <1>1, <1>4, <1>5, <1>6 DEF Read, Slice

\* u32() returns the number whose encoding is read next.
LEMMA U32Reads ==
  ASSUME CodecAssumption, Inside, Take(Width)
  PROVE  /\ U32 \in Nat /\ Be(U32) \in Seq(Byte)
         /\ SubSeq(buf, 1, pos + Width) = Read \o Be(U32)
<1>1. Width \in Nat
  BY DEF CodecAssumption
<1>2. Slice(Width) \in Array(Width) /\ SubSeq(buf, 1, pos + Width) = Read \o Slice(Width)
  BY <1>1, TakeReads
<1>3. U32 \in Nat /\ Be(U32) = Slice(Width)
  BY <1>2, BeOfNumber DEF U32
<1> QED
  BY <1>1, <1>2, <1>3, IsSeq DEF Array

\* bytes(max) returns a field within its bound, whose encoding is read next.
LEMMA BytesReads ==
  ASSUME CodecAssumption, Inside, NEW max \in Nat, Bytes(max)
  PROVE  /\ U32 \in 0..max /\ pos + (Width + U32) \in 0..Len(buf)
         /\ Field \in Seq(Byte) /\ Len(Field) = U32
         /\ SubSeq(buf, 1, pos + (Width + U32)) = Read \o PutBytes(Field)
<1>1. Width \in Nat /\ Take(Width) /\ U32 <= max /\ Take(Width + U32)
  BY DEF CodecAssumption, Bytes
<1>2. /\ U32 \in Nat /\ Be(U32) \in Seq(Byte)
      /\ SubSeq(buf, 1, pos + Width) = Read \o Be(U32)
  BY <1>1, U32Reads
<1>3. /\ Len(buf) \in Nat /\ pos \in Nat /\ pos + Width + U32 <= Len(buf)
      /\ pos + (Width + U32) = pos + Width + U32
  BY <1>1, <1>2, LenProperties DEF Inside, Take
<1>4. Field \in Seq(Byte) /\ Len(Field) = U32
  <2> DEFINE a == pos + Width
             u == U32
  <2>1. \A i \in 1..Len(buf) : buf[i] \in Byte
    BY ElementOfSeq DEF Inside
  <2>2. a \in Nat /\ u \in Nat /\ a + u <= Len(buf) /\ Field = SubSeq(buf, a + 1, a + u)
    BY <1>1, <1>2, <1>3 DEF Field
  <2> HIDE DEF a, u
  <2>3. a + 1 \in Int /\ a + u \in Int /\ \A i \in (a + 1)..(a + u) : buf[i] \in Byte
    BY <1>3, <2>1, <2>2
  <2>4. /\ Field \in Seq(Byte)
        /\ Len(Field) = IF a + 1 <= a + u THEN (a + u) - (a + 1) + 1 ELSE 0
    BY <2>2, <2>3, SubSeqProperties
  <2>5. Len(Field) = u
    BY <2>2, <2>4
  <2> QED
    BY <2>4, <2>5 DEF u
<1>5. SubSeq(buf, 1, pos + Width) \o Field = SubSeq(buf, 1, pos + Width + U32)
  <2>1. /\ 1 \in 1..(Len(buf) + 1) /\ pos + Width \in (1 - 1)..Len(buf)
        /\ pos + Width + U32 \in (pos + Width)..Len(buf)
    BY <1>1, <1>2, <1>3
  <2> QED
    BY <2>1, ConcatAdjacentSubSeq DEF Inside, Field
<1>6. Read \in Seq(Byte)
  BY <1>1, TakeReads
<1>7. (Read \o Be(U32)) \o Field = Read \o (Be(U32) \o Field)
  BY <1>2, <1>4, <1>6, Associative
<1>8. pos + (Width + U32) \in 0..Len(buf) /\ U32 \in 0..max
  BY <1>1, <1>2, <1>3
<1> QED
  BY <1>2, <1>3, <1>4, <1>5, <1>7, <1>8 DEF PutBytes

\* string(max) returns a text.
LEMMA StringReads ==
  ASSUME CodecAssumption, Inside, NEW max \in Nat, String(max)
  PROVE  Bytes(max) /\ Field \in Text
<1>1. Bytes(max) /\ \A i \in DOMAIN Field : Field[i] \notin NotText
  BY DEF String
<1>2. Field \in Seq(Byte)
  BY <1>1, BytesReads
<1>3. Len(Field) \in Nat /\ Field \in [1..Len(Field) -> Byte \ NotText]
  BY <1>1, <1>2, LenProperties
<1> QED
  BY <1>1, <1>3, IsSeq DEF Text

\* What each read asks for.
LEMMA AcceptedRead ==
  ASSUME Accepts
  PROVE  /\ at \in {"server", "nonce", "admin"} => Take(KeyLen)
         /\ at = "ops" => Count(MAX_OPS)
         /\ at \in {"summary", "line"} => String(MAX_STR)
         /\ at = "details" => Count(MAX_DETAIL)
         /\ at = "payload" => Bytes(MAX_PAYLOAD)
         /\ at = "signature" => Take(SigLen)
         /\ at = "finish" => pos = Len(buf)
BY DEF Accepts

-----------------------------------------------------------------------------
(* What the decoder holds at each read *)

Partial == [server : Seq(Byte), nonce : Seq(Byte), ops : Seq(Operations),
            admin : Seq(Byte), signature : Seq(Byte)]

\* The pieces read so far are what their fields can hold, and the counters say
\* how many operations and lines the loops have before them.
HeldInv ==
  /\ Inside /\ TypeOK
  /\ tx \in Partial /\ op \in [summary : Text, detail : Seq(Text)]
  /\ at \in {"server", "nonce", "ops"} => left = 0 /\ tx.ops = <<>>
  /\ at \in {"summary", "details", "line", "payload"} => left >= 1
  /\ at \in {"admin", "signature", "finish", "ok"} => left = 0
  /\ at = "details" => op.detail = <<>>
  /\ at = "line" => lines >= 1
  /\ at \notin {"line", "malformed"} => lines = 0

\* Moving on by n bytes stays inside.
LEMMA GoInside ==
  ASSUME Inside, NEW n, NEW to, Go(n, to), pos + n \in 0..Len(buf)
  PROVE  Inside' /\ buf' = buf /\ pos' = pos + n /\ at' = to /\ pos' \in 0..Len(buf')
BY DEF Inside, Go

\* A Reader starts at the first byte and holds nothing.
LEMMA HeldInit == CodecAssumption /\ Init => HeldInv
<1> SUFFICES ASSUME CodecAssumption, Init PROVE HeldInv
  OBVIOUS
<1>1. buf \in Seq(Byte)
  BY EncodeSignedBytes DEF Init, CodecAssumption
<1>2. Len(buf) \in Nat
  BY <1>1, LenProperties
<1>3. Inside /\ pos \in 0..Len(buf)
  BY <1>1, <1>2 DEF Init, Inside
<1>4. tx \in Partial /\ tx.ops = <<>> /\ op \in [summary : Text, detail : Seq(Text)]
      /\ op.detail = <<>>
  BY EmptySeq DEF Init, Blank, NoOp, Partial, Text
<1>5. Len(tx.ops) = 0 /\ Len(op.detail) = 0
  BY <1>4
<1>6. MAX_OPS \in Nat /\ MAX_DETAIL \in Nat
  BY DEF CodecAssumption
<1> QED
  BY <1>3, <1>4, <1>5, <1>6 DEF Init, HeldInv, TypeOK

\* array::<N>(), into any of the fixed fields
LEMMA ArrayHeld ==
  ASSUME CodecAssumption, HeldInv,
         NEW f \in {"server", "nonce", "admin", "signature"}, NEW n \in Nat,
         NEW to \in {"nonce", "ops", "signature", "finish"},
         f \in {"server", "nonce"} => to \in {"nonce", "ops"},
         f \in {"admin", "signature"} => to \in {"signature", "finish"},
         Take(n), ReadArray(f, n, to)
  PROVE  HeldInv'
<1>1. Slice(n) \in Seq(Byte) /\ pos + n \in 0..Len(buf)
  BY TakeReads, IsSeq DEF HeldInv, Array
<1>2. /\ at = f /\ tx' = [tx EXCEPT ![f] = Slice(n)] /\ Go(n, to)
      /\ UNCHANGED <<left, lines, op>>
  BY DEF ReadArray
<1>3. Inside' /\ at' = to /\ pos' \in 0..Len(buf')
  BY <1>1, <1>2, GoInside DEF HeldInv
<1>4. tx' \in Partial /\ tx'.ops = tx.ops
  BY <1>1, <1>2 DEF HeldInv, Partial
<1>5. lines = 0 /\ left = 0 /\ (f \in {"server", "nonce"} => tx.ops = <<>>)
  BY <1>2 DEF HeldInv
<1>6. TypeOK'
  BY <1>2, <1>3, <1>4 DEF HeldInv, TypeOK
<1> QED
  BY <1>2, <1>3, <1>4, <1>5, <1>6 DEF HeldInv

\* A count of what is still to come goes down as what is held goes up, and stays
\* within the bound on both.
LEMMA CountDown ==
  ASSUME NEW max \in Nat, NEW held \in Nat, NEW rest \in Nat,
         rest >= 1, held + rest <= max
  PROVE  /\ rest - 1 \in 0..max /\ (held + 1) + (rest - 1) <= max
         /\ (rest = 1 => rest - 1 = 0) /\ (rest # 1 => rest - 1 >= 1)
  OBVIOUS

\* Every read stays in the buffer and leaves typed, bounded pieces.
LEMMA HeldStep ==
  ASSUME CodecAssumption, HeldInv, [Next]_vars
  PROVE  HeldInv'
<1> USE DEF HeldInv
<1>1. /\ Width \in Nat /\ KeyLen \in Nat /\ SigLen \in Nat
      /\ MAX_OPS \in Nat /\ MAX_DETAIL \in Nat /\ MAX_STR \in Nat /\ MAX_PAYLOAD \in Nat
  BY DEF CodecAssumption
<1>2. /\ tx.ops \in Seq(Operations) /\ Len(tx.ops) \in Nat
      /\ op.summary \in Text /\ op.detail \in Seq(Text) /\ Len(op.detail) \in Nat
  BY LenProperties DEF Partial
<1>3. ASSUME ReadArray("server", KeyLen, "nonce") \/ ReadArray("nonce", KeyLen, "ops")
             \/ ReadArray("admin", KeyLen, "signature")
             \/ ReadArray("signature", SigLen, "finish")
      PROVE  HeldInv'
  <2>1. CASE ReadArray("server", KeyLen, "nonce")
    <3>1. Take(KeyLen)
      BY <2>1, AcceptedRead DEF ReadArray
    <3> QED
      BY <1>1, <2>1, <3>1, ArrayHeld
  <2>2. CASE ReadArray("nonce", KeyLen, "ops")
    <3>1. Take(KeyLen)
      BY <2>2, AcceptedRead DEF ReadArray
    <3> QED
      BY <1>1, <2>2, <3>1, ArrayHeld
  <2>3. CASE ReadArray("admin", KeyLen, "signature")
    <3>1. Take(KeyLen)
      BY <2>3, AcceptedRead DEF ReadArray
    <3> QED
      BY <1>1, <2>3, <3>1, ArrayHeld
  <2>4. CASE ReadArray("signature", SigLen, "finish")
    <3>1. Take(SigLen)
      BY <2>4, AcceptedRead DEF ReadArray
    <3> QED
      BY <1>1, <2>4, <3>1, ArrayHeld
  <2> QED
    BY <1>3, <2>1, <2>2, <2>3, <2>4
<1>4. ASSUME Take(Width)
      PROVE  U32 \in Nat /\ pos + Width \in 0..Len(buf)
  BY <1>1, <1>4, TakeReads, U32Reads
<1>5. CASE ReadOps
  <2>1. Take(Width) /\ U32 <= MAX_OPS
    BY <1>5, AcceptedRead DEF ReadOps, Count
  <2>2. U32 \in 0..MAX_OPS /\ pos + Width \in 0..Len(buf)
    BY <1>1, <1>4, <2>1
  <2>3. /\ Inside' /\ pos' \in 0..Len(buf')
        /\ at' = IF U32 = 0 THEN "admin" ELSE "summary"
    BY <1>5, <2>2, GoInside DEF ReadOps
  <2>4. at = "ops" /\ left' = U32 /\ UNCHANGED <<lines, op, tx>>
    BY <1>5 DEF ReadOps
  <2>5. Len(tx.ops) = 0
    BY <2>4
  <2> QED
    BY <1>1, <2>2, <2>3, <2>4, <2>5 DEF TypeOK
<1>6. CASE ReadSummary
  <2>1. Bytes(MAX_STR) /\ Field \in Text
    BY <1>1, <1>6, AcceptedRead, StringReads DEF ReadSummary
  <2>2. pos + (Width + U32) \in 0..Len(buf)
    BY <1>1, <2>1, BytesReads
  <2>3. Inside' /\ pos' \in 0..Len(buf') /\ at' = "details"
    BY <1>6, <2>2, GoInside DEF ReadSummary
  <2>4. /\ at = "summary" /\ op' = [summary |-> Field, detail |-> <<>>]
        /\ UNCHANGED <<left, lines, tx>>
    BY <1>6 DEF ReadSummary
  <2>5. op' \in [summary : Text, detail : Seq(Text)] /\ op'.detail = <<>> /\ Len(op'.detail) = 0
    BY <2>1, <2>4, EmptySeq
  <2> QED
    BY <1>1, <2>3, <2>4, <2>5 DEF TypeOK
<1>7. CASE ReadDetails
  <2>1. Take(Width) /\ U32 <= MAX_DETAIL
    BY <1>7, AcceptedRead DEF ReadDetails, Count
  <2>2. U32 \in 0..MAX_DETAIL /\ pos + Width \in 0..Len(buf)
    BY <1>1, <1>4, <2>1
  <2>3. /\ Inside' /\ pos' \in 0..Len(buf')
        /\ at' = IF U32 = 0 THEN "payload" ELSE "line"
    BY <1>7, <2>2, GoInside DEF ReadDetails
  <2>4. at = "details" /\ lines' = U32 /\ UNCHANGED <<left, op, tx>>
    BY <1>7 DEF ReadDetails
  <2>5. Len(op.detail) = 0
    BY <2>4
  <2> QED
    BY <1>1, <2>2, <2>3, <2>4, <2>5 DEF TypeOK
<1>8. CASE ReadLine
  <2>1. Bytes(MAX_STR) /\ Field \in Text
    BY <1>1, <1>8, AcceptedRead, StringReads DEF ReadLine
  <2>2. pos + (Width + U32) \in 0..Len(buf)
    BY <1>1, <2>1, BytesReads
  <2>3. /\ Inside' /\ pos' \in 0..Len(buf')
        /\ at' = IF lines = 1 THEN "payload" ELSE "line"
    BY <1>8, <2>2, GoInside DEF ReadLine
  <2>4. /\ at = "line" /\ op' = [op EXCEPT !.detail = Append(op.detail, Field)]
        /\ lines' = lines - 1 /\ UNCHANGED <<left, tx>>
    BY <1>8 DEF ReadLine
  <2>5. Append(op.detail, Field) \in Seq(Text)
        /\ Len(Append(op.detail, Field)) = Len(op.detail) + 1
    BY <1>2, <2>1, AppendProperties
  <2>6. op' \in [summary : Text, detail : Seq(Text)] /\ Len(op'.detail) = Len(op.detail) + 1
    BY <2>4, <2>5
  <2>7. lines' \in 0..MAX_DETAIL /\ Len(op'.detail) + lines' <= MAX_DETAIL
        /\ (lines = 1 => lines' = 0) /\ (lines # 1 => lines' >= 1)
    <3>1. lines \in Nat /\ lines >= 1 /\ Len(op.detail) + lines <= MAX_DETAIL
      BY <2>4 DEF TypeOK
    <3>2. /\ lines - 1 \in 0..MAX_DETAIL
          /\ (Len(op.detail) + 1) + (lines - 1) <= MAX_DETAIL
          /\ (lines = 1 => lines - 1 = 0) /\ (lines # 1 => lines - 1 >= 1)
      BY ONLY <1>1, <1>2, <3>1, CountDown
    <3>3. lines' = lines - 1 /\ Len(op'.detail) = Len(op.detail) + 1
      BY <2>4, <2>6
    <3> QED
      BY ONLY <3>2, <3>3, Zenon
  <2>8. TypeOK'
    BY <2>3, <2>4, <2>7 DEF TypeOK
  <2> QED
    BY <2>3, <2>4, <2>6, <2>7, <2>8
<1>9. CASE ReadPayload
  <2> DEFINE o == [summary |-> op.summary, detail |-> op.detail, payload |-> Field]
  <2>1. Bytes(MAX_PAYLOAD)
    BY <1>9, AcceptedRead DEF ReadPayload
  <2>2. pos + (Width + U32) \in 0..Len(buf) /\ Field \in Seq(Byte)
    BY <1>1, <2>1, BytesReads
  <2>3. /\ Inside' /\ pos' \in 0..Len(buf')
        /\ at' = IF left = 1 THEN "admin" ELSE "summary"
    BY <1>9, <2>2, GoInside DEF ReadPayload
  <2>4. /\ at = "payload" /\ tx' = [tx EXCEPT !.ops = Append(tx.ops, o)]
        /\ left' = left - 1 /\ UNCHANGED <<lines, op>>
    BY <1>9 DEF ReadPayload
  <2>5. o \in Operations
    BY <1>2, <2>2 DEF Operations
  <2>6. Append(tx.ops, o) \in Seq(Operations) /\ Len(Append(tx.ops, o)) = Len(tx.ops) + 1
    <3> HIDE DEF o
    <3> QED
      BY <1>2, <2>5, AppendProperties
  <2> HIDE DEF o
  <2>7. tx' \in Partial /\ Len(tx'.ops) = Len(tx.ops) + 1
    BY <2>4, <2>6 DEF Partial
  <2>8. left' \in 0..MAX_OPS /\ Len(tx'.ops) + left' <= MAX_OPS
        /\ (left = 1 => left' = 0) /\ (left # 1 => left' >= 1)
    <3>1. left \in Nat /\ left >= 1 /\ Len(tx.ops) + left <= MAX_OPS
      BY <2>4 DEF TypeOK
    <3>2. /\ left - 1 \in 0..MAX_OPS
          /\ (Len(tx.ops) + 1) + (left - 1) <= MAX_OPS
          /\ (left = 1 => left - 1 = 0) /\ (left # 1 => left - 1 >= 1)
      BY ONLY <1>1, <1>2, <3>1, CountDown
    <3>3. left' = left - 1 /\ Len(tx'.ops) = Len(tx.ops) + 1
      BY <2>4, <2>7
    <3> QED
      BY ONLY <3>2, <3>3, Zenon
  <2>9. TypeOK'
    BY <2>3, <2>4, <2>8 DEF TypeOK
  <2> QED
    BY <2>3, <2>4, <2>7, <2>8, <2>9
<1>10. CASE Finish \/ Refuse
  <2>1. /\ at \notin {"ok", "malformed"} /\ (at' = "ok" => at = "finish")
        /\ at' \in {"ok", "malformed"} /\ Go(0, at')
        /\ UNCHANGED <<left, lines, op, tx>>
    BY <1>10 DEF Finish, Refuse, Go
  <2>2. pos + 0 \in 0..Len(buf)
    BY LenProperties DEF Inside
  <2>3. Inside' /\ pos' \in 0..Len(buf')
    BY <2>1, <2>2, GoInside
  <2> QED
    BY <2>1, <2>3 DEF TypeOK
<1>11. CASE UNCHANGED vars
  BY <1>11 DEF vars, Inside, TypeOK
<1> QED
  BY <1>3, <1>5, <1>6, <1>7, <1>8, <1>9, <1>10, <1>11 DEF Next

\* The decoder holds what its fields can hold, whatever the buffer says.
THEOREM HeldInvariance == Spec => []HeldInv
<1>1. Init => HeldInv
  BY HeldInit, CodecAssumption
<1>2. HeldInv /\ [Next]_vars => HeldInv'
  BY HeldStep, CodecAssumption
<1> QED
  BY <1>1, <1>2, PTL DEF Spec

\* tx.rs, Reader: it stays inside its buffer, and the counts that size its
\* allocations stay within their bounds.
THEOREM CodecTypeCorrect == Spec => []TypeOK
BY HeldInvariance, PTL DEF HeldInv
-----------------------------------------------------------------------------
(* How long an accepted body can be *)

\* The arithmetic of sizes: one more operation or line.
LEMMA Multiples ==
  ASSUME NEW m \in Nat, NEW n \in Nat, NEW k \in Nat
  PROVE  m * k \in Nat /\ (m + 1) * k = m * k + k /\ (m <= n => m * k <= n * k)
<1>1. m * k \in Nat /\ (m + 1) * k = m * k + k
  OBVIOUS
<1>2. m <= n => m * k <= n * k
  <2> SUFFICES ASSUME m <= n PROVE m * k <= n * k
    OBVIOUS
  <2>1. n - m \in Nat /\ n = m + (n - m)
    OBVIOUS
  <2>2. n * k = m * k + (n - m) * k
    OBVIOUS
  <2>3. (n - m) * k \in Nat
    BY <2>1
  <2> QED
    BY <1>1, <2>2, <2>3
<1> QED
  BY <1>1, <1>2

\* The bytes in front of the operations, and of the lines of an operation.
TxFront  == 2 * KeyLen + Width
LineSize == Width + MAX_STR
OpFront  == 2 * Width + MAX_STR

\* The Reader has passed no more than the bounds of what was read allow.
SizeInv ==
  /\ at = "server" => pos <= 0
  /\ at = "nonce" => pos <= KeyLen
  /\ at = "ops" => pos <= 2 * KeyLen
  /\ at = "summary" => pos <= TxFront + Len(tx.ops) * OpSize
  /\ at = "details" => pos <= TxFront + Len(tx.ops) * OpSize + LineSize
  /\ at \in {"line", "payload"} =>
       pos <= TxFront + Len(tx.ops) * OpSize + OpFront + Len(op.detail) * LineSize
  /\ at = "admin" => pos <= TxFront + MAX_OPS * OpSize
  /\ at = "signature" => pos <= TxFront + MAX_OPS * OpSize + KeyLen
  /\ at \in {"finish", "ok"} => pos <= TxFront + MAX_OPS * OpSize + KeyLen + SigLen
  /\ at = "ok" => pos = Len(buf)

\* Every read takes no more bytes than its bound has room for.
LEMMA SizeStep ==
  ASSUME CodecAssumption, HeldInv, HeldInv', SizeInv, [Next]_vars
  PROVE  SizeInv'
<1>1. /\ Width \in Nat /\ KeyLen \in Nat /\ SigLen \in Nat
      /\ MAX_OPS \in Nat /\ MAX_DETAIL \in Nat /\ MAX_STR \in Nat /\ MAX_PAYLOAD \in Nat
  BY DEF CodecAssumption
<1> DEFINE a == Len(tx.ops) * OpSize
           b == Len(op.detail) * LineSize
           m == MAX_OPS * OpSize
           d == MAX_DETAIL * LineSize
<1>2. /\ LineSize \in Nat /\ OpFront \in Nat /\ TxFront \in Nat /\ d \in Nat
      /\ OpSize = OpFront + d + Width + MAX_PAYLOAD
  BY <1>1 DEF OpSize, LineSize, OpFront, TxFront
<1>3. OpSize \in Nat /\ m \in Nat
  <2>1. OpSize \in Nat
    BY <1>1, <1>2
  <2> QED
    BY <1>1, <2>1, Multiples
<1>4. /\ Inside /\ pos \in Nat /\ Len(tx.ops) \in Nat /\ Len(tx.ops) <= MAX_OPS
      /\ Len(tx'.ops) \in Nat /\ Len(tx'.ops) <= MAX_OPS
      /\ Len(op.detail) \in Nat /\ Len(op.detail) <= MAX_DETAIL
  <2>1. Inside /\ pos \in Nat
    BY LenProperties DEF HeldInv, TypeOK, Inside
  <2>2. Len(tx.ops) \in Nat /\ Len(tx'.ops) \in Nat /\ Len(op.detail) \in Nat
    BY LenProperties DEF HeldInv, Partial
  <2>3. /\ left \in Nat /\ left' \in Nat /\ lines \in Nat
        /\ Len(tx.ops) + left <= MAX_OPS /\ Len(tx'.ops) + left' <= MAX_OPS
        /\ Len(op.detail) + lines <= MAX_DETAIL
    BY DEF HeldInv, TypeOK
  <2> QED
    BY <1>1, <2>1, <2>2, <2>3
<1>5. /\ a \in Nat /\ a <= m /\ (Len(tx.ops) + 1) * OpSize = a + OpSize
      /\ Len(tx'.ops) * OpSize <= m
  BY <1>1, <1>3, <1>4, Multiples
<1>6. b \in Nat /\ b <= d /\ (Len(op.detail) + 1) * LineSize = b + LineSize
  BY <1>1, <1>2, <1>4, Multiples
<1> HIDE DEF a, b, m, d
<1>7. ASSUME NEW f, NEW n, NEW to, ReadArray(f, n, to)
      PROVE  at = f /\ at' = to /\ pos' = pos + n
  BY <1>7 DEF ReadArray, Go
<1>8. CASE ReadArray("server", KeyLen, "nonce") \/ ReadArray("nonce", KeyLen, "ops")
  BY <1>1, <1>4, <1>7, <1>8 DEF SizeInv
<1>9. CASE ReadArray("admin", KeyLen, "signature") \/ ReadArray("signature", SigLen, "finish")
  <2>1. \/ at = "admin" /\ at' = "signature" /\ pos' = pos + KeyLen
        \/ at = "signature" /\ at' = "finish" /\ pos' = pos + SigLen
    BY <1>7, <1>9
  <2>2. /\ at = "admin" => pos <= TxFront + m
        /\ at = "signature" => pos <= TxFront + m + KeyLen
    BY DEF SizeInv, m
  <2>3. /\ at' = "signature" => pos' <= TxFront + m + KeyLen
        /\ at' = "finish" => pos' <= TxFront + m + KeyLen + SigLen
    BY <1>1, <1>2, <1>3, <1>4, <2>1, <2>2
  <2> QED
    BY <2>1, <2>3 DEF SizeInv, m
<1>10. CASE ReadOps
  <2>1. /\ at = "ops" /\ pos' = pos + Width /\ tx' = tx
        /\ at' = IF U32 = 0 THEN "admin" ELSE "summary"
    BY <1>10 DEF ReadOps, Go
  <2>2. pos <= 2 * KeyLen
    BY <2>1 DEF SizeInv
  <2>3. pos' <= TxFront
    BY <1>1, <1>4, <2>1, <2>2 DEF TxFront
  <2>4. pos' <= TxFront + a /\ pos' <= TxFront + m
    BY <1>1, <1>2, <1>3, <1>4, <1>5, <2>1, <2>3
  <2> QED
    BY <2>1, <2>4 DEF SizeInv, a, m
<1>11. CASE ReadSummary
  <2>1. Bytes(MAX_STR)
    BY <1>1, <1>4, <1>11, AcceptedRead, StringReads DEF ReadSummary
  <2>2. U32 \in 0..MAX_STR
    BY <1>1, <1>4, <2>1, BytesReads
  <2>3. at = "summary" /\ pos' = pos + (Width + U32) /\ tx' = tx /\ at' = "details"
    BY <1>11 DEF ReadSummary, Go
  <2>4. pos <= TxFront + a
    BY <2>3 DEF SizeInv, a
  <2>5. pos' <= TxFront + a + LineSize
    BY <1>1, <1>2, <1>4, <1>5, <2>2, <2>3, <2>4 DEF LineSize
  <2> QED
    BY <2>3, <2>5 DEF SizeInv, a
<1>12. CASE ReadDetails
  <2>1. /\ at = "details" /\ pos' = pos + Width /\ tx' = tx /\ op' = op
        /\ at' = IF U32 = 0 THEN "payload" ELSE "line"
    BY <1>12 DEF ReadDetails, Go
  <2>2. pos <= TxFront + a + LineSize
    BY <2>1 DEF SizeInv, a
  <2>3. pos' <= TxFront + a + OpFront + b
    BY <1>1, <1>2, <1>4, <1>5, <1>6, <2>1, <2>2 DEF LineSize, OpFront
  <2> QED
    BY <2>1, <2>3 DEF SizeInv, a, b
<1>13. CASE ReadLine
  <2>1. Bytes(MAX_STR) /\ Field \in Text
    BY <1>1, <1>4, <1>13, AcceptedRead, StringReads DEF ReadLine
  <2>2. U32 \in 0..MAX_STR
    BY <1>1, <1>4, <2>1, BytesReads
  <2>3. /\ at = "line" /\ pos' = pos + (Width + U32) /\ tx' = tx
        /\ op' = [op EXCEPT !.detail = Append(op.detail, Field)]
        /\ at' = IF lines = 1 THEN "payload" ELSE "line"
    BY <1>13 DEF ReadLine, Go
  <2>4. Len(op'.detail) = Len(op.detail) + 1
    BY <2>1, <2>3, AppendProperties DEF HeldInv
  <2>5. pos <= TxFront + a + OpFront + b
    BY <2>3 DEF SizeInv, a, b
  <2>6. pos' <= TxFront + a + OpFront + (b + LineSize)
    <3>1. pos' = pos + (Width + U32) /\ pos \in Nat /\ a \in Nat /\ b \in Nat
      BY <1>4, <1>5, <1>6, <2>3
    <3>2. Width + U32 <= LineSize /\ U32 \in Nat
      BY <1>1, <2>2 DEF LineSize
    <3> QED
      BY <1>1, <1>2, <2>5, <3>1, <3>2
  <2>7. Len(op'.detail) * LineSize = b + LineSize
    BY <1>6, <2>4
  <2> QED
    BY <2>3, <2>6, <2>7 DEF SizeInv, a
<1>14. CASE ReadPayload
  <2> DEFINE o == [summary |-> op.summary, detail |-> op.detail, payload |-> Field]
  <2>1. Bytes(MAX_PAYLOAD)
    BY <1>14, AcceptedRead DEF ReadPayload
  <2>2. U32 \in 0..MAX_PAYLOAD /\ Field \in Seq(Byte)
    BY <1>1, <1>4, <2>1, BytesReads
  <2>3. /\ at = "payload" /\ pos' = pos + (Width + U32)
        /\ tx' = [tx EXCEPT !.ops = Append(tx.ops, o)]
        /\ at' = IF left = 1 THEN "admin" ELSE "summary"
    BY <1>14 DEF ReadPayload, Go
  <2>4. Len(tx'.ops) = Len(tx.ops) + 1
    <3>1. o \in Operations
      BY <2>2 DEF HeldInv, Operations
    <3>2. tx.ops \in Seq(Operations) /\ tx'.ops = Append(tx.ops, o)
      BY <2>3 DEF HeldInv, Partial
    <3> HIDE DEF o
    <3> QED
      BY <3>1, <3>2, AppendProperties
  <2>5. pos <= TxFront + a + OpFront + b
    BY <2>3 DEF SizeInv, a, b
  <2>6. pos' <= TxFront + (a + OpSize)
    <3>1. pos' = pos + (Width + U32) /\ pos \in Nat /\ a \in Nat /\ b \in Nat /\ b <= d
      BY <1>4, <1>5, <1>6, <2>3
    <3>2. U32 \in Nat /\ U32 <= MAX_PAYLOAD
      BY <1>1, <2>2
    <3> QED
      BY <1>1, <1>2, <2>5, <3>1, <3>2
  <2>7. Len(tx'.ops) * OpSize = a + OpSize
    BY <1>5, <2>4
  <2>8. a + OpSize <= m
    BY <1>5, <2>7
  <2>9. pos' <= TxFront + m
    <3>1. pos' \in Int /\ a \in Nat
      BY <1>1, <1>4, <1>5, <2>2, <2>3
    <3> QED
      BY <1>2, <1>3, <2>6, <2>8, <3>1
  <2> QED
    BY <2>3, <2>6, <2>7, <2>9 DEF SizeInv, m
<1>15. CASE Finish \/ Refuse
  <2>1. /\ at' \in {"ok", "malformed"} /\ (at' = "ok" => at = "finish" /\ pos = Len(buf))
        /\ pos' = pos + 0 /\ buf' = buf
    BY <1>15, AcceptedRead DEF Finish, Refuse, Go
  <2> QED
    BY <1>4, <2>1 DEF SizeInv
<1>16. CASE UNCHANGED vars
  BY <1>16 DEF vars, SizeInv
<1> QED
  BY <1>8, <1>9, <1>10, <1>11, <1>12, <1>13, <1>14, <1>15, <1>16 DEF Next

\* tx.rs, decode: a body it accepts is no longer than its bounds add up to,
\* which a u32 can count: no length or count in it has wrapped.
THEOREM AcceptedShort == Spec => []AcceptedIsShort
<1>1. Init => SizeInv
  BY DEF Init, SizeInv
<1>2. HeldInv /\ HeldInv' /\ SizeInv /\ [Next]_vars => SizeInv'
  BY SizeStep, CodecAssumption
<1>3. SizeInv => AcceptedIsShort
  <2> SUFFICES ASSUME SizeInv, at = "ok" PROVE Len(buf) <= BodySize
    BY DEF AcceptedIsShort
  <2>1. Len(buf) <= TxFront + MAX_OPS * OpSize + KeyLen + SigLen
    BY DEF SizeInv
  <2>2. /\ KeyLen \in Nat /\ SigLen \in Nat /\ Width \in Nat /\ MAX_OPS \in Nat
        /\ MAX_STR \in Nat /\ MAX_DETAIL \in Nat /\ MAX_PAYLOAD \in Nat
    BY CodecAssumption DEF CodecAssumption
  <2>3. OpSize \in Nat
    BY <2>2 DEF OpSize
  <2>4. MAX_OPS * OpSize \in Nat
    BY <2>2, <2>3
  <2> HIDE DEF OpSize
  <2>5. TxFront + MAX_OPS * OpSize + KeyLen + SigLen = BodySize
    BY <2>2, <2>4 DEF TxFront, BodySize
  <2> QED
    BY <2>1, <2>5
<1> QED
  BY <1>1, <1>2, <1>3, HeldInvariance, PTL DEF Spec
-----------------------------------------------------------------------------
(* One representation *)

\* The encoding of the operations read so far, and of the operation in hand.
Batch == tx.server \o tx.nonce \o Be(Len(tx.ops) + left) \o Each(EncodeOp, tx.ops)
Opening == PutBytes(op.summary) \o Be(Len(op.detail) + lines) \o Each(PutBytes, op.detail)

\* What has been read is the encoding of what is held: the counts that are
\* encoded are those of the entries read and those still to come.
CanonInv ==
  /\ at = "server" => Read = <<>>
  /\ at = "nonce" => Read = tx.server
  /\ at = "ops" => Read = tx.server \o tx.nonce
  /\ at \in {"summary", "admin"} => Read = Batch
  /\ at = "details" => Read = Batch \o PutBytes(op.summary)
  /\ at \in {"line", "payload"} => Read = Batch \o Opening
  /\ at = "signature" => Read = Batch \o tx.admin
  /\ at \in {"finish", "ok"} => Read = Batch \o tx.admin \o tx.signature
  /\ at = "ok" => pos = Len(buf)
\* Each piece of it is bytes.
LEMMA PiecesBytes ==
  ASSUME CodecAssumption, HeldInv
  PROVE  /\ tx.server \in Seq(Byte) /\ tx.nonce \in Seq(Byte)
         /\ tx.admin \in Seq(Byte) /\ tx.signature \in Seq(Byte)
         /\ PutBytes(op.summary) \in Seq(Byte) /\ Be(Len(op.detail) + lines) \in Seq(Byte)
         /\ Each(PutBytes, op.detail) \in Seq(Byte)
         /\ Each(EncodeOp, tx.ops) \in Seq(Byte)
         /\ Batch \in Seq(Byte) /\ Opening \in Seq(Byte)
<1>1. /\ tx.server \in Seq(Byte) /\ tx.nonce \in Seq(Byte)
      /\ tx.admin \in Seq(Byte) /\ tx.signature \in Seq(Byte)
      /\ tx.ops \in Seq(Operations) /\ op.summary \in Seq(Byte) /\ op.detail \in Seq(Seq(Byte))
  BY TextBytes DEF HeldInv, Partial
<1>2. Width \in Nat /\ Len(tx.ops) + left \in Nat /\ Len(op.detail) + lines \in Nat
  <2>1. Width \in Nat /\ left \in Nat /\ lines \in Nat
    BY DEF CodecAssumption, HeldInv, TypeOK
  <2>2. Len(tx.ops) \in Nat /\ Len(op.detail) \in Nat
    BY <1>1, LenProperties
  <2> QED
    BY <2>1, <2>2
<1>3. Be(Len(tx.ops) + left) \in Seq(Byte) /\ Be(Len(op.detail) + lines) \in Seq(Byte)
  BY <1>2, BeBytes, IsSeq DEF Array
<1>4. [summary |-> <<>>, detail |-> <<>>, payload |-> <<>>] \in Operations
  BY EmptySeq DEF Operations, Text
<1>5. Each(EncodeOp, tx.ops) \in Seq(Byte)
  BY <1>1, <1>4, EachOperation
<1>6. PutBytes(op.summary) \in Seq(Byte) /\ Each(PutBytes, op.detail) \in Seq(Byte)
  BY <1>1, PutBytesBytes, EachLine
<1>7. Batch \in Seq(Byte)
  BY <1>1, <1>3, <1>5, Associative DEF Batch
<1>8. Opening \in Seq(Byte)
  BY <1>3, <1>6, Associative DEF Opening
<1> QED
  BY <1>1, <1>3, <1>5, <1>6, <1>7, <1>8

\* Nothing has been read, and nothing is its encoding.
LEMMA CanonInit == CodecAssumption /\ Init => CanonInv
BY SubSeqEmpty DEF Init, CanonInv, Read

\* Every read appends to the encoding of what is held the bytes it took.
LEMMA CanonStep ==
  ASSUME CodecAssumption, HeldInv, CanonInv, [Next]_vars
  PROVE  CanonInv'
<1>1. /\ Width \in Nat /\ KeyLen \in Nat /\ SigLen \in Nat /\ Inside
      /\ MAX_OPS \in Nat /\ MAX_DETAIL \in Nat /\ MAX_STR \in Nat /\ MAX_PAYLOAD \in Nat
  BY DEF CodecAssumption, HeldInv
<1>2. /\ tx.server \in Seq(Byte) /\ tx.nonce \in Seq(Byte) /\ tx.admin \in Seq(Byte)
      /\ PutBytes(op.summary) \in Seq(Byte) /\ Be(Len(op.detail) + lines) \in Seq(Byte)
      /\ Each(PutBytes, op.detail) \in Seq(Byte) /\ Each(EncodeOp, tx.ops) \in Seq(Byte)
      /\ Batch \in Seq(Byte) /\ Opening \in Seq(Byte)
  BY PiecesBytes
<1>3. /\ tx \in Partial /\ tx.ops \in Seq(Operations) /\ Len(tx.ops) \in Nat /\ left \in Nat
      /\ op.summary \in Text /\ op.detail \in Seq(Text) /\ Len(op.detail) \in Nat
      /\ lines \in Nat /\ op \in [summary : Text, detail : Seq(Text)]
  BY LenProperties DEF HeldInv, TypeOK, Partial
<1>4. ASSUME NEW f \in {"server", "nonce", "admin", "signature"}, NEW n \in Nat, NEW to,
             Take(n), ReadArray(f, n, to)
      PROVE  /\ at = f /\ at' = to /\ Slice(n) \in Seq(Byte) /\ Read' = Read \o Slice(n)
             /\ tx' = [tx EXCEPT ![f] = Slice(n)] /\ UNCHANGED <<left, lines, op>>
  <2>1. at = f /\ at' = to /\ pos' = pos + n /\ buf' = buf
        /\ tx' = [tx EXCEPT ![f] = Slice(n)] /\ UNCHANGED <<left, lines, op>>
    BY <1>4 DEF ReadArray, Go
  <2>2. Slice(n) \in Seq(Byte) /\ SubSeq(buf, 1, pos + n) = Read \o Slice(n)
    BY <1>1, <1>4, TakeReads, IsSeq DEF Array
  <2>3. Read' = SubSeq(buf', 1, pos')
    BY DEF Read
  <2> QED
    BY <2>1, <2>2, <2>3
<1>5. CASE ReadArray("server", KeyLen, "nonce")
  <2>1. Take(KeyLen)
    BY <1>5, AcceptedRead DEF ReadArray
  <2>2. /\ at = "server" /\ at' = "nonce" /\ Slice(KeyLen) \in Seq(Byte)
        /\ Read' = Read \o Slice(KeyLen) /\ tx' = [tx EXCEPT !["server"] = Slice(KeyLen)]
    BY <1>1, <1>4, <1>5, <2>1
  <2>3. tx'.server = Slice(KeyLen) /\ Read = <<>>
    BY <1>3, <2>2 DEF CanonInv, Partial
  <2>4. Read' = tx'.server
    BY <2>2, <2>3, ConcatEmptySeq
  <2> QED
    BY <2>2, <2>4 DEF CanonInv
<1>6. CASE ReadArray("nonce", KeyLen, "ops")
  <2>1. Take(KeyLen)
    BY <1>6, AcceptedRead DEF ReadArray
  <2>2. /\ at = "nonce" /\ at' = "ops"
        /\ Read' = Read \o Slice(KeyLen) /\ tx' = [tx EXCEPT !["nonce"] = Slice(KeyLen)]
    BY <1>1, <1>4, <1>6, <2>1
  <2>3. tx'.nonce = Slice(KeyLen) /\ tx'.server = tx.server /\ Read = tx.server
    BY <1>3, <2>2 DEF CanonInv, Partial
  <2> QED
    BY <2>2, <2>3 DEF CanonInv
<1>7. CASE ReadArray("admin", KeyLen, "signature")
  <2>1. Take(KeyLen)
    BY <1>7, AcceptedRead DEF ReadArray
  <2>2. /\ at = "admin" /\ at' = "signature" /\ Read' = Read \o Slice(KeyLen)
        /\ tx' = [tx EXCEPT !["admin"] = Slice(KeyLen)] /\ left' = left
    BY <1>1, <1>4, <1>7, <2>1
  <2>3. /\ tx'.admin = Slice(KeyLen) /\ tx'.server = tx.server /\ tx'.nonce = tx.nonce
        /\ tx'.ops = tx.ops
    BY <1>3, <2>2 DEF Partial
  <2>4. Batch' = Batch /\ Read = Batch
    BY <2>2, <2>3 DEF Batch, CanonInv
  <2> QED
    BY <2>2, <2>3, <2>4 DEF CanonInv
<1>8. CASE ReadArray("signature", SigLen, "finish")
  <2>1. Take(SigLen)
    BY <1>8, AcceptedRead DEF ReadArray
  <2>2. /\ at = "signature" /\ at' = "finish" /\ Read' = Read \o Slice(SigLen)
        /\ tx' = [tx EXCEPT !["signature"] = Slice(SigLen)] /\ left' = left
    BY <1>1, <1>4, <1>8, <2>1
  <2>3. /\ tx'.signature = Slice(SigLen) /\ tx'.server = tx.server /\ tx'.nonce = tx.nonce
        /\ tx'.ops = tx.ops /\ tx'.admin = tx.admin
    BY <1>3, <2>2 DEF Partial
  <2>4. Batch' = Batch /\ Read = Batch \o tx.admin
    BY <2>2, <2>3 DEF Batch, CanonInv
  <2> QED
    BY <2>2, <2>3, <2>4 DEF CanonInv
<1>9. CASE ReadOps
  <2>1. Take(Width)
    BY <1>9, AcceptedRead DEF ReadOps, Count
  <2>2. /\ at = "ops" /\ left' = U32 /\ pos' = pos + Width /\ buf' = buf /\ tx' = tx
        /\ at' \in {"admin", "summary"}
    BY <1>9 DEF ReadOps, Go
  <2>3. U32 \in Nat /\ Be(U32) \in Seq(Byte) /\ SubSeq(buf, 1, pos + Width) = Read \o Be(U32)
    BY <1>1, <2>1, U32Reads
  <2>4. Read' = tx.server \o tx.nonce \o Be(U32)
    BY <2>2, <2>3 DEF CanonInv, Read
  <2>5. tx.ops = <<>> /\ Len(tx.ops) + U32 = U32
    BY <2>2, <2>3 DEF HeldInv
  <2>6. Each(EncodeOp, tx.ops) = <<>>
    <3>1. [summary |-> <<>>, detail |-> <<>>, payload |-> <<>>] \in Operations
      BY EmptySeq DEF Operations, Text
    <3> QED
      BY <1>3, <2>5, <3>1, EachOperation
  <2>7. Batch' = tx.server \o tx.nonce \o Be(U32) \o <<>>
    BY <2>2, <2>5, <2>6 DEF Batch
  <2>8. tx.server \o tx.nonce \o Be(U32) \in Seq(Byte)
    BY <1>2, <2>3, Associative
  <2>9. Batch' = tx.server \o tx.nonce \o Be(U32)
    BY <2>7, <2>8, ConcatEmptySeq
  <2> QED
    BY <2>2, <2>4, <2>9 DEF CanonInv
<1>10. CASE ReadSummary
  <2>1. Bytes(MAX_STR)
    BY <1>1, <1>10, AcceptedRead, StringReads DEF ReadSummary
  <2>2. SubSeq(buf, 1, pos + (Width + U32)) = Read \o PutBytes(Field)
    BY <1>1, <2>1, BytesReads
  <2>3. /\ at = "summary" /\ at' = "details" /\ pos' = pos + (Width + U32) /\ buf' = buf
        /\ tx' = tx /\ left' = left /\ op' = [summary |-> Field, detail |-> <<>>]
    BY <1>10 DEF ReadSummary, Go
  <2>4. Batch' = Batch /\ Read = Batch /\ op'.summary = Field
    BY <2>3 DEF Batch, CanonInv
  <2>5. Read' = Batch \o PutBytes(Field)
    BY <2>2, <2>3, <2>4 DEF Read
  <2> QED
    BY <2>3, <2>4, <2>5 DEF CanonInv
<1>11. CASE ReadDetails
  <2>1. Take(Width)
    BY <1>11, AcceptedRead DEF ReadDetails, Count
  <2>2. /\ at = "details" /\ lines' = U32 /\ pos' = pos + Width /\ buf' = buf
        /\ tx' = tx /\ left' = left /\ op' = op /\ at' \in {"payload", "line"}
    BY <1>11 DEF ReadDetails, Go
  <2>3. U32 \in Nat /\ Be(U32) \in Seq(Byte) /\ SubSeq(buf, 1, pos + Width) = Read \o Be(U32)
    BY <1>1, <2>1, U32Reads
  <2>4. Read' = (Batch \o PutBytes(op.summary)) \o Be(U32) /\ Batch' = Batch
    <3>1. Read = Batch \o PutBytes(op.summary)
      BY <2>2 DEF CanonInv
    <3>2. Read' = SubSeq(buf, 1, pos + Width)
      BY <2>2 DEF Read
    <3>3. Batch' = Batch
      BY <2>2 DEF Batch
    <3> QED
      BY <2>3, <3>1, <3>2, <3>3
  <2>5. op.detail = <<>> /\ Len(op.detail) + U32 = U32
    <3>1. op.detail = <<>>
      BY <2>2 DEF HeldInv
    <3>2. Len(op.detail) = 0
      BY <3>1
    <3> QED
      BY <2>3, <3>1, <3>2
  <2>6. Each(PutBytes, op.detail) = <<>>
    <3>1. <<>> \in Seq(Byte) /\ <<>> \in Seq(Seq(Byte))
      BY EmptySeq
    <3> QED
      BY <2>5, <3>1, EachLine
  <2>7. Opening' = PutBytes(op.summary) \o Be(U32) \o <<>>
    BY <2>2, <2>5, <2>6 DEF Opening
  <2>8. Opening' = PutBytes(op.summary) \o Be(U32)
    <3>1. PutBytes(op.summary) \o Be(U32) \in Seq(Byte)
      BY <1>2, <2>3, Associative
    <3> QED
      BY <2>7, <3>1, ConcatEmptySeq
  <2>9. Read' = Batch' \o Opening'
    <3>1. (Batch \o PutBytes(op.summary)) \o Be(U32) = Batch \o (PutBytes(op.summary) \o Be(U32))
      <4> DEFINE a == PutBytes(op.summary)
                 b == Be(U32)
      <4>1. Batch \in Seq(Byte) /\ a \in Seq(Byte) /\ b \in Seq(Byte)
        BY <1>2, <2>3
      <4> HIDE DEF a, b
      <4>2. (Batch \o a) \o b = Batch \o (a \o b)
        BY <4>1, Associative
      <4> QED
        BY <4>2 DEF a, b
    <3> QED
      BY <2>4, <2>8, <3>1
  <2> QED
    BY <2>2, <2>9 DEF CanonInv
<1>12. CASE ReadLine
  <2>1. Bytes(MAX_STR) /\ Field \in Text
    BY <1>1, <1>12, AcceptedRead, StringReads DEF ReadLine
  <2>2. /\ SubSeq(buf, 1, pos + (Width + U32)) = Read \o PutBytes(Field)
        /\ Field \in Seq(Byte) /\ PutBytes(Field) \in Seq(Byte)
    BY <1>1, <2>1, BytesReads, PutBytesBytes
  <2>3. /\ at = "line" /\ at' \in {"payload", "line"} /\ lines' = lines - 1
        /\ pos' = pos + (Width + U32) /\ buf' = buf /\ tx' = tx /\ left' = left
        /\ op' = [op EXCEPT !.detail = Append(op.detail, Field)]
    BY <1>12 DEF ReadLine, Go
  <2>4. Read' = (Batch \o Opening) \o PutBytes(Field) /\ Batch' = Batch
    BY <2>2, <2>3 DEF CanonInv, Read, Batch
  <2>5. op'.summary = op.summary /\ op'.detail = Append(op.detail, Field)
    BY <1>3, <2>3
  <2>6. Len(op'.detail) + lines' = Len(op.detail) + lines
    <3>1. Len(op'.detail) = Len(op.detail) + 1
      BY <1>3, <2>1, <2>5, AppendProperties
    <3> QED
      BY <1>3, <2>3, <3>1
  <2>7. Each(PutBytes, op'.detail) = Each(PutBytes, op.detail) \o PutBytes(Field)
    <3>1. op.detail \in Seq(Seq(Byte))
      BY <1>3, TextBytes
    <3> QED
      BY <2>2, <2>5, <3>1, EachLine
  <2> DEFINE h == PutBytes(op.summary) \o Be(Len(op.detail) + lines)
             e == Each(PutBytes, op.detail)
  <2>8. Opening = h \o e /\ Opening' = h \o (e \o PutBytes(Field))
    BY <2>5, <2>6, <2>7 DEF Opening
  <2>9. h \in Seq(Byte) /\ e \in Seq(Byte)
    BY <1>2, Associative
  <2> HIDE DEF h, e
  <2>10. Opening' = Opening \o PutBytes(Field)
    <3>1. (h \o e) \o PutBytes(Field) = h \o (e \o PutBytes(Field))
      <4> DEFINE b == PutBytes(Field)
      <4>1. h \in Seq(Byte) /\ e \in Seq(Byte) /\ b \in Seq(Byte)
        BY <2>2, <2>9
      <4> HIDE DEF b
      <4>2. (h \o e) \o b = h \o (e \o b)
        BY <4>1, Associative
      <4> QED
        BY <4>2 DEF b
    <3> QED
      BY <2>8, <3>1
  <2>11. Read' = Batch' \o Opening'
    <3>1. (Batch \o Opening) \o PutBytes(Field) = Batch \o (Opening \o PutBytes(Field))
      <4> DEFINE b == PutBytes(Field)
      <4>1. Batch \in Seq(Byte) /\ Opening \in Seq(Byte) /\ b \in Seq(Byte)
        BY <1>2, <2>2
      <4> HIDE DEF b
      <4>2. (Batch \o Opening) \o b = Batch \o (Opening \o b)
        BY <4>1, Associative
      <4> QED
        BY <4>2 DEF b
    <3> QED
      BY <2>4, <2>10, <3>1
  <2> QED
    BY <2>3, <2>11 DEF CanonInv
<1>13. CASE ReadPayload
  <2> DEFINE o == [summary |-> op.summary, detail |-> op.detail, payload |-> Field]
  <2>1. Bytes(MAX_PAYLOAD)
    BY <1>13, AcceptedRead DEF ReadPayload
  <2>2. /\ SubSeq(buf, 1, pos + (Width + U32)) = Read \o PutBytes(Field)
        /\ Field \in Seq(Byte) /\ PutBytes(Field) \in Seq(Byte)
    BY <1>1, <2>1, BytesReads, PutBytesBytes
  <2>3. /\ at = "payload" /\ at' \in {"admin", "summary"} /\ left' = left - 1
        /\ pos' = pos + (Width + U32) /\ buf' = buf
        /\ tx' = [tx EXCEPT !.ops = Append(tx.ops, o)]
    BY <1>13 DEF ReadPayload, Go
  <2>4. Read' = (Batch \o Opening) \o PutBytes(Field)
    BY <2>2, <2>3 DEF CanonInv, Read
  <2>5. lines = 0 /\ Len(op.detail) + lines = Len(op.detail)
    BY <1>3, <2>3 DEF HeldInv
  <2>6. EncodeOp(o) = Opening \o PutBytes(Field)
    BY <2>5 DEF EncodeOp, Opening
  <2>7. o \in Operations
    BY <1>3, <2>2 DEF Operations
  <2> HIDE DEF o
  <2>8. /\ tx'.server = tx.server /\ tx'.nonce = tx.nonce /\ tx'.ops = Append(tx.ops, o)
    BY <1>3, <2>3 DEF Partial
  <2>9. Len(tx'.ops) + left' = Len(tx.ops) + left
    <3>1. Len(tx'.ops) = Len(tx.ops) + 1
      BY <1>3, <2>7, <2>8, AppendProperties
    <3> QED
      BY <1>3, <2>3, <3>1
  <2>10. Each(EncodeOp, tx'.ops) = Each(EncodeOp, tx.ops) \o EncodeOp(o)
    BY <1>3, <2>7, <2>8, EachOperation
  <2> DEFINE h == tx.server \o tx.nonce \o Be(Len(tx.ops) + left)
             e == Each(EncodeOp, tx.ops)
  <2>11. Batch = h \o e /\ Batch' = h \o (e \o EncodeOp(o))
    BY <2>8, <2>9, <2>10 DEF Batch
  <2>12. h \in Seq(Byte) /\ e \in Seq(Byte) /\ EncodeOp(o) \in Seq(Byte)
    <3>1. Be(Len(tx.ops) + left) \in Seq(Byte)
      BY <1>1, <1>3, BeBytes, IsSeq DEF Array
    <3> QED
      BY <1>2, <2>7, <3>1, EncodeOpBytes, Associative
  <2> HIDE DEF h, e
  <2>13. Batch' = Batch \o EncodeOp(o)
    <3>1. (h \o e) \o EncodeOp(o) = h \o (e \o EncodeOp(o))
      BY <2>12, Associative
    <3> QED
      BY <2>11, <3>1
  <2>14. Read' = Batch'
    <3>1. (Batch \o Opening) \o PutBytes(Field) = Batch \o (Opening \o PutBytes(Field))
      <4> DEFINE b == PutBytes(Field)
      <4>1. Batch \in Seq(Byte) /\ Opening \in Seq(Byte) /\ b \in Seq(Byte)
        BY <1>2, <2>2
      <4> HIDE DEF b
      <4>2. (Batch \o Opening) \o b = Batch \o (Opening \o b)
        BY <4>1, Associative
      <4> QED
        BY <4>2 DEF b
    <3> QED
      BY <2>4, <2>6, <2>13, <3>1
  <2> QED
    BY <2>3, <2>14 DEF CanonInv
<1>14. CASE Finish \/ Refuse
  <2>1. /\ at' \in {"ok", "malformed"} /\ (at' = "ok" => at = "finish" /\ pos = Len(buf))
        /\ pos' = pos + 0 /\ buf' = buf /\ UNCHANGED <<left, lines, op, tx>>
    BY <1>14, AcceptedRead DEF Finish, Refuse, Go
  <2>2. pos' = pos
    BY <1>1, <2>1, LenProperties DEF Inside
  <2>3. Read' = Read /\ Batch' = Batch
    BY <2>1, <2>2 DEF Read, Batch
  <2> QED
    BY <2>1, <2>2, <2>3 DEF CanonInv
<1>15. CASE UNCHANGED vars
  BY <1>15 DEF vars, CanonInv, Read, Batch, Opening
<1> QED
  BY <1>5, <1>6, <1>7, <1>8, <1>9, <1>10, <1>11, <1>12, <1>13, <1>14, <1>15 DEF Next

\* tx.rs, encode, "exactly one representation": of all byte strings there are,
\* decode accepts for a transaction only the one that encode writes for it.
THEOREM OneRepresentation == Spec => []Canonical
<1>1. Init => CanonInv
  BY CanonInit, CodecAssumption
<1>2. HeldInv /\ CanonInv /\ [Next]_vars => CanonInv'
  BY CanonStep, CodecAssumption
<1>3. HeldInv /\ CanonInv => Canonical
  <2> SUFFICES ASSUME HeldInv, CanonInv, at = "ok" PROVE EncodeSigned(tx) = buf
    BY DEF Canonical
  <2>1. Read = Batch \o tx.admin \o tx.signature /\ pos = Len(buf)
    BY DEF CanonInv
  <2>2. left = 0 /\ Len(tx.ops) \in Nat
    BY LenProperties DEF HeldInv, Partial
  <2>3. Len(tx.ops) + left = Len(tx.ops)
    BY <2>2
  <2>4. Batch = Encode(tx)
    BY <2>3 DEF Batch, Encode
  <2>5. Read = buf
    BY <2>1, SubSeqFull DEF HeldInv, Inside, Read
  <2> QED
    BY <2>1, <2>4, <2>5 DEF EncodeSigned
<1> QED
  BY <1>1, <1>2, <1>3, HeldInvariance, PTL DEF Spec
=============================================================================
