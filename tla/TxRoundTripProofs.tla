-------------------------- MODULE TxRoundTripProofs --------------------------
(***************************************************************************)
(* What encode writes, decode reads: the Reader follows the transaction    *)
(* whose encoding its buffer is, as long as no length of it has wrapped.   *)
(***************************************************************************)
EXTENDS TxCodecProofs

\* No length or count of the transaction wraps as a u32.
Countable(s) ==
  /\ Len(s.ops) < U32Range
  /\ \A i \in DOMAIN s.ops :
       LET o == s.ops[i]
       IN  /\ Len(o.summary) < U32Range /\ Len(o.payload) < U32Range
           /\ Len(o.detail) < U32Range
           /\ \A n \in DOMAIN o.detail : Len(o.detail[n]) < U32Range

\* The operation of s that the Reader is at.
Current(s) == s.ops[Len(tx.ops) + 1]

\* What the Reader holds is what s has in the same place.
Tracks(s) ==
  /\ at \notin {"server", "malformed"} => tx.server = s.server
  /\ at \notin {"server", "nonce", "malformed"} => tx.nonce = s.nonce
  /\ at \notin {"server", "nonce", "ops", "malformed"} =>
       tx.ops = SubSeq(s.ops, 1, Len(tx.ops)) /\ Len(tx.ops) + left = Len(s.ops)
  /\ at \in {"details", "line", "payload"} => op.summary = Current(s).summary
  /\ at \in {"line", "payload"} =>
       LET d == Current(s).detail
       IN  op.detail = SubSeq(d, 1, Len(op.detail)) /\ Len(op.detail) + lines = Len(d)
  /\ at \in {"signature", "finish", "ok"} => tx.admin = s.admin
  /\ at \in {"finish", "ok"} => tx.signature = s.signature

\* A countable transaction is followed, and refused only beyond the bounds.
RoundTripInv ==
  \A s \in sent : /\ s \in Signed /\ buf = EncodeSigned(s)
                  /\ Countable(s) => Tracks(s)
                  /\ at = "malformed" => ~ InBounds(s)
-----------------------------------------------------------------------------
(* Numbers that a length can hold *)

\* U32Range is the Width-th power of the base.
LEMMA RangeSteps ==
  ASSUME CodecAssumption
  PROVE  \E p \in [0..Width -> Nat] :
           /\ p[0] = 1 /\ \A k \in 1..Width : p[k] = p[k - 1] * Base
           /\ U32Range = p[Width]
<1> DEFINE g == [k \in 1..Width |-> [x \in Nat |-> x * Base]]
           Fcn(f) == f = [k \in 0..Width |-> IF k = 0 THEN 1 ELSE f[k - 1] * Base]
           u == CHOOSE f : Fcn(f)
<1>1. Width \in Nat /\ Base \in Nat \ {0}
  BY DEF CodecAssumption
<1>2. g \in [1..Width -> [Nat -> Nat]]
  BY <1>1
<1>3. PICK p \in [0..Width -> Nat] : Iterates(p, 1, g, Width)
  <2> HIDE DEF g
  <2> QED
    BY <1>1, <1>2, IterationExists
<1>4. p[0] = 1 /\ \A k \in 1..Width : p[k] = p[k - 1] * Base
  <2>1. p[0] = 1 /\ \A k \in 1..Width : p[k] = g[k][p[k - 1]]
    BY <1>3 DEF Iterates
  <2>2. \A k \in 1..Width : p[k - 1] \in Nat
    BY <1>1
  <2> QED
    BY <2>1, <2>2
<1>5. Fcn(p)
  BY <1>1, <1>4
<1>6. Fcn(u)
  <2> HIDE DEF Fcn
  <2> QED
    BY <1>5
<1> HIDE DEF u
<1>7. \A k \in 0..Width : u[k] = p[k]
  <2> DEFINE P == {k \in 0..Width : u[k] = p[k]}
  <2>1. \A k \in 0..Width : u[k] = IF k = 0 THEN 1 ELSE u[k - 1] * Base
    BY <1>6
  <2>2. 0 \in P
    BY <1>1, <1>4, <2>1
  <2>3. ASSUME NEW k \in 1..Width, k - 1 \in P
        PROVE  k \in P
    <3>1. k \in 0..Width /\ k # 0 /\ u[k - 1] = p[k - 1]
      BY <1>1, <2>3
    <3> QED
      BY <1>4, <2>1, <3>1
  <2>4. \A k \in 0..Width : k \in P
    <3> HIDE DEF P
    <3> QED
      BY <1>1, <2>2, <2>3, UpTo
  <2> QED
    BY <2>4
<1>8. U32Range = u[Width]
  BY DEF U32Range, u
<1>9. U32Range = p[Width]
  BY <1>1, <1>7, <1>8
<1> HIDE DEF Fcn, g
<1> QED
  BY <1>4, <1>9

\* Quotient and remainder make up the number again.
LEMMA Recompose ==
  ASSUME NEW B \in Nat \ {0}, NEW x \in Nat
  PROVE  (x \div B) * B + (x % B) = x
<1> DEFINE d == x \div B
           m == x % B
<1>1. d \in Int /\ m \in Int /\ x = B * d + m
  OBVIOUS
<1> HIDE DEF d, m
<1>2. d * B + m = x
  BY <1>1
<1> QED
  BY <1>2 DEF d, m

\* Division by the base makes room for one digit less.
LEMMA OneDigitLess ==
  ASSUME NEW B \in Nat \ {0}, NEW x \in Nat, NEW y \in Nat, x < y * B
  PROVE  x \div B < y
<1> DEFINE d == x \div B
           m == x % B
<1>1. d \in Int /\ m \in 0..(B - 1) /\ x = B * d + m
  OBVIOUS
<1> HIDE DEF d, m
<1>2. d < y
  <2> SUFFICES ASSUME d >= y PROVE FALSE
    BY <1>1
  <2> DEFINE e == d - y
  <2>1. e \in Nat /\ d = y + e
    BY <1>1
  <2> HIDE DEF e
  <2>2. B * (y + e) = y * B + B * e /\ B * e \in Nat /\ y * B \in Nat
    BY <2>1
  <2>3. x = y * B + B * e + m
    BY <1>1, <2>1, <2>2
  <2> QED
    BY <1>1, <2>2, <2>3
<1> QED
  BY <1>2 DEF d

\* A number below the range is read back from its bytes.
LEMMA NumberOfBe ==
  ASSUME CodecAssumption, NEW n \in Nat, n < U32Range
  PROVE  Number(Be(n)) = n
<1>1. Width \in Nat /\ Base \in Nat \ {0}
  BY DEF CodecAssumption
<1>2. PICK p \in [0..Width -> Nat] :
        /\ p[0] = 1 /\ \A k \in 1..Width : p[k] = p[k - 1] * Base
        /\ U32Range = p[Width]
  BY RangeSteps
<1>3. PICK q \in [0..Width -> Nat] :
        /\ q[0] = n /\ \A k \in 1..Width : q[k] = q[k - 1] \div Base
        /\ Be(n) = [i \in 1..Width |-> q[Width - i] % Base]
  BY BeDigits
<1>4. PICK v \in [0..Width -> Nat] :
        /\ v[0] = 0 /\ \A i \in 1..Width : v[i] = v[i - 1] * Base + Be(n)[i]
        /\ Number(Be(n)) = v[Width]
  BY BeBytes, NumberDigits
<1>5. \A k \in 0..Width : q[k] < p[Width - k]
  <2> DEFINE P == {k \in 0..Width : q[k] < p[Width - k]}
  <2>1. 0 \in P
    BY <1>1, <1>2, <1>3
  <2>2. ASSUME NEW k \in 1..Width, k - 1 \in P
        PROVE  k \in P
    <3>1. /\ k \in 0..Width /\ k - 1 \in 0..Width /\ Width - (k - 1) \in 1..Width
          /\ Width - (k - 1) - 1 = Width - k /\ Width - k \in 0..Width
      BY <1>1
    <3>2. p[Width - (k - 1)] = p[Width - k] * Base
      BY <1>2, <3>1
    <3>3. q[k - 1] < p[Width - k] * Base /\ q[k - 1] \in Nat /\ p[Width - k] \in Nat
      BY <2>2, <3>1, <3>2
    <3>4. q[k - 1] \div Base < p[Width - k]
      BY <1>1, <3>3, OneDigitLess
    <3> QED
      BY <1>3, <3>1, <3>4
  <2>3. \A k \in 0..Width : k \in P
    <3> HIDE DEF P
    <3> QED
      BY <1>1, <2>1, <2>2, UpTo
  <2> QED
    BY <2>3
<1>6. q[Width] = 0
  <2>1. Width \in 0..Width /\ Width - Width = 0
    BY <1>1
  <2>2. q[Width] < 1 /\ q[Width] \in Nat
    BY <1>2, <1>5, <2>1
  <2> QED
    BY <2>2
<1>7. \A i \in 0..Width : v[i] = q[Width - i]
  <2> DEFINE P == {i \in 0..Width : v[i] = q[Width - i]}
  <2>1. 0 \in P
    BY <1>1, <1>4, <1>6
  <2>2. ASSUME NEW i \in 1..Width, i - 1 \in P
        PROVE  i \in P
    <3>1. /\ i \in 0..Width /\ Width - (i - 1) \in 1..Width
          /\ Width - (i - 1) - 1 = Width - i /\ Width - i \in 0..Width
      BY <1>1
    <3> DEFINE x == q[Width - i]
    <3>2. v[i - 1] = x \div Base
      BY <1>3, <2>2, <3>1
    <3>3. v[i] = v[i - 1] * Base + (x % Base)
      BY <1>3, <1>4
    <3>4. (x \div Base) * Base + (x % Base) = x
      <4>1. x \in Nat
        BY <3>1
      <4> HIDE DEF x
      <4> QED
        BY <1>1, <4>1, Recompose
    <3>5. v[i] = x
      <4>1. v[i] = (x \div Base) * Base + (x % Base)
        BY <3>2, <3>3, Zenon
      <4> QED
        BY <3>4, <4>1, Zenon
    <3> QED
      BY <3>1, <3>5
  <2>3. \A i \in 0..Width : i \in P
    <3> HIDE DEF P
    <3> QED
      BY <1>1, <2>1, <2>2, UpTo
  <2> QED
    BY <2>3
<1>8. v[Width] = q[0]
  BY <1>1, <1>7
<1> QED
  BY <1>3, <1>4, <1>8
-----------------------------------------------------------------------------
(* Prefixes *)

\* A prefix of some bytes is followed by the rest of them.
LEMMA PrefixIs ==
  ASSUME NEW a \in Seq(Byte), NEW b \in Seq(Byte)
  PROVE  IsPrefix(a, b) <=> \E r \in Seq(Byte) : b = a \o r
<1>1. Len(a) \in Nat /\ Len(b) \in Nat
  BY LenProperties
<1>2. ASSUME IsPrefix(a, b)
      PROVE  \E r \in Seq(Byte) : b = a \o r
  <2>1. Len(a) <= Len(b) /\ SubSeq(a, 1, Len(a)) = SubSeq(b, 1, Len(a))
    BY <1>2 DEF IsPrefix
  <2>2. SubSeq(a, 1, Len(a)) = a /\ SubSeq(b, 1, Len(b)) = b
    BY SubSeqFull
  <2> DEFINE r == SubSeq(b, Len(a) + 1, Len(b))
  <2>3. r \in Seq(Byte)
    <3>1. /\ Len(a) + 1 \in Int /\ Len(b) \in Int
          /\ \A i \in (Len(a) + 1)..Len(b) : b[i] \in Byte
      BY <1>1, ElementOfSeq
    <3> QED
      BY <3>1, SubSeqProperties
  <2>4. SubSeq(b, 1, Len(a)) \o r = SubSeq(b, 1, Len(b))
    <3>1. /\ 1 \in 1..(Len(b) + 1) /\ Len(a) \in (1 - 1)..Len(b)
          /\ Len(b) \in Len(a)..Len(b)
      BY <1>1, <2>1
    <3> QED
      BY <3>1, ConcatAdjacentSubSeq
  <2> HIDE DEF r
  <2> QED
    BY <2>1, <2>2, <2>3, <2>4
<1>3. ASSUME NEW r \in Seq(Byte), b = a \o r
      PROVE  IsPrefix(a, b)
  <2>1. /\ Len(b) = Len(a) + Len(r) /\ Len(r) \in Nat
        /\ \A i \in 1..Len(a) : b[i] = a[i]
    BY <1>3, ConcatProperties, LenProperties
  <2>2. SubSeq(a, 1, Len(a)) = SubSeq(b, 1, Len(a))
    <3>1. \A i \in 1..Len(a) : a[i] \in Byte /\ b[i] \in Byte
      BY <2>1, ElementOfSeq
    <3>2. /\ SubSeq(a, 1, Len(a)) \in Seq(Byte) /\ SubSeq(b, 1, Len(a)) \in Seq(Byte)
          /\ Len(SubSeq(a, 1, Len(a))) = IF 1 <= Len(a) THEN Len(a) - 1 + 1 ELSE 0
          /\ Len(SubSeq(b, 1, Len(a))) = IF 1 <= Len(a) THEN Len(a) - 1 + 1 ELSE 0
          /\ \A i \in 1..(Len(a) - 1 + 1) : SubSeq(a, 1, Len(a))[i] = a[1 + i - 1]
          /\ \A i \in 1..(Len(a) - 1 + 1) : SubSeq(b, 1, Len(a))[i] = b[1 + i - 1]
      BY <1>1, <3>1, SubSeqProperties
    <3>3. /\ Len(SubSeq(a, 1, Len(a))) = Len(a) /\ Len(SubSeq(b, 1, Len(a))) = Len(a)
          /\ \A i \in 1..Len(a) : SubSeq(a, 1, Len(a))[i] = SubSeq(b, 1, Len(a))[i]
      BY <1>1, <2>1, <3>2
    <3> QED
      BY <3>2, <3>3, SeqEqual
  <2> QED
    BY <1>1, <2>1, <2>2 DEF IsPrefix
<1> QED
  BY <1>2, <1>3

\* Bytes are a prefix of whatever they are continued to.
LEMMA PrefixOfConcat ==
  \A a, r \in Seq(Byte) : a \o r \in Seq(Byte) /\ IsPrefix(a, a \o r)
BY PrefixIs, ConcatProperties

\* A prefix of a prefix is a prefix.
LEMMA PrefixTransitive ==
  \A a, b, c \in Seq(Byte) : IsPrefix(a, b) /\ IsPrefix(b, c) => IsPrefix(a, c)
<1> SUFFICES ASSUME NEW a \in Seq(Byte), NEW b \in Seq(Byte), NEW c \in Seq(Byte),
                    IsPrefix(a, b), IsPrefix(b, c)
             PROVE  IsPrefix(a, c)
  OBVIOUS
<1>1. PICK r \in Seq(Byte) : b = a \o r
  BY PrefixIs
<1>2. PICK t \in Seq(Byte) : c = b \o t
  BY PrefixIs
<1>3. (a \o r) \o t = a \o (r \o t) /\ r \o t \in Seq(Byte)
  BY Associative
<1> QED
  BY <1>1, <1>2, <1>3, PrefixIs

\* What comes before both changes nothing.
LEMMA PrefixAfter ==
  \A p, a, b \in Seq(Byte) : IsPrefix(a, b) => IsPrefix(p \o a, p \o b)
<1> SUFFICES ASSUME NEW p \in Seq(Byte), NEW a \in Seq(Byte), NEW b \in Seq(Byte),
                    IsPrefix(a, b)
             PROVE  IsPrefix(p \o a, p \o b)
  OBVIOUS
<1>1. PICK r \in Seq(Byte) : b = a \o r
  BY PrefixIs
<1>2. p \o b = (p \o a) \o r /\ p \o a \in Seq(Byte) /\ p \o b \in Seq(Byte)
  BY <1>1, Associative
<1> QED
  BY <1>2, PrefixIs

\* Pieces put one after the other: up to each piece it is a prefix, and with
\* pieces that are not empty no shorter than their number.
LEMMA PrefixOfChain ==
  ASSUME NEW n \in Nat, NEW w \in [0..n -> Seq(Byte)], NEW e \in [1..n -> Seq(Byte)],
         \A i \in 1..n : w[i] = w[i - 1] \o e[i]
  PROVE  /\ \A k \in 1..n : IsPrefix(w[k - 1] \o e[k], w[n])
         /\ (\A i \in 1..n : Len(e[i]) >= 1) => Len(w[n]) >= n
<1>1. ASSUME NEW k \in 1..n
      PROVE  IsPrefix(w[k - 1] \o e[k], w[n])
  <2> DEFINE P == {i \in 0..n : i >= k => IsPrefix(w[k], w[i])}
  <2>1. 0 \in P
    OBVIOUS
  <2>2. ASSUME NEW i \in 1..n, i - 1 \in P
        PROVE  i \in P
    <3> SUFFICES ASSUME i >= k PROVE IsPrefix(w[k], w[i])
      OBVIOUS
    <3>1. w[k] \in Seq(Byte) /\ w[i] \in Seq(Byte) /\ w[i - 1] \in Seq(Byte) /\ e[i] \in Seq(Byte)
      OBVIOUS
    <3>2. CASE i = k
      <4>1. <<>> \in Seq(Byte) /\ w[k] \o <<>> = w[k]
        BY <3>1, EmptySeq, ConcatEmptySeq
      <4> QED
        BY <3>1, <3>2, <4>1, PrefixIs
    <3>3. CASE i > k
      <4>1. IsPrefix(w[k], w[i - 1])
        BY <2>2, <3>3
      <4>2. IsPrefix(w[i - 1], w[i])
        BY <3>1, PrefixOfConcat
      <4> QED
        BY <3>1, <4>1, <4>2, PrefixTransitive
    <3> QED
      BY <3>2, <3>3
  <2>3. \A i \in 0..n : i \in P
    <3> HIDE DEF P
    <3> QED
      BY <2>1, <2>2, UpTo
  <2>4. n \in 0..n /\ n >= k
    OBVIOUS
  <2> QED
    BY <2>3, <2>4
<1>2. ASSUME \A i \in 1..n : Len(e[i]) >= 1
      PROVE  Len(w[n]) >= n
  <2> DEFINE P == {i \in 0..n : Len(w[i]) >= i}
  <2>1. 0 \in P
    BY LenProperties
  <2>2. ASSUME NEW i \in 1..n, i - 1 \in P
        PROVE  i \in P
    <3>1. w[i - 1] \in Seq(Byte) /\ e[i] \in Seq(Byte) /\ w[i] = w[i - 1] \o e[i]
      OBVIOUS
    <3>2. Len(w[i]) = Len(w[i - 1]) + Len(e[i]) /\ Len(w[i - 1]) \in Nat /\ Len(e[i]) \in Nat
      BY <3>1, ConcatProperties, LenProperties
    <3>3. Len(e[i]) >= 1 /\ Len(w[i - 1]) >= i - 1
      BY <1>2, <2>2
    <3>4. Len(w[i]) >= i
      BY <3>2, <3>3
    <3> QED
      BY <3>4
  <2>3. \A i \in 0..n : i \in P
    <3> HIDE DEF P
    <3> QED
      BY <2>1, <2>2, UpTo
  <2>4. n \in 0..n
    OBVIOUS
  <2> QED
    BY <2>3, <2>4
<1> QED
  BY <1>1, <1>2
-----------------------------------------------------------------------------
(* The parts of an encoding *)

\* One element more of a sequence.
LEMMA OneMore ==
  ASSUME NEW S, NEW s \in Seq(S), NEW i \in 1..Len(s)
  PROVE  /\ s[i] \in S /\ SubSeq(s, 1, i - 1) \in Seq(S) /\ Len(SubSeq(s, 1, i - 1)) = i - 1
         /\ SubSeq(s, 1, i) = Append(SubSeq(s, 1, i - 1), s[i])
<1>1. Len(s) \in Nat /\ s[i] \in S /\ \A j \in 1..Len(s) : s[j] \in S
  BY LenProperties, ElementOfSeq
<1>2. SubSeq(s, 1, i - 1) \in Seq(S) /\ Len(SubSeq(s, 1, i - 1)) = i - 1
  <2>1. 1 \in Int /\ i - 1 \in Int /\ \A j \in 1..(i - 1) : s[j] \in S
    BY <1>1
  <2>2. /\ SubSeq(s, 1, i - 1) \in Seq(S)
        /\ Len(SubSeq(s, 1, i - 1)) = IF 1 <= i - 1 THEN (i - 1) - 1 + 1 ELSE 0
    BY <2>1, SubSeqProperties
  <2> QED
    BY <1>1, <2>2
<1>3. SubSeq(s, 1, i) = SubSeq(s, 1, i - 1) \o <<s[i]>>
  <2>1. 1 \in 1..Len(s) /\ i \in 1..Len(s)
    BY <1>1
  <2> QED
    BY <2>1, SubSeqRecursiveSecond
<1>4. Append(SubSeq(s, 1, i - 1), s[i]) = SubSeq(s, 1, i - 1) \o <<s[i]>>
  BY <1>1, <1>2, AppendIsConcat
<1> QED
  BY <1>1, <1>2, <1>3, <1>4

\* put_bytes writes the length and the bytes.
LEMMA PutBytesLength ==
  ASSUME CodecAssumption, NEW b \in Seq(Byte)
  PROVE  /\ Len(Be(Len(b))) = Width /\ Len(b) \in Nat
         /\ Len(PutBytes(b)) = Width + Len(b)
<1>1. Len(b) \in Nat /\ Width \in Nat
  BY LenProperties DEF CodecAssumption
<1>2. Be(Len(b)) \in Seq(Byte) /\ Len(Be(Len(b))) = Width
  BY <1>1, BeBytes, IsSeq DEF Array
<1> QED
  BY <1>1, <1>2, ConcatProperties DEF PutBytes

\* The lines of an operation, up to each of them.
LEMMA LinesPart ==
  ASSUME CodecAssumption, NEW s \in Seq(Seq(Byte))
  PROVE  /\ \A k \in 1..Len(s) : /\ Each(PutBytes, SubSeq(s, 1, k - 1)) \in Seq(Byte)
                                 /\ IsPrefix(Each(PutBytes, SubSeq(s, 1, k - 1)) \o PutBytes(s[k]),
                                             Each(PutBytes, s))
         /\ Len(Each(PutBytes, s)) >= Len(s)
<1> DEFINE n == Len(s)
           w == [i \in 0..n |-> Each(PutBytes, SubSeq(s, 1, i))]
           e == [i \in 1..n |-> PutBytes(s[i])]
<1>1. n \in Nat /\ SubSeq(s, 1, 0) = <<>> /\ SubSeq(s, 1, n) = s /\ Width \in Nat \ {0}
  BY LenProperties, SubSeqEmpty, SubSeqFull DEF CodecAssumption
<1>2. \A i \in 1..n : /\ s[i] \in Seq(Byte) /\ SubSeq(s, 1, i - 1) \in Seq(Seq(Byte))
                      /\ SubSeq(s, 1, i) = Append(SubSeq(s, 1, i - 1), s[i])
  BY OneMore
<1>3. \A i \in 1..n : /\ Each(PutBytes, SubSeq(s, 1, i - 1)) \in Seq(Byte)
                      /\ Each(PutBytes, SubSeq(s, 1, i))
                           = Each(PutBytes, SubSeq(s, 1, i - 1)) \o PutBytes(s[i])
                      /\ PutBytes(s[i]) \in Seq(Byte) /\ Len(PutBytes(s[i])) >= 1
  <2> SUFFICES ASSUME NEW i \in 1..n
               PROVE  /\ Each(PutBytes, SubSeq(s, 1, i - 1)) \in Seq(Byte)
                      /\ Each(PutBytes, SubSeq(s, 1, i))
                           = Each(PutBytes, SubSeq(s, 1, i - 1)) \o PutBytes(s[i])
                      /\ PutBytes(s[i]) \in Seq(Byte) /\ Len(PutBytes(s[i])) >= 1
    OBVIOUS
  <2>1. PutBytes(s[i]) \in Seq(Byte) /\ Len(PutBytes(s[i])) = Width + Len(s[i])
        /\ Len(s[i]) \in Nat
    BY <1>2, PutBytesBytes, PutBytesLength
  <2>2. Len(PutBytes(s[i])) >= 1
    BY <1>1, <2>1
  <2> QED
    BY <1>2, <2>1, <2>2, EachLine
<1>4. Each(PutBytes, s) \in Seq(Byte)
  <2>1. <<>> \in Seq(Byte)
    BY EmptySeq
  <2> QED
    BY <2>1, EachLine
<1>5. \A i \in 0..n : Each(PutBytes, SubSeq(s, 1, i)) \in Seq(Byte)
  <2> SUFFICES ASSUME NEW i \in 0..n PROVE Each(PutBytes, SubSeq(s, 1, i)) \in Seq(Byte)
    OBVIOUS
  <2>1. CASE i = n
    BY <1>1, <1>4, <2>1
  <2>2. CASE i # n
    <3>0. n \in Nat
      BY <1>1
    <3>1. i + 1 \in 1..n /\ (i + 1) - 1 = i
      <4> HIDE DEF n
      <4> QED
        BY <2>2, <3>0
    <3>2. Each(PutBytes, SubSeq(s, 1, (i + 1) - 1)) \in Seq(Byte)
      BY <1>3, <3>1
    <3> QED
      BY <3>1, <3>2
  <2> QED
    BY <2>1, <2>2
<1>6. w \in [0..n -> Seq(Byte)] /\ e \in [1..n -> Seq(Byte)]
  BY <1>3, <1>5
<1>7. \A i \in 1..n : /\ w[i] = w[i - 1] \o e[i] /\ Len(e[i]) >= 1
                      /\ w[i - 1] = Each(PutBytes, SubSeq(s, 1, i - 1))
                      /\ e[i] = PutBytes(s[i])
  <2>1. \A i \in 1..n : i \in 0..n /\ i - 1 \in 0..n
    BY <1>1
  <2> QED
    BY <1>3, <2>1
<1>8. w[n] = Each(PutBytes, s)
  <2>1. n \in 0..n
    BY <1>1
  <2> QED
    BY <1>1, <2>1
<1>9. /\ \A k \in 1..n : IsPrefix(w[k - 1] \o e[k], w[n])
      /\ Len(w[n]) >= n
  <2> HIDE DEF w, e, n
  <2> QED
    BY <1>1, <1>6, <1>7, PrefixOfChain
<1> QED
  BY <1>3, <1>7, <1>8, <1>9

\* The parts of an operation: its summary, the number of its lines, each line,
\* its payload.
LEMMA OperationParts ==
  ASSUME CodecAssumption, NEW o \in Operations
  PROVE  LET h == PutBytes(o.summary) \o Be(Len(o.detail))
         IN  /\ h \in Seq(Byte)
             /\ IsPrefix(PutBytes(o.summary), EncodeOp(o)) /\ IsPrefix(h, EncodeOp(o))
             /\ \A k \in 1..Len(o.detail) :
                  /\ h \o Each(PutBytes, SubSeq(o.detail, 1, k - 1)) \in Seq(Byte)
                  /\ IsPrefix((h \o Each(PutBytes, SubSeq(o.detail, 1, k - 1)))
                                \o PutBytes(o.detail[k]), EncodeOp(o))
<1> DEFINE b == Be(Len(o.detail))
           h == PutBytes(o.summary) \o b
           e == Each(PutBytes, o.detail)
           z == PutBytes(o.payload)
<1>1. o.summary \in Seq(Byte) /\ o.detail \in Seq(Seq(Byte)) /\ o.payload \in Seq(Byte)
  BY TextBytes DEF Operations
<1>2. b \in Seq(Byte)
  <2>1. Width \in Nat /\ Len(o.detail) \in Nat
    BY <1>1, LenProperties DEF CodecAssumption
  <2> QED
    BY <2>1, BeBytes, IsSeq DEF Array
<1>3. PutBytes(o.summary) \in Seq(Byte) /\ e \in Seq(Byte) /\ z \in Seq(Byte)
  BY <1>1, PutBytesBytes, EachLine
<1>4. EncodeOp(o) = (h \o e) \o z
  BY DEF EncodeOp
<1>5. h \in Seq(Byte) /\ IsPrefix(PutBytes(o.summary), h)
  BY <1>2, <1>3, PrefixOfConcat
<1>6. \A k \in 1..Len(o.detail) :
        /\ Each(PutBytes, SubSeq(o.detail, 1, k - 1)) \in Seq(Byte)
        /\ PutBytes(o.detail[k]) \in Seq(Byte)
        /\ IsPrefix(Each(PutBytes, SubSeq(o.detail, 1, k - 1)) \o PutBytes(o.detail[k]), e)
  BY <1>1, LinesPart, ElementOfSeq, PutBytesBytes
<1> HIDE DEF b, h, e, z
<1>7. /\ h \o e \in Seq(Byte) /\ IsPrefix(h, h \o e)
      /\ EncodeOp(o) \in Seq(Byte) /\ IsPrefix(h \o e, EncodeOp(o))
  BY <1>3, <1>4, <1>5, PrefixOfConcat
<1>8. IsPrefix(h, EncodeOp(o)) /\ IsPrefix(PutBytes(o.summary), EncodeOp(o))
  BY <1>3, <1>5, <1>7, PrefixTransitive
<1>9. ASSUME NEW k \in 1..Len(o.detail)
      PROVE  /\ h \o Each(PutBytes, SubSeq(o.detail, 1, k - 1)) \in Seq(Byte)
             /\ IsPrefix((h \o Each(PutBytes, SubSeq(o.detail, 1, k - 1)))
                           \o PutBytes(o.detail[k]), EncodeOp(o))
  <2> DEFINE x == Each(PutBytes, SubSeq(o.detail, 1, k - 1))
             y == PutBytes(o.detail[k])
  <2>1. x \in Seq(Byte) /\ y \in Seq(Byte) /\ IsPrefix(x \o y, e)
    BY <1>6
  <2> HIDE DEF x, y
  <2>2. x \o y \in Seq(Byte) /\ h \o x \in Seq(Byte) /\ h \o (x \o y) \in Seq(Byte)
        /\ (h \o x) \o y = h \o (x \o y)
    BY <1>5, <2>1, Associative
  <2>3. IsPrefix(h \o (x \o y), h \o e)
    BY <1>3, <1>5, <2>1, <2>2, PrefixAfter
  <2>4. IsPrefix((h \o x) \o y, EncodeOp(o))
    BY <1>7, <2>2, <2>3, PrefixTransitive
  <2> QED
    BY <2>2, <2>4 DEF x, y
<1> QED
  BY <1>5, <1>8, <1>9 DEF h, b

\* A part is no longer than the whole.
LEMMA PrefixLength ==
  \A p, a, b \in Seq(Byte) :
    IsPrefix(p \o a, b) => /\ Len(p) \in Nat /\ Len(a) \in Nat /\ Len(b) \in Nat
                           /\ Len(p) + Len(a) <= Len(b)
BY ConcatProperties, LenProperties DEF IsPrefix

\* Lengths add up.
LEMMA ConcatLength ==
  \A a, b \in Seq(Byte) : /\ a \o b \in Seq(Byte) /\ Len(a \o b) = Len(a) + Len(b)
                         /\ Len(a) \in Nat /\ Len(b) \in Nat
BY ConcatProperties, LenProperties

\* An operation takes more bytes than any of its fields has, and at least one.
LEMMA OperationLength ==
  ASSUME CodecAssumption, NEW o \in Operations
  PROVE  /\ Len(EncodeOp(o)) \in Nat /\ Len(EncodeOp(o)) >= 1
         /\ Len(o.summary) <= Len(EncodeOp(o)) /\ Len(o.payload) <= Len(EncodeOp(o))
         /\ Len(o.detail) <= Len(EncodeOp(o))
         /\ \A k \in 1..Len(o.detail) : Len(o.detail[k]) <= Len(EncodeOp(o))
<1> DEFINE q == PutBytes(o.summary)
           b == Be(Len(o.detail))
           h == q \o b
           e == Each(PutBytes, o.detail)
           z == PutBytes(o.payload)
           all == EncodeOp(o)
<1>1. o.summary \in Seq(Byte) /\ o.detail \in Seq(Seq(Byte)) /\ o.payload \in Seq(Byte)
  BY TextBytes DEF Operations
<1>2. /\ Width \in Nat \ {0} /\ Len(o.detail) \in Nat /\ Len(o.summary) \in Nat
      /\ Len(o.payload) \in Nat
  BY <1>1, LenProperties DEF CodecAssumption
<1>3. b \in Seq(Byte) /\ Len(b) = Width
  BY <1>2, BeBytes, IsSeq DEF Array
<1>4. /\ q \in Seq(Byte) /\ Len(q) = Width + Len(o.summary)
      /\ z \in Seq(Byte) /\ Len(z) = Width + Len(o.payload)
      /\ e \in Seq(Byte) /\ Len(e) >= Len(o.detail)
  BY <1>1, PutBytesBytes, PutBytesLength, EachLine, LinesPart
<1>5. all = (h \o e) \o z
  BY DEF EncodeOp
<1> HIDE DEF all
<1>6. h \in Seq(Byte) /\ Len(h) = Len(q) + Len(b)
  <2> HIDE DEF q, b
  <2> QED
    BY <1>3, <1>4, ConcatLength
<1> HIDE DEF q, b, h, e, z
<1>7. h \o e \in Seq(Byte) /\ Len(h \o e) = Len(h) + Len(e) /\ Len(e) \in Nat
  BY <1>4, <1>6, ConcatLength
<1>8. all \in Seq(Byte) /\ Len(all) = Len(h) + Len(e) + Len(z)
  <2>1. all \in Seq(Byte) /\ Len(all) = Len(h \o e) + Len(z)
    BY <1>4, <1>5, <1>7, ConcatLength
  <2> QED
    BY <1>7, <2>1, Zenon
<1>9. /\ Len(all) \in Nat /\ Len(all) >= 1
      /\ Len(o.summary) <= Len(all) /\ Len(o.payload) <= Len(all)
      /\ Len(o.detail) <= Len(all)
  <2>1. Len(h) = Width + Len(o.summary) + Width /\ Len(z) = Width + Len(o.payload)
        /\ Len(e) \in Nat /\ Len(e) >= Len(o.detail)
    BY <1>3, <1>4, <1>6, <1>7
  <2> DEFINE m == Len(o.summary)
             n == Len(o.payload)
             d == Len(o.detail)
             k == Len(e)
             t == Len(all)
  <2>2. t = (Width + m + Width) + k + (Width + n)
    BY <1>8, <2>1
  <2>3. Width \in Nat \ {0} /\ m \in Nat /\ n \in Nat /\ d \in Nat /\ k \in Nat /\ k >= d
    BY <1>2, <2>1
  <2> HIDE DEF m, n, d, k, t
  <2>4. t \in Nat /\ t >= 1 /\ m <= t /\ n <= t /\ d <= t
    BY <2>2, <2>3
  <2> QED
    BY <2>4 DEF m, n, d, t
<1>10. ASSUME NEW k \in 1..Len(o.detail)
       PROVE  Len(o.detail[k]) <= Len(all)
  <2> DEFINE p == PutBytes(o.summary) \o Be(Len(o.detail))
                    \o Each(PutBytes, SubSeq(o.detail, 1, k - 1))
             y == PutBytes(o.detail[k])
  <2>1. o.detail[k] \in Seq(Byte)
    BY <1>1, ElementOfSeq
  <2>2. y \in Seq(Byte) /\ Len(y) = Width + Len(o.detail[k]) /\ Len(o.detail[k]) \in Nat
    BY <2>1, PutBytesBytes, PutBytesLength
  <2>3. p \in Seq(Byte) /\ IsPrefix(p \o y, all)
    BY OperationParts DEF all
  <2> HIDE DEF p, y
  <2>4. Len(p) \in Nat /\ Len(p) + Len(y) <= Len(all)
    BY <1>8, <2>2, <2>3, PrefixLength
  <2> QED
    BY <1>2, <1>9, <2>2, <2>4
<1> QED
  BY <1>9, <1>10 DEF all

\* The operations of a transaction, up to each of them.
LEMMA OperationsPart ==
  ASSUME CodecAssumption, NEW s \in Seq(Operations)
  PROVE  /\ \A k \in 1..Len(s) : /\ Each(EncodeOp, SubSeq(s, 1, k - 1)) \in Seq(Byte)
                                 /\ IsPrefix(Each(EncodeOp, SubSeq(s, 1, k - 1)) \o EncodeOp(s[k]),
                                             Each(EncodeOp, s))
         /\ Len(Each(EncodeOp, s)) >= Len(s)
<1> DEFINE n == Len(s)
           w == [i \in 0..n |-> Each(EncodeOp, SubSeq(s, 1, i))]
           e == [i \in 1..n |-> EncodeOp(s[i])]
<1>1. n \in Nat /\ SubSeq(s, 1, 0) = <<>> /\ SubSeq(s, 1, n) = s /\ Width \in Nat \ {0}
  BY LenProperties, SubSeqEmpty, SubSeqFull DEF CodecAssumption
<1>2. \A i \in 1..n : /\ s[i] \in Operations /\ SubSeq(s, 1, i - 1) \in Seq(Operations)
                      /\ SubSeq(s, 1, i) = Append(SubSeq(s, 1, i - 1), s[i])
  BY OneMore
<1>3. \A i \in 1..n : /\ Each(EncodeOp, SubSeq(s, 1, i - 1)) \in Seq(Byte)
                      /\ Each(EncodeOp, SubSeq(s, 1, i))
                           = Each(EncodeOp, SubSeq(s, 1, i - 1)) \o EncodeOp(s[i])
                      /\ EncodeOp(s[i]) \in Seq(Byte) /\ Len(EncodeOp(s[i])) >= 1
  <2> SUFFICES ASSUME NEW i \in 1..n
               PROVE  /\ Each(EncodeOp, SubSeq(s, 1, i - 1)) \in Seq(Byte)
                      /\ Each(EncodeOp, SubSeq(s, 1, i))
                           = Each(EncodeOp, SubSeq(s, 1, i - 1)) \o EncodeOp(s[i])
                      /\ EncodeOp(s[i]) \in Seq(Byte) /\ Len(EncodeOp(s[i])) >= 1
    OBVIOUS
  <2>1. EncodeOp(s[i]) \in Seq(Byte) /\ Len(EncodeOp(s[i])) >= 1
    BY <1>2, EncodeOpBytes, OperationLength
  <2> QED
    BY <1>2, <2>1, EachOperation
<1>4. Each(EncodeOp, s) \in Seq(Byte)
  <2>1. [summary |-> <<>>, detail |-> <<>>, payload |-> <<>>] \in Operations
    BY EmptySeq DEF Operations, Text
  <2> QED
    BY <2>1, EachOperation
<1>5. \A i \in 0..n : Each(EncodeOp, SubSeq(s, 1, i)) \in Seq(Byte)
  <2> SUFFICES ASSUME NEW i \in 0..n PROVE Each(EncodeOp, SubSeq(s, 1, i)) \in Seq(Byte)
    OBVIOUS
  <2>1. CASE i = n
    BY <1>1, <1>4, <2>1
  <2>2. CASE i # n
    <3>0. n \in Nat
      BY <1>1
    <3>1. i + 1 \in 1..n /\ (i + 1) - 1 = i
      <4> HIDE DEF n
      <4> QED
        BY <2>2, <3>0
    <3>2. Each(EncodeOp, SubSeq(s, 1, (i + 1) - 1)) \in Seq(Byte)
      BY <1>3, <3>1
    <3> QED
      BY <3>1, <3>2
  <2> QED
    BY <2>1, <2>2
<1>6. w \in [0..n -> Seq(Byte)] /\ e \in [1..n -> Seq(Byte)]
  BY <1>3, <1>5
<1>7. \A i \in 1..n : /\ w[i] = w[i - 1] \o e[i] /\ Len(e[i]) >= 1
                      /\ w[i - 1] = Each(EncodeOp, SubSeq(s, 1, i - 1))
                      /\ e[i] = EncodeOp(s[i])
  <2>1. \A i \in 1..n : i \in 0..n /\ i - 1 \in 0..n
    BY <1>1
  <2> QED
    BY <1>3, <2>1
<1>8. w[n] = Each(EncodeOp, s)
  <2>1. n \in 0..n
    BY <1>1
  <2> QED
    BY <1>1, <2>1
<1>9. /\ \A k \in 1..n : IsPrefix(w[k - 1] \o e[k], w[n])
      /\ Len(w[n]) >= n
  <2> HIDE DEF w, e, n
  <2> QED
    BY <1>1, <1>6, <1>7, PrefixOfChain
<1> QED
  BY <1>3, <1>7, <1>8, <1>9

\* The parts of a signed transaction: the keys, the number of operations, each
\* operation, the admin and the signature.
LEMMA TransactionParts ==
  ASSUME CodecAssumption, NEW s \in SignedTransactions
  PROVE  LET h == s.server \o s.nonce \o Be(Len(s.ops))
         IN  /\ Encode(s) \in Seq(Byte) /\ EncodeSigned(s) \in Seq(Byte) /\ h \in Seq(Byte)
             /\ IsPrefix(s.server, Encode(s)) /\ IsPrefix(s.server \o s.nonce, Encode(s))
             /\ IsPrefix(h, Encode(s))
             /\ \A k \in 1..Len(s.ops) :
                  /\ h \o Each(EncodeOp, SubSeq(s.ops, 1, k - 1)) \in Seq(Byte)
                  /\ IsPrefix((h \o Each(EncodeOp, SubSeq(s.ops, 1, k - 1)))
                                \o EncodeOp(s.ops[k]), Encode(s))
             /\ Len(Encode(s)) >= Len(s.ops)
             /\ IsPrefix(Encode(s), EncodeSigned(s))
             /\ IsPrefix(Encode(s) \o s.admin, EncodeSigned(s))
<1> DEFINE b == Be(Len(s.ops))
           kk == s.server \o s.nonce
           h == kk \o b
           e == Each(EncodeOp, s.ops)
           c == Encode(s)
           all == EncodeSigned(s)
<1>1. /\ s.server \in Seq(Byte) /\ s.nonce \in Seq(Byte) /\ s.ops \in Seq(Operations)
      /\ s.admin \in Seq(Byte) /\ s.signature \in Seq(Byte)
  <2>1. KeyLen \in Nat /\ SigLen \in Nat
    BY DEF CodecAssumption
  <2> QED
    BY <2>1, IsSeq DEF SignedTransactions, Array
<1>2. b \in Seq(Byte) /\ Len(s.ops) \in Nat
  <2>1. Width \in Nat /\ Len(s.ops) \in Nat
    BY <1>1, LenProperties DEF CodecAssumption
  <2> QED
    BY <2>1, BeBytes, IsSeq DEF Array
<1>3. e \in Seq(Byte) /\ Len(e) >= Len(s.ops)
  <2>1. [summary |-> <<>>, detail |-> <<>>, payload |-> <<>>] \in Operations
    BY EmptySeq DEF Operations, Text
  <2> QED
    BY <1>1, <2>1, EachOperation, OperationsPart
<1>4. \A k \in 1..Len(s.ops) :
        /\ Each(EncodeOp, SubSeq(s.ops, 1, k - 1)) \in Seq(Byte)
        /\ EncodeOp(s.ops[k]) \in Seq(Byte)
        /\ IsPrefix(Each(EncodeOp, SubSeq(s.ops, 1, k - 1)) \o EncodeOp(s.ops[k]), e)
  BY <1>1, OperationsPart, ElementOfSeq, EncodeOpBytes
<1>5. c = h \o e /\ all = (c \o s.admin) \o s.signature
  BY DEF Encode, EncodeSigned
<1> HIDE DEF e, c, all
<1>6. kk \in Seq(Byte) /\ IsPrefix(s.server, kk)
  BY <1>1, PrefixOfConcat
<1> HIDE DEF kk
<1>7. h \in Seq(Byte) /\ IsPrefix(kk, h)
  BY <1>2, <1>6, PrefixOfConcat
<1> HIDE DEF h
<1>8. c \in Seq(Byte) /\ IsPrefix(h, c)
  BY <1>3, <1>5, <1>7, PrefixOfConcat
<1>9. IsPrefix(kk, c) /\ IsPrefix(s.server, c)
  BY <1>1, <1>6, <1>7, <1>8, PrefixTransitive
<1>10. c \o s.admin \in Seq(Byte) /\ IsPrefix(c, c \o s.admin)
  BY <1>1, <1>8, PrefixOfConcat
<1>11. all \in Seq(Byte) /\ IsPrefix(c \o s.admin, all)
  BY <1>1, <1>5, <1>10, PrefixOfConcat
<1>12. IsPrefix(c, all)
  BY <1>8, <1>10, <1>11, PrefixTransitive
<1>13. Len(c) >= Len(s.ops)
  <2>1. Len(c) = Len(h) + Len(e) /\ Len(h) \in Nat /\ Len(e) \in Nat
    BY <1>3, <1>5, <1>7, ConcatLength
  <2> QED
    BY <1>2, <1>3, <2>1
<1>14. ASSUME NEW k \in 1..Len(s.ops)
       PROVE  /\ h \o Each(EncodeOp, SubSeq(s.ops, 1, k - 1)) \in Seq(Byte)
              /\ IsPrefix((h \o Each(EncodeOp, SubSeq(s.ops, 1, k - 1)))
                            \o EncodeOp(s.ops[k]), c)
  <2> DEFINE x == Each(EncodeOp, SubSeq(s.ops, 1, k - 1))
             y == EncodeOp(s.ops[k])
  <2>1. x \in Seq(Byte) /\ y \in Seq(Byte) /\ IsPrefix(x \o y, e)
    BY <1>4
  <2> HIDE DEF x, y
  <2>2. x \o y \in Seq(Byte) /\ h \o x \in Seq(Byte) /\ h \o (x \o y) \in Seq(Byte)
        /\ (h \o x) \o y = h \o (x \o y)
    BY <1>7, <2>1, Associative
  <2>3. IsPrefix(h \o (x \o y), h \o e)
    BY <1>3, <1>7, <2>1, <2>2, PrefixAfter
  <2> QED
    BY <1>5, <2>2, <2>3 DEF x, y
<1> QED
  BY <1>7, <1>8, <1>9, <1>11, <1>12, <1>13, <1>14 DEF h, kk, c, all

-----------------------------------------------------------------------------
(* Transactions of which nothing wraps *)

\* Nothing wraps in an encoding that is itself shorter than a u32 can count.
LEMMA ShortCountable ==
  ASSUME CodecAssumption, NEW s \in SignedTransactions, Len(Encode(s)) < U32Range
  PROVE  Countable(s)
<1>1. s.ops \in Seq(Operations) /\ Len(s.ops) \in Nat
  BY LenProperties DEF SignedTransactions
<1>2. Len(Encode(s)) \in Nat /\ Len(s.ops) <= Len(Encode(s)) /\ U32Range \in Nat
  <2>1. Encode(s) \in Seq(Byte) /\ Len(Encode(s)) >= Len(s.ops)
    BY TransactionParts
  <2>2. \E p \in [0..Width -> Nat] : U32Range = p[Width]
    BY RangeSteps
  <2>3. Width \in 0..Width
    BY DEF CodecAssumption
  <2>4. U32Range \in Nat
    BY <2>2, <2>3
  <2>5. Len(Encode(s)) \in Nat
    BY <2>1, LenProperties
  <2> QED
    BY <1>1, <2>1, <2>4, <2>5
<1>3. ASSUME NEW i \in DOMAIN s.ops
      PROVE  LET o == s.ops[i]
             IN  /\ Len(o.summary) < U32Range /\ Len(o.payload) < U32Range
                 /\ Len(o.detail) < U32Range
                 /\ \A n \in DOMAIN o.detail : Len(o.detail[n]) < U32Range
  <2> DEFINE o == s.ops[i]
             h == s.server \o s.nonce \o Be(Len(s.ops))
             p == h \o Each(EncodeOp, SubSeq(s.ops, 1, i - 1))
             y == EncodeOp(o)
             m == Len(y)
  <2>1. i \in 1..Len(s.ops) /\ o \in Operations
    BY <1>1, ElementOfSeq, LenProperties
  <2>2. p \in Seq(Byte) /\ IsPrefix(p \o y, Encode(s)) /\ Encode(s) \in Seq(Byte)
    BY <2>1, TransactionParts
  <2> HIDE DEF p, o
  <2>3. y \in Seq(Byte)
    BY <2>1, EncodeOpBytes
  <2>4. m \in Nat /\ m < U32Range
    <3> HIDE DEF y
    <3>1. Len(p) \in Nat /\ Len(y) \in Nat /\ Len(p) + Len(y) <= Len(Encode(s))
      BY <2>2, <2>3, PrefixLength
    <3> QED
      BY <1>2, <3>1
  <2>5. /\ o.summary \in Seq(Byte) /\ o.payload \in Seq(Byte)
        /\ o.detail \in Seq(Seq(Byte))
    BY <2>1, TextBytes DEF Operations
  <2>6. /\ Len(o.summary) \in Nat /\ Len(o.payload) \in Nat /\ Len(o.detail) \in Nat
        /\ DOMAIN o.detail = 1..Len(o.detail)
        /\ \A n \in 1..Len(o.detail) : Len(o.detail[n]) \in Nat
    <3>1. \A n \in 1..Len(o.detail) : o.detail[n] \in Seq(Byte)
      BY <2>5, ElementOfSeq
    <3> QED
      BY <2>5, <3>1, LenProperties
  <2>7. /\ Len(o.summary) <= m /\ Len(o.payload) <= m /\ Len(o.detail) <= m
        /\ \A n \in 1..Len(o.detail) : Len(o.detail[n]) <= m
    BY <2>1, OperationLength
  <2> HIDE DEF m
  <2>8. /\ Len(o.summary) < U32Range /\ Len(o.payload) < U32Range
        /\ Len(o.detail) < U32Range
        /\ \A n \in DOMAIN o.detail : Len(o.detail[n]) < U32Range
    <3>1. \A x \in Nat : x <= m => x < U32Range
      BY <1>2, <2>4
    <3> QED
      BY <2>6, <2>7, <3>1, Zenon
  <2> QED
    BY <2>8 DEF o
<1>4. Len(s.ops) < U32Range
  BY <1>1, <1>2
<1> QED
  BY <1>3, <1>4 DEF Countable

\* A body that decode accepts is short enough for nothing in it to wrap.
LEMMA BodyCountable ==
  ASSUME CodecAssumption, NEW s \in SignedTransactions, Len(EncodeSigned(s)) <= BodySize
  PROVE  Len(Encode(s)) < U32Range
<1> DEFINE m == Len(Encode(s))
           n == Len(EncodeSigned(s))
<1>1. m \in Nat /\ n \in Nat /\ m <= n
  <2>1. /\ Encode(s) \in Seq(Byte) /\ EncodeSigned(s) \in Seq(Byte)
        /\ IsPrefix(Encode(s), EncodeSigned(s))
    BY TransactionParts
  <2> QED
    BY <2>1, LenProperties DEF IsPrefix
<1>2. /\ KeyLen \in Nat /\ SigLen \in Nat /\ Width \in Nat /\ MAX_OPS \in Nat
      /\ MAX_STR \in Nat /\ MAX_DETAIL \in Nat /\ MAX_PAYLOAD \in Nat
  BY DEF CodecAssumption
<1>3. U32Range \in Int
  BY <1>2, RangeSteps
<1>4. BodySize \in Int
  <2>1. OpSize \in Int
    BY <1>2 DEF OpSize
  <2> HIDE DEF OpSize
  <2> QED
    BY <1>2, <2>1 DEF BodySize
<1>5. n <= BodySize /\ BodySize < U32Range
  BY DEF CodecAssumption
<1> HIDE DEF m, n
<1>6. m < U32Range
  BY <1>1, <1>3, <1>4, <1>5
<1> QED
  BY <1>6 DEF m

\* Nothing wraps in a transaction that is within the decode bounds.
LEMMA BoundsCountable ==
  ASSUME CodecAssumption, NEW s \in SignedTransactions, InBounds(s)
  PROVE  Countable(s)
<1> DEFINE m == MAX_DETAIL * (Width + MAX_STR)
           n == MAX_OPS * OpSize
<1>1. /\ KeyLen \in Nat /\ SigLen \in Nat /\ Width \in Nat \ {0} /\ MAX_OPS \in Nat
      /\ MAX_STR \in Nat /\ MAX_DETAIL \in Nat /\ MAX_PAYLOAD \in Nat
  BY DEF CodecAssumption
<1>2. m \in Nat /\ MAX_DETAIL <= m
  <2>1. MAX_DETAIL * (Width + MAX_STR) = MAX_DETAIL + MAX_DETAIL * (Width - 1 + MAX_STR)
        /\ MAX_DETAIL * (Width - 1 + MAX_STR) \in Nat
    BY <1>1
  <2> QED
    BY <1>1, <2>1
<1>3. OpSize = 3 * Width + MAX_STR + m + MAX_PAYLOAD
  BY DEF OpSize
<1> HIDE DEF m
<1>4. /\ OpSize \in Nat \ {0} /\ MAX_STR <= OpSize /\ MAX_DETAIL <= OpSize
      /\ MAX_PAYLOAD <= OpSize
  BY <1>1, <1>2, <1>3
<1>5. n \in Nat /\ MAX_OPS <= n /\ (MAX_OPS >= 1 => OpSize <= n)
  <2>1. /\ MAX_OPS * OpSize = MAX_OPS + MAX_OPS * (OpSize - 1) /\ MAX_OPS * (OpSize - 1) \in Nat
    BY <1>1, <1>4
  <2>2. MAX_OPS >= 1 => /\ MAX_OPS * OpSize = OpSize + (MAX_OPS - 1) * OpSize
                        /\ (MAX_OPS - 1) * OpSize \in Nat
    BY <1>1, <1>4
  <2> QED
    BY <1>1, <1>4, <2>1, <2>2
<1>6. BodySize = 3 * KeyLen + SigLen + Width + n
  BY DEF BodySize
<1> HIDE DEF n
<1>7. U32Range \in Nat
  <2>1. \E p \in [0..Width -> Nat] : U32Range = p[Width]
    BY RangeSteps
  <2> QED
    BY <1>1, <2>1
<1>8. n < U32Range
  BY <1>1, <1>5, <1>6, <1>7 DEF CodecAssumption
<1>9. s.ops \in Seq(Operations) /\ Len(s.ops) \in Nat /\ DOMAIN s.ops = 1..Len(s.ops)
      /\ Len(s.ops) <= MAX_OPS
  BY LenProperties DEF SignedTransactions, InBounds, Short
<1>10. ASSUME NEW i \in DOMAIN s.ops
       PROVE  LET o == s.ops[i]
              IN  /\ Len(o.summary) < U32Range /\ Len(o.payload) < U32Range
                  /\ Len(o.detail) < U32Range
                  /\ \A k \in DOMAIN o.detail : Len(o.detail[k]) < U32Range
  <2> DEFINE o == s.ops[i]
  <2>1. o \in Operations /\ OpSize < U32Range
    BY <1>1, <1>4, <1>5, <1>7, <1>8, <1>9, ElementOfSeq
  <2>2. /\ Len(o.summary) <= MAX_STR /\ Len(o.payload) <= MAX_PAYLOAD
        /\ Len(o.detail) <= MAX_DETAIL
        /\ \A k \in DOMAIN o.detail : Len(o.detail[k]) <= MAX_STR
    BY DEF InBounds, Short
  <2> HIDE DEF o
  <2>3. /\ o.summary \in Seq(Byte) /\ o.payload \in Seq(Byte)
        /\ o.detail \in Seq(Seq(Byte))
    BY <2>1, TextBytes DEF Operations
  <2>4. /\ Len(o.summary) \in Nat /\ Len(o.payload) \in Nat /\ Len(o.detail) \in Nat
        /\ \A k \in DOMAIN o.detail : Len(o.detail[k]) \in Nat
    <3>1. \A k \in DOMAIN o.detail : o.detail[k] \in Seq(Byte)
      BY <2>3, ElementOfSeq, LenProperties
    <3> QED
      BY <2>3, <3>1, LenProperties
  <2>5. /\ Len(o.summary) < U32Range /\ Len(o.payload) < U32Range
        /\ Len(o.detail) < U32Range
        /\ \A k \in DOMAIN o.detail : Len(o.detail[k]) < U32Range
    BY <1>1, <1>4, <1>7, <2>1, <2>2, <2>4
  <2> QED
    BY <2>5 DEF o
<1>11. Len(s.ops) < U32Range
  BY <1>1, <1>5, <1>7, <1>8, <1>9
<1> QED
  BY <1>10, <1>11 DEF Countable
-----------------------------------------------------------------------------
(* Reading what is there *)

\* The next bytes of the buffer are x.
Ahead(x) == IsPrefix(Read \o x, buf)

\* Where a part is found in the whole.
LEMMA PartFound ==
  ASSUME NEW p \in Seq(Byte), NEW x \in Seq(Byte), NEW b \in Seq(Byte), IsPrefix(p \o x, b)
  PROVE  /\ Len(p) + Len(x) <= Len(b)
         /\ SubSeq(b, Len(p) + 1, Len(p) + Len(x)) = x
<1> DEFINE m == Len(p)
           n == Len(x)
           y == p \o x
<1>1. y \in Seq(Byte) /\ Len(y) = m + n /\ m \in Nat /\ n \in Nat
  BY ConcatLength
<1>2. PICK r \in Seq(Byte) : b = y \o r
  <2> HIDE DEF y
  <2> QED
    BY <1>1, PrefixIs DEF y
<1>3. \A i \in 1..n : y[m + i] = x[i]
  <2>1. \A j \in 1..(m + n) : y[j] = IF j <= m THEN p[j] ELSE x[j - m]
    BY ConcatProperties
  <2>2. \A i \in 1..n : m + i \in 1..(m + n) /\ ~ (m + i <= m) /\ (m + i) - m = i
    BY <1>1
  <2> HIDE DEF m, n, y
  <2> QED
    BY <2>1, <2>2
<1> HIDE DEF y
<1>4. Len(b) = (m + n) + Len(r) /\ Len(r) \in Nat /\ \A j \in 1..(m + n) : b[j] = y[j]
  <2> HIDE DEF m, n
  <2>1. Len(b) = Len(y) + Len(r) /\ Len(r) \in Nat
    BY <1>1, <1>2, ConcatLength
  <2>2. \A j \in 1..(Len(y) + Len(r)) : b[j] = IF j <= Len(y) THEN y[j] ELSE r[j - Len(y)]
    BY <1>1, <1>2, ConcatProperties
  <2> DEFINE t == Len(y)
             k == Len(r)
  <2>3. t = m + n /\ m \in Nat /\ n \in Nat /\ k \in Nat /\ Len(b) = t + k
    BY <1>1, <2>1
  <2>4. \A j \in 1..(t + k) : b[j] = IF j <= t THEN y[j] ELSE r[j - t]
    BY <2>2
  <2> HIDE DEF t, k
  <2>5. \A j \in 1..(m + n) : b[j] = y[j]
    BY <2>3, <2>4
  <2> QED
    BY <2>3, <2>5 DEF t, k
<1>5. \A i \in 1..n : b[m + i] = x[i] /\ b[m + i] \in Byte
  <2>1. \A i \in 1..n : x[i] \in Byte
    BY ElementOfSeq
  <2>2. \A i \in 1..n : m + i \in 1..(m + n)
    BY <1>1
  <2> HIDE DEF m, n
  <2> QED
    BY <1>3, <1>4, <2>1, <2>2
<1> DEFINE z == SubSeq(b, m + 1, m + n)
<1>6. z \in Seq(Byte) /\ Len(z) = n /\ \A i \in 1..n : z[i] = b[m + i]
  <2> HIDE DEF m, n
  <2>1. m + 1 \in Int /\ m + n \in Int /\ \A i \in (m + 1)..(m + n) : b[i] \in Byte
    <3>1. \A i \in (m + 1)..(m + n) : i - m \in 1..n /\ m + (i - m) = i
      BY <1>1
    <3> QED
      BY <1>1, <1>5, <3>1
  <2>2. /\ z \in Seq(Byte)
        /\ Len(z) = IF m + 1 <= m + n THEN (m + n) - (m + 1) + 1 ELSE 0
        /\ \A i \in 1..((m + n) - (m + 1) + 1) : z[i] = b[(m + 1) + i - 1]
    BY <2>1, SubSeqProperties
  <2>3. (m + n) - (m + 1) + 1 = n /\ \A i \in 1..n : (m + 1) + i - 1 = m + i
    BY <1>1
  <2>4. Len(z) = n
    BY <1>1, <2>2
  <2> HIDE DEF z
  <2> QED
    BY <2>2, <2>3, <2>4
<1> HIDE DEF z
<1>7. z = x
  BY <1>5, <1>6, SeqEqual
<1> QED
  BY <1>1, <1>4, <1>7 DEF z

\* What has been read has the length of the position.
LEMMA ReadLength ==
  ASSUME Inside
  PROVE  Read \in Seq(Byte) /\ Len(Read) = pos /\ pos \in Nat
<1>1. Len(buf) \in Nat /\ pos \in Nat /\ pos <= Len(buf)
  BY LenProperties DEF Inside
<1>2. 1 \in Int /\ pos \in Int /\ \A i \in 1..pos : buf[i] \in Byte
  BY <1>1, ElementOfSeq DEF Inside
<1>3. Read \in Seq(Byte) /\ Len(Read) = IF 1 <= pos THEN pos - 1 + 1 ELSE 0
  BY <1>2, SubSeqProperties DEF Read
<1> QED
  BY <1>1, <1>3

\* take(n) returns the n bytes that are ahead.
LEMMA TakeAhead ==
  ASSUME Inside, NEW x \in Seq(Byte), Ahead(x)
  PROVE  Take(Len(x)) /\ Slice(Len(x)) = x
BY ReadLength, PartFound DEF Inside, Ahead, Take, Slice

\* u32() returns the number whose bytes are ahead.
LEMMA U32Ahead ==
  ASSUME CodecAssumption, Inside, NEW n \in Nat, n < U32Range, Ahead(Be(n))
  PROVE  Take(Width) /\ U32 = n
<1>1. Width \in Nat /\ Be(n) \in Array(Width)
  BY BeBytes DEF CodecAssumption
<1>2. Be(n) \in Seq(Byte) /\ Len(Be(n)) = Width
  BY <1>1, IsSeq DEF Array
<1>3. Take(Width) /\ Slice(Width) = Be(n)
  BY <1>2, TakeAhead
<1>4. Number(Be(n)) = n
  BY NumberOfBe
<1> QED
  BY <1>3, <1>4 DEF U32

\* bytes() returns the field that is ahead.
LEMMA FieldAhead ==
  ASSUME CodecAssumption, Inside, NEW x \in Seq(Byte), Len(x) < U32Range,
         Ahead(PutBytes(x))
  PROVE  Take(Width) /\ U32 = Len(x) /\ Take(Width + U32) /\ Field = x
<1> DEFINE n == Len(x)
           b == Be(n)
           p == Read \o b
<1>1. Width \in Nat /\ n \in Nat
  BY LenProperties DEF CodecAssumption
<1>2. b \in Seq(Byte) /\ Len(b) = Width
  <2>1. b \in Array(Width)
    BY <1>1, BeBytes
  <2> HIDE DEF b
  <2> QED
    BY <1>1, <2>1, IsSeq DEF Array
<1>3. Read \in Seq(Byte) /\ Len(Read) = pos /\ pos \in Nat /\ buf \in Seq(Byte)
  BY ReadLength DEF Inside
<1>4. Read \o PutBytes(x) = p \o x /\ p \in Seq(Byte) /\ Len(p) = pos + Width
  <2>1. PutBytes(x) = b \o x
    BY DEF PutBytes
  <2> HIDE DEF b
  <2>2. Read \o b \in Seq(Byte) /\ (Read \o b) \o x = Read \o (b \o x)
    <3> HIDE DEF n
    <3>1. b \in Seq(Byte) /\ Read \in Seq(Byte) /\ x \in Seq(Byte)
      BY <1>2, <1>3
    <3> QED
      BY <3>1, Associative, Zenon
  <2>3. Len(Read \o b) = Len(Read) + Len(b)
    BY <1>2, <1>3, ConcatLength
  <2> QED
    BY <1>2, <1>3, <2>1, <2>2, <2>3
<1>5. Ahead(b)
  <2> HIDE DEF b
  <2>1. IsPrefix(p, p \o x) /\ p \o x \in Seq(Byte)
    BY <1>4, PrefixOfConcat
  <2>2. IsPrefix(p \o x, buf)
    BY <1>4 DEF Ahead
  <2> HIDE DEF p
  <2>3. IsPrefix(p, buf)
    BY <1>3, <1>4, <2>1, <2>2, PrefixTransitive
  <2> QED
    BY <2>3 DEF Ahead, p
<1>6. Take(Width) /\ U32 = n
  <2> HIDE DEF n
  <2> QED
    BY <1>1, <1>5, U32Ahead DEF n
<1>7. Len(p) + n <= Len(buf) /\ SubSeq(buf, Len(p) + 1, Len(p) + n) = x
  <2>1. IsPrefix(p \o x, buf)
    BY <1>4 DEF Ahead
  <2> HIDE DEF p
  <2> QED
    BY <1>3, <1>4, <2>1, PartFound
<1> HIDE DEF p, b
<1>8. Field = x
  BY <1>4, <1>6, <1>7 DEF Field
<1>9. Take(Width + U32)
  <2>1. pos + (Width + n) = pos + Width + n
    BY <1>1, <1>3
  <2> HIDE DEF n
  <2> QED
    BY <1>4, <1>6, <1>7, <2>1 DEF Take
<1> QED
  BY <1>6, <1>8, <1>9
-----------------------------------------------------------------------------
(* What is ahead of a Reader that follows a transaction *)

\* A part of a part is a part.
LEMMA PartOfPart ==
  \A p, q, x, y, b \in Seq(Byte) :
    IsPrefix(p \o y, b) /\ IsPrefix(q \o x, y) => IsPrefix((p \o q) \o x, b)
<1> SUFFICES ASSUME NEW p \in Seq(Byte), NEW q \in Seq(Byte), NEW x \in Seq(Byte),
                    NEW y \in Seq(Byte), NEW b \in Seq(Byte),
                    IsPrefix(p \o y, b), IsPrefix(q \o x, y)
             PROVE  IsPrefix((p \o q) \o x, b)
  OBVIOUS
<1>1. q \o x \in Seq(Byte) /\ p \o y \in Seq(Byte) /\ (p \o q) \o x = p \o (q \o x)
  BY Associative
<1>2. p \o (q \o x) \in Seq(Byte) /\ IsPrefix(p \o (q \o x), p \o y)
  BY <1>1, PrefixAfter, Associative
<1> QED
  BY <1>1, <1>2, PrefixTransitive

\* The keys and the number of operations.
LEMMA FrontAhead ==
  ASSUME CodecAssumption, HeldInv, CanonInv,
         NEW s \in SignedTransactions, buf = EncodeSigned(s), Tracks(s)
  PROVE  /\ at = "server" => Ahead(s.server)
         /\ at = "nonce" => Ahead(s.nonce)
         /\ at = "ops" => Ahead(Be(Len(s.ops)))
<1> DEFINE b == Be(Len(s.ops))
           c == Encode(s)
<1>1. /\ s.server \in Seq(Byte) /\ s.nonce \in Seq(Byte) /\ b \in Seq(Byte)
  <2>1. KeyLen \in Nat /\ Width \in Nat /\ Len(s.ops) \in Nat
    BY LenProperties DEF CodecAssumption, SignedTransactions
  <2> QED
    BY <2>1, BeBytes, IsSeq DEF SignedTransactions, Array
<1>2. /\ c \in Seq(Byte) /\ buf \in Seq(Byte) /\ IsPrefix(c, buf)
      /\ IsPrefix(s.server, c) /\ IsPrefix(s.server \o s.nonce, c)
      /\ IsPrefix(s.server \o s.nonce \o b, c)
  BY TransactionParts
<1> HIDE DEF b, c
<1>3. /\ s.server \o s.nonce \in Seq(Byte) /\ s.server \o s.nonce \o b \in Seq(Byte)
      /\ <<>> \o s.server = s.server
  BY <1>1, Associative, ConcatEmptySeq
<1>4. /\ IsPrefix(<<>> \o s.server, buf) /\ IsPrefix(s.server \o s.nonce, buf)
      /\ IsPrefix(s.server \o s.nonce \o b, buf)
  BY <1>1, <1>2, <1>3, PrefixTransitive
<1>5. ASSUME at = "server" PROVE Ahead(s.server)
  BY <1>4, <1>5 DEF Ahead, CanonInv
<1>6. ASSUME at = "nonce" PROVE Ahead(s.nonce)
  <2>1. Read = s.server
    BY <1>6 DEF CanonInv, Tracks
  <2> QED
    BY <1>4, <2>1 DEF Ahead
<1>7. ASSUME at = "ops" PROVE Ahead(b)
  <2>1. Read = s.server \o s.nonce
    BY <1>7 DEF CanonInv, Tracks
  <2> QED
    BY <1>4, <2>1 DEF Ahead
<1> QED
  BY <1>5, <1>6, <1>7 DEF b

\* What has been read of the operations is the front of those of s.
LEMMA BatchTracked ==
  ASSUME CodecAssumption, HeldInv, NEW s \in SignedTransactions, Tracks(s),
         at \notin {"server", "nonce", "ops", "malformed"}
  PROVE  /\ Len(tx.ops) \in Nat /\ left \in Nat /\ Len(tx.ops) + left = Len(s.ops)
         /\ Batch = (s.server \o s.nonce \o Be(Len(s.ops)))
                      \o Each(EncodeOp, SubSeq(s.ops, 1, Len(tx.ops)))
<1>1. Len(tx.ops) \in Nat /\ left \in Nat
  BY LenProperties DEF HeldInv, TypeOK, Partial
<1>2. /\ tx.server = s.server /\ tx.nonce = s.nonce
      /\ tx.ops = SubSeq(s.ops, 1, Len(tx.ops)) /\ Len(tx.ops) + left = Len(s.ops)
  BY DEF Tracks
<1> DEFINE k == Len(tx.ops)
<1>3. tx.ops = SubSeq(s.ops, 1, k) /\ Batch = s.server \o s.nonce \o Be(Len(s.ops)) \o Each(EncodeOp, tx.ops)
  BY <1>2 DEF Batch
<1> HIDE DEF k
<1>4. Batch = s.server \o s.nonce \o Be(Len(s.ops)) \o Each(EncodeOp, SubSeq(s.ops, 1, k))
  BY <1>3
<1> QED
  BY <1>1, <1>2, <1>4 DEF k

\* The operation that the Reader is at follows what has been read of the others.
LEMMA CurrentAhead ==
  ASSUME CodecAssumption, HeldInv, NEW s \in SignedTransactions, buf = EncodeSigned(s),
         Tracks(s), at \in {"summary", "details", "line", "payload"}
  PROVE  /\ Len(tx.ops) + 1 \in 1..Len(s.ops) /\ Current(s) \in Operations
         /\ EncodeOp(Current(s)) \in Seq(Byte)
         /\ IsPrefix(Batch \o EncodeOp(Current(s)), buf)
<1> DEFINE i == Len(tx.ops) + 1
           h == s.server \o s.nonce \o Be(Len(s.ops))
           p == h \o Each(EncodeOp, SubSeq(s.ops, 1, i - 1))
           y == EncodeOp(s.ops[i])
<1>1. Len(tx.ops) \in Nat /\ left \in Nat /\ Len(tx.ops) + left = Len(s.ops) /\ left >= 1
  BY BatchTracked DEF HeldInv
<1>2. i \in 1..Len(s.ops) /\ i - 1 = Len(tx.ops)
  BY <1>1
<1>3. Batch = p
  BY <1>2, BatchTracked
<1>4. s.ops[i] \in Operations
  BY <1>2, ElementOfSeq DEF SignedTransactions
<1>5. y \in Seq(Byte)
  BY <1>4, EncodeOpBytes
<1>6. p \in Seq(Byte) /\ IsPrefix(p \o y, Encode(s)) /\ Encode(s) \in Seq(Byte)
      /\ IsPrefix(Encode(s), buf) /\ buf \in Seq(Byte)
  BY <1>2, TransactionParts
<1> HIDE DEF p, y
<1>7. IsPrefix(p \o y, buf)
  BY <1>5, <1>6, PrefixTransitive, Associative
<1> QED
  BY <1>2, <1>3, <1>4, <1>5, <1>7 DEF y, Current

\* The parts of that operation.
LEMMA PartsAhead ==
  ASSUME CodecAssumption, HeldInv, CanonInv,
         NEW s \in SignedTransactions, buf = EncodeSigned(s), Tracks(s)
  PROVE  /\ at = "summary" => Ahead(PutBytes(Current(s).summary))
         /\ at = "details" => Ahead(Be(Len(Current(s).detail)))
         /\ at = "line" => /\ Len(op.detail) + 1 \in 1..Len(Current(s).detail)
                           /\ Ahead(PutBytes(Current(s).detail[Len(op.detail) + 1]))
         /\ at = "payload" => /\ op.detail = Current(s).detail
                              /\ Ahead(PutBytes(Current(s).payload))
<1> SUFFICES ASSUME at \in {"summary", "details", "line", "payload"}
             PROVE  /\ at = "summary" => Ahead(PutBytes(Current(s).summary))
                    /\ at = "details" => Ahead(Be(Len(Current(s).detail)))
                    /\ at = "line" => /\ Len(op.detail) + 1 \in 1..Len(Current(s).detail)
                                      /\ Ahead(PutBytes(Current(s).detail[Len(op.detail) + 1]))
                    /\ at = "payload" => /\ op.detail = Current(s).detail
                                         /\ Ahead(PutBytes(Current(s).payload))
  OBVIOUS
<1> DEFINE o == Current(s)
           y == EncodeOp(o)
           a == PutBytes(o.summary)
           b == Be(Len(o.detail))
           z == PutBytes(o.payload)
<1>1. o \in Operations /\ y \in Seq(Byte) /\ IsPrefix(Batch \o y, buf)
  BY CurrentAhead
<1> HIDE DEF o
<1>2. /\ o.summary \in Seq(Byte) /\ o.payload \in Seq(Byte) /\ o.detail \in Seq(Seq(Byte))
      /\ Len(o.detail) \in Nat
  BY <1>1, TextBytes, LenProperties DEF Operations
<1>3. a \in Seq(Byte) /\ b \in Seq(Byte) /\ z \in Seq(Byte) /\ a \o b \in Seq(Byte)
  <2>1. Width \in Nat
    BY DEF CodecAssumption
  <2>2. b \in Seq(Byte)
    BY <1>2, <2>1, BeBytes, IsSeq DEF Array
  <2>3. a \in Seq(Byte) /\ z \in Seq(Byte)
    BY <1>2, PutBytesBytes
  <2> HIDE DEF a, b, z
  <2> QED
    BY <2>2, <2>3, Associative
<1>4. Batch \in Seq(Byte) /\ Opening \in Seq(Byte) /\ Read \in Seq(Byte) /\ buf \in Seq(Byte)
  BY PiecesBytes, ReadLength DEF HeldInv, Inside
<1>5. ASSUME NEW q \in Seq(Byte), NEW x \in Seq(Byte), Read = Batch \o q, IsPrefix(q \o x, y)
      PROVE  Ahead(x)
  <2> HIDE DEF y
  <2>1. IsPrefix((Batch \o q) \o x, buf)
    BY <1>1, <1>4, <1>5, PartOfPart
  <2> QED
    BY <1>5, <2>1 DEF Ahead
<1>6. IsPrefix(a, y) /\ IsPrefix(a \o b, y)
  BY <1>1, OperationParts
<1>7. ASSUME at = "summary" PROVE Ahead(a)
  <2> HIDE DEF a, y
  <2>1. Read = Batch \o <<>> /\ <<>> \in Seq(Byte) /\ <<>> \o a = a
    BY <1>3, <1>4, <1>7, ConcatEmptySeq, EmptySeq DEF CanonInv
  <2>2. IsPrefix(<<>> \o a, y)
    BY <1>6, <2>1
  <2> QED
    BY <1>3, <1>5, <2>1, <2>2
<1>8. ASSUME at = "details" PROVE Ahead(b)
  <2>1. Read = Batch \o a
    BY <1>8 DEF CanonInv, Tracks, o
  <2> HIDE DEF a, b, y
  <2> QED
    BY <1>3, <1>5, <1>6, <2>1
<1>9. ASSUME at \in {"line", "payload"}
      PROVE  /\ Read = Batch \o Opening /\ Len(op.detail) \in Nat /\ lines \in Nat
             /\ Opening = (a \o b) \o Each(PutBytes, SubSeq(o.detail, 1, Len(op.detail)))
             /\ op.detail = SubSeq(o.detail, 1, Len(op.detail))
             /\ Len(op.detail) + lines = Len(o.detail)
  <2>1. Read = Batch \o Opening
    BY <1>9 DEF CanonInv
  <2>2. op.summary = o.summary
    BY <1>9 DEF Tracks, o
  <2>3. op.detail = SubSeq(o.detail, 1, Len(op.detail)) /\ Len(op.detail) + lines = Len(o.detail)
    BY <1>9 DEF Tracks, o
  <2>4. Len(op.detail) \in Nat /\ lines \in Nat
    BY LenProperties DEF HeldInv, TypeOK
  <2>5. Opening = (a \o b) \o Each(PutBytes, op.detail)
    BY <2>2, <2>3 DEF Opening
  <2> DEFINE m == Len(op.detail)
  <2>6. op.detail = SubSeq(o.detail, 1, m)
    BY <2>3
  <2> HIDE DEF a, b, m
  <2>7. Opening = (a \o b) \o Each(PutBytes, SubSeq(o.detail, 1, m))
    BY <2>5, <2>6
  <2> QED
    BY <2>1, <2>3, <2>4, <2>7 DEF m
<1>10. ASSUME at = "line"
       PROVE  /\ Len(op.detail) + 1 \in 1..Len(o.detail)
              /\ Ahead(PutBytes(o.detail[Len(op.detail) + 1]))
  <2> DEFINE i == Len(op.detail) + 1
             x == PutBytes(o.detail[i])
             q == (a \o b) \o Each(PutBytes, SubSeq(o.detail, 1, i - 1))
  <2>1. lines >= 1
    BY <1>10 DEF HeldInv
  <2>2. i \in 1..Len(o.detail) /\ i - 1 = Len(op.detail)
    BY <1>9, <1>10, <2>1
  <2>3. Opening = q
    BY <1>9, <1>10, <2>2
  <2>4. IsPrefix(q \o x, y)
    BY <1>1, <2>2, OperationParts
  <2>5. o.detail[i] \in Seq(Byte)
    BY <1>2, <2>2, ElementOfSeq
  <2>6. x \in Seq(Byte)
    BY <2>5, PutBytesBytes
  <2> HIDE DEF q, x, y
  <2>7. Ahead(x)
    BY <1>4, <1>5, <1>9, <1>10, <2>3, <2>4, <2>6
  <2> QED
    BY <2>2, <2>7 DEF x
<1>11. ASSUME at = "payload" PROVE op.detail = o.detail /\ Ahead(z)
  <2>1. lines = 0
    BY <1>11 DEF HeldInv
  <2>2. Len(op.detail) = Len(o.detail)
    BY <1>9, <1>11, <2>1
  <2>3. SubSeq(o.detail, 1, Len(o.detail)) = o.detail
    BY <1>2, SubSeqFull
  <2>4. op.detail = o.detail
    BY <1>9, <1>11, <2>2, <2>3
  <2>5. Opening = (a \o b) \o Each(PutBytes, o.detail)
    BY <1>9, <1>11, <2>2, <2>3
  <2>6. y = Opening \o z
    BY <2>5 DEF EncodeOp
  <2> HIDE DEF y, z
  <2>7. IsPrefix(Opening \o z, y)
    <3>1. y \o <<>> = y /\ <<>> \in Seq(Byte)
      BY <1>1, ConcatEmptySeq, EmptySeq
    <3>2. IsPrefix(y, y)
      BY <1>1, <3>1, PrefixIs
    <3> QED
      BY <2>6, <3>2
  <2> QED
    BY <1>3, <1>4, <1>5, <1>9, <1>11, <2>4, <2>7
<1> QED
  BY <1>7, <1>8, <1>10, <1>11 DEF o

\* The admin and the signature, and then nothing.
LEMMA EndAhead ==
  ASSUME CodecAssumption, HeldInv, CanonInv,
         NEW s \in SignedTransactions, buf = EncodeSigned(s), Tracks(s)
  PROVE  /\ at \in {"admin", "signature", "finish", "ok"} => tx.ops = s.ops
         /\ at = "admin" => Ahead(s.admin)
         /\ at = "signature" => Ahead(s.signature)
         /\ at = "finish" => pos = Len(buf)
<1> SUFFICES ASSUME at \in {"admin", "signature", "finish", "ok"}
             PROVE  /\ tx.ops = s.ops
                    /\ at = "admin" => Ahead(s.admin)
                    /\ at = "signature" => Ahead(s.signature)
                    /\ at = "finish" => pos = Len(buf)
  OBVIOUS
<1> DEFINE c == Encode(s)
<1>1. left = 0 /\ Len(tx.ops) \in Nat /\ Len(tx.ops) + left = Len(s.ops)
  BY BatchTracked DEF HeldInv
<1>2. Len(tx.ops) = Len(s.ops)
  BY <1>1
<1>3. SubSeq(s.ops, 1, Len(s.ops)) = s.ops
  BY SubSeqFull DEF SignedTransactions
<1>4. tx.ops = s.ops
  BY <1>2, <1>3 DEF Tracks
<1>5. Batch = c
  <2>1. Batch = (s.server \o s.nonce \o Be(Len(s.ops))) \o Each(EncodeOp, SubSeq(s.ops, 1, Len(tx.ops)))
    BY BatchTracked
  <2> QED
    BY <1>2, <1>3, <2>1 DEF Encode
<1>6. /\ c \in Seq(Byte) /\ buf \in Seq(Byte) /\ IsPrefix(c \o s.admin, buf)
      /\ buf = (c \o s.admin) \o s.signature
  BY TransactionParts DEF EncodeSigned
<1> HIDE DEF c
<1>7. IsPrefix(buf, buf)
  <2>1. buf \o <<>> = buf /\ <<>> \in Seq(Byte)
    BY <1>6, ConcatEmptySeq, EmptySeq
  <2> QED
    BY <1>6, <2>1, PrefixIs
<1>8. ASSUME at = "admin" PROVE Ahead(s.admin)
  BY <1>5, <1>6, <1>8 DEF CanonInv, Ahead
<1>9. ASSUME at = "signature" PROVE Ahead(s.signature)
  <2>1. Read = c \o s.admin
    BY <1>5, <1>9 DEF CanonInv, Tracks
  <2> QED
    BY <1>6, <1>7, <2>1 DEF Ahead
<1>10. ASSUME at = "finish" PROVE pos = Len(buf)
  <2>1. Read = (c \o s.admin) \o s.signature
    BY <1>5, <1>10 DEF CanonInv, Tracks
  <2>2. Len(Read) = pos
    BY ReadLength DEF HeldInv
  <2> QED
    BY <1>6, <2>1, <2>2
<1> QED
  BY <1>4, <1>8, <1>9, <1>10
-----------------------------------------------------------------------------
(* The Reader follows *)

\* The fields of the operation that is being read, whose lengths do not wrap.
LEMMA CurrentFields ==
  ASSUME CodecAssumption, HeldInv, NEW s \in SignedTransactions, buf = EncodeSigned(s),
         Countable(s), Tracks(s), at \in {"summary", "details", "line", "payload"}
  PROVE  LET o == Current(s)
         IN  /\ o \in Operations /\ Len(tx.ops) + 1 \in DOMAIN s.ops
             /\ o.summary \in Seq(Byte) /\ Len(o.summary) < U32Range
             /\ o.payload \in Seq(Byte) /\ Len(o.payload) < U32Range
             /\ o.detail \in Seq(Text) /\ Len(o.detail) \in Nat /\ Len(o.detail) < U32Range
             /\ DOMAIN o.detail = 1..Len(o.detail)
             /\ \A n \in 1..Len(o.detail) : /\ o.detail[n] \in Seq(Byte)
                                            /\ Len(o.detail[n]) < U32Range
<1> DEFINE o == Current(s)
<1>1. o \in Operations /\ Len(tx.ops) + 1 \in 1..Len(s.ops)
  BY CurrentAhead
<1>2. Len(tx.ops) + 1 \in DOMAIN s.ops
  BY <1>1, LenProperties DEF SignedTransactions
<1>3. /\ Len(o.summary) < U32Range /\ Len(o.payload) < U32Range
      /\ Len(o.detail) < U32Range
      /\ \A n \in DOMAIN o.detail : Len(o.detail[n]) < U32Range
  BY <1>2 DEF Countable, Current
<1> HIDE DEF o
<1>4. /\ o.summary \in Seq(Byte) /\ o.payload \in Seq(Byte) /\ o.detail \in Seq(Text)
      /\ o.detail \in Seq(Seq(Byte))
  BY <1>1, TextBytes DEF Operations
<1>5. Len(o.detail) \in Nat /\ DOMAIN o.detail = 1..Len(o.detail)
  BY <1>4, LenProperties
<1>6. \A n \in 1..Len(o.detail) : o.detail[n] \in Seq(Byte)
  BY <1>4, ElementOfSeq
<1> QED
  BY <1>1, <1>2, <1>3, <1>4, <1>5, <1>6 DEF o

\* Every read finds in the buffer what s has in its place.
LEMMA TrackStep ==
  ASSUME CodecAssumption, HeldInv, CanonInv,
         NEW s \in SignedTransactions, buf = EncodeSigned(s), Countable(s), Tracks(s),
         [Next]_vars
  PROVE  Tracks(s)'
<1>1. /\ Inside /\ Width \in Nat /\ KeyLen \in Nat /\ SigLen \in Nat
      /\ s.ops \in Seq(Operations) /\ Len(s.ops) \in Nat
  BY LenProperties DEF HeldInv, CodecAssumption, SignedTransactions
<1>2. /\ s.server \in Seq(Byte) /\ Len(s.server) = KeyLen
      /\ s.nonce \in Seq(Byte) /\ Len(s.nonce) = KeyLen
      /\ s.admin \in Seq(Byte) /\ Len(s.admin) = KeyLen
      /\ s.signature \in Seq(Byte) /\ Len(s.signature) = SigLen
  BY <1>1, IsSeq DEF SignedTransactions, Array
<1>3. /\ tx \in Partial /\ tx.ops \in Seq(Operations) /\ Len(tx.ops) \in Nat
      /\ op \in [summary : Text, detail : Seq(Text)]
      /\ op.detail \in Seq(Text) /\ Len(op.detail) \in Nat /\ lines \in Nat /\ left \in Nat
  BY LenProperties DEF HeldInv, TypeOK, Partial
<1>4. ASSUME at \in {"summary", "details", "line", "payload"}
      PROVE  LET o == Current(s)
             IN  /\ o \in Operations /\ Len(tx.ops) + 1 \in 1..Len(s.ops)
                 /\ o.summary \in Seq(Byte) /\ Len(o.summary) < U32Range
                 /\ o.payload \in Seq(Byte) /\ Len(o.payload) < U32Range
                 /\ o.detail \in Seq(Text) /\ Len(o.detail) \in Nat /\ Len(o.detail) < U32Range
                 /\ \A n \in 1..Len(o.detail) : /\ o.detail[n] \in Seq(Byte)
                                                /\ Len(o.detail[n]) < U32Range
  BY <1>1, <1>4, CurrentFields, CurrentAhead
<1>5. CASE ReadArray("server", KeyLen, "nonce")
  <2>1. at = "server" /\ at' = "nonce" /\ tx' = [tx EXCEPT !["server"] = Slice(KeyLen)]
    BY <1>5 DEF ReadArray, Go
  <2>2. Slice(KeyLen) = s.server
    BY <1>1, <1>2, <2>1, FrontAhead, TakeAhead
  <2>3. tx'.server = s.server
    BY <1>3, <2>1, <2>2 DEF Partial
  <2> QED
    BY <2>1, <2>3 DEF Tracks
<1>6. CASE ReadArray("nonce", KeyLen, "ops")
  <2>1. at = "nonce" /\ at' = "ops" /\ tx' = [tx EXCEPT !["nonce"] = Slice(KeyLen)]
    BY <1>6 DEF ReadArray, Go
  <2>2. Slice(KeyLen) = s.nonce
    BY <1>1, <1>2, <2>1, FrontAhead, TakeAhead
  <2>3. tx'.nonce = s.nonce /\ tx'.server = tx.server
    BY <1>3, <2>1, <2>2 DEF Partial
  <2>4. tx.server = s.server
    BY <2>1 DEF Tracks
  <2> QED
    BY <2>1, <2>3, <2>4 DEF Tracks
<1>7. CASE ReadOps
  <2>1. /\ at = "ops" /\ at' \in {"admin", "summary"} /\ left' = U32 /\ tx' = tx
    BY <1>7 DEF ReadOps, Go
  <2>2. U32 = Len(s.ops)
    BY <1>1, <2>1, FrontAhead, U32Ahead DEF Countable
  <2>3. tx.ops = <<>> /\ tx.server = s.server /\ tx.nonce = s.nonce
    BY <2>1 DEF HeldInv, Tracks
  <2>4. Len(tx.ops) = 0 /\ SubSeq(s.ops, 1, 0) = <<>>
    BY <2>3, SubSeqEmpty
  <2>5. tx'.ops = SubSeq(s.ops, 1, Len(tx'.ops)) /\ Len(tx'.ops) + left' = Len(s.ops)
    BY <1>1, <2>1, <2>2, <2>3, <2>4
  <2> QED
    BY <2>1, <2>3, <2>5 DEF Tracks
<1>8. ASSUME at' \in {"summary", "details", "line", "payload", "admin"},
             at \notin {"server", "nonce", "ops", "malformed"},
             UNCHANGED <<tx, left>>,
             at' \in {"details", "line", "payload"} => op'.summary = Current(s).summary,
             at' \in {"line", "payload"} =>
               LET d == Current(s).detail
               IN  op'.detail = SubSeq(d, 1, Len(op'.detail)) /\ Len(op'.detail) + lines' = Len(d)
      PROVE  Tracks(s)'
  <2>1. Current(s)' = Current(s)
    BY <1>8 DEF Current
  <2> QED
    BY <1>8, <2>1 DEF Tracks
<1>9. CASE ReadSummary
  <2>1. /\ at = "summary" /\ at' = "details" /\ UNCHANGED <<tx, left>>
        /\ op' = [summary |-> Field, detail |-> <<>>]
    BY <1>9 DEF ReadSummary, Go
  <2>2. Field = Current(s).summary
    BY <1>1, <1>4, <2>1, PartsAhead, FieldAhead
  <2> QED
    BY <1>8, <2>1, <2>2
<1>10. CASE ReadDetails
  <2>1. /\ at = "details" /\ at' \in {"payload", "line"} /\ UNCHANGED <<tx, left>>
        /\ op' = op /\ lines' = U32
    BY <1>10 DEF ReadDetails, Go
  <2> DEFINE d == Current(s).detail
  <2>2. Len(d) \in Nat /\ Len(d) < U32Range
    BY <1>4, <2>1
  <2>3. U32 = Len(d)
    <3>1. Ahead(Be(Len(d)))
      BY <2>1, PartsAhead
    <3> HIDE DEF d
    <3> QED
      BY <1>1, <2>2, <3>1, U32Ahead
  <2>4. op.detail = <<>> /\ op.summary = Current(s).summary
    BY <2>1 DEF HeldInv, Tracks
  <2>5. Len(op.detail) = 0 /\ SubSeq(d, 1, 0) = <<>>
    BY <2>4, SubSeqEmpty
  <2>6. op'.detail = SubSeq(d, 1, Len(op'.detail)) /\ Len(op'.detail) + lines' = Len(d)
    <3> HIDE DEF d
    <3> QED
      BY <2>1, <2>2, <2>3, <2>4, <2>5
  <2> QED
    BY <1>8, <2>1, <2>4, <2>6
<1>11. CASE ReadLine
  <2>1. /\ at = "line" /\ at' \in {"payload", "line"} /\ UNCHANGED <<tx, left>>
        /\ op' = [op EXCEPT !.detail = Append(op.detail, Field)] /\ lines' = lines - 1
    BY <1>11 DEF ReadLine, Go
  <2> DEFINE d == Current(s).detail
             i == Len(op.detail) + 1
  <2>2. i \in 1..Len(d) /\ Ahead(PutBytes(d[i]))
    BY <2>1, PartsAhead
  <2>3. d \in Seq(Text) /\ d[i] \in Seq(Byte) /\ Len(d[i]) < U32Range
    BY <1>4, <2>1, <2>2
  <2>4. op.detail = SubSeq(d, 1, Len(op.detail)) /\ Len(op.detail) + lines = Len(d)
        /\ op.summary = Current(s).summary
    BY <2>1 DEF Tracks
  <2> HIDE DEF d
  <2>5. Field = d[i]
    BY <1>1, <2>2, <2>3, FieldAhead
  <2>6. i - 1 = Len(op.detail) /\ SubSeq(d, 1, i) = Append(SubSeq(d, 1, i - 1), d[i])
    BY <1>3, <2>2, <2>3, OneMore
  <2>7. op'.detail = Append(op.detail, Field) /\ op'.summary = op.summary
    BY <1>3, <2>1
  <2>8. op'.detail = SubSeq(d, 1, i)
    BY <2>4, <2>5, <2>6, <2>7, Zenon
  <2>9. Len(op'.detail) = i
    <3>1. d[i] \in Text
      BY <2>2, <2>3, ElementOfSeq
    <3> QED
      BY <1>3, <2>5, <2>7, <3>1, AppendProperties
  <2>10. op'.detail = SubSeq(d, 1, Len(op'.detail))
    BY <2>8, <2>9, Zenon
  <2>11. Len(op'.detail) + lines' = Len(d)
    BY <1>3, <2>1, <2>4, <2>9
  <2> QED
    BY <1>8, <2>1, <2>4, <2>7, <2>10, <2>11 DEF d
<1>12. CASE ReadPayload
  <2> DEFINE o == Current(s)
             i == Len(tx.ops) + 1
             r == [summary |-> op.summary, detail |-> op.detail, payload |-> Field]
  <2>1. /\ at = "payload" /\ at' \in {"admin", "summary"} /\ left' = left - 1
        /\ tx' = [tx EXCEPT !.ops = Append(tx.ops, r)]
    BY <1>12 DEF ReadPayload, Go
  <2>2. Field = o.payload
    BY <1>1, <1>4, <2>1, PartsAhead, FieldAhead
  <2>3. op.summary = o.summary /\ op.detail = o.detail
    BY <2>1, PartsAhead DEF Tracks
  <2>4. o \in Operations /\ o = s.ops[i] /\ i \in 1..Len(s.ops)
    BY <1>4, <2>1 DEF Current
  <2> HIDE DEF o
  <2>5. r = o
    BY <2>2, <2>3, <2>4 DEF Operations
  <2> HIDE DEF r
  <2>6. /\ tx'.ops = Append(tx.ops, o) /\ tx'.server = tx.server /\ tx'.nonce = tx.nonce
    BY <1>3, <2>1, <2>5 DEF Partial
  <2>7. /\ tx.ops = SubSeq(s.ops, 1, Len(tx.ops)) /\ Len(tx.ops) + left = Len(s.ops)
        /\ tx.server = s.server /\ tx.nonce = s.nonce
    BY <2>1 DEF Tracks
  <2>8. i - 1 = Len(tx.ops) /\ SubSeq(s.ops, 1, i) = Append(SubSeq(s.ops, 1, i - 1), s.ops[i])
    BY <1>1, <1>3, <2>4, OneMore
  <2>9. tx'.ops = SubSeq(s.ops, 1, i)
    BY <2>4, <2>6, <2>7, <2>8, Zenon
  <2>10. Len(tx'.ops) = i
    BY <1>3, <2>4, <2>6, AppendProperties
  <2>11. tx'.ops = SubSeq(s.ops, 1, Len(tx'.ops))
    BY <2>9, <2>10, Zenon
  <2>12. Len(tx'.ops) + left' = Len(s.ops)
    BY <1>3, <2>1, <2>7, <2>10
  <2> QED
    BY <2>1, <2>6, <2>7, <2>11, <2>12 DEF Tracks
<1>13. CASE ReadArray("admin", KeyLen, "signature")
  <2>1. /\ at = "admin" /\ at' = "signature" /\ tx' = [tx EXCEPT !["admin"] = Slice(KeyLen)]
        /\ left' = left
    BY <1>13 DEF ReadArray, Go
  <2>2. Slice(KeyLen) = s.admin
    BY <1>1, <1>2, <2>1, EndAhead, TakeAhead
  <2>3. /\ tx'.admin = s.admin /\ tx'.server = tx.server /\ tx'.nonce = tx.nonce
        /\ tx'.ops = tx.ops
    BY <1>3, <2>1, <2>2 DEF Partial
  <2> QED
    BY <2>1, <2>3 DEF Tracks
<1>14. CASE ReadArray("signature", SigLen, "finish")
  <2>1. /\ at = "signature" /\ at' = "finish"
        /\ tx' = [tx EXCEPT !["signature"] = Slice(SigLen)] /\ left' = left
    BY <1>14 DEF ReadArray, Go
  <2>2. Slice(SigLen) = s.signature
    BY <1>1, <1>2, <2>1, EndAhead, TakeAhead
  <2>3. /\ tx'.signature = s.signature /\ tx'.server = tx.server /\ tx'.nonce = tx.nonce
        /\ tx'.ops = tx.ops /\ tx'.admin = tx.admin
    BY <1>3, <2>1, <2>2 DEF Partial
  <2> QED
    BY <2>1, <2>3 DEF Tracks
<1>15. CASE Finish
  <2>1. at = "finish" /\ at' = "ok" /\ UNCHANGED <<left, lines, op, tx>>
    BY <1>15 DEF Finish, Go
  <2> QED
    BY <2>1 DEF Tracks
<1>16. CASE Refuse
  <2>1. at' = "malformed"
    BY <1>16 DEF Refuse, Go
  <2> QED
    BY <2>1 DEF Tracks
<1>17. CASE UNCHANGED vars
  BY <1>17 DEF vars, Tracks, Current
<1> QED
  BY <1>5, <1>6, <1>7, <1>9, <1>10, <1>11, <1>12, <1>13, <1>14, <1>15, <1>16, <1>17 DEF Next

\* The Reader refuses nothing of a transaction that is within the bounds.
LEMMA BoundsAccepted ==
  ASSUME CodecAssumption, HeldInv, CanonInv,
         NEW s \in SignedTransactions, buf = EncodeSigned(s), Countable(s), Tracks(s),
         InBounds(s), at \notin {"ok", "malformed"}
  PROVE  Accepts
<1>1. /\ Inside /\ KeyLen \in Nat /\ SigLen \in Nat /\ Len(s.ops) \in Nat
  BY LenProperties DEF HeldInv, CodecAssumption, SignedTransactions
<1>2. /\ s.server \in Seq(Byte) /\ Len(s.server) = KeyLen
      /\ s.nonce \in Seq(Byte) /\ Len(s.nonce) = KeyLen
      /\ s.admin \in Seq(Byte) /\ Len(s.admin) = KeyLen
      /\ s.signature \in Seq(Byte) /\ Len(s.signature) = SigLen
  BY <1>1, IsSeq DEF SignedTransactions, Array
<1>3. ASSUME at \in {"summary", "details", "line", "payload"}
      PROVE  LET o == Current(s)
             IN  /\ Len(o.summary) <= MAX_STR /\ Len(o.payload) <= MAX_PAYLOAD
                 /\ Len(o.detail) <= MAX_DETAIL
                 /\ \A n \in 1..Len(o.detail) : Len(o.detail[n]) <= MAX_STR
  BY <1>3, CurrentFields DEF InBounds, Short, Current
<1>4. ASSUME NEW x \in Text, Len(x) <= MAX_STR, Len(x) < U32Range, Ahead(PutBytes(x))
      PROVE  String(MAX_STR)
  <2>1. x \in Seq(Byte)
    BY TextBytes
  <2>2. Take(Width) /\ U32 = Len(x) /\ Take(Width + U32) /\ Field = x
    BY <1>1, <1>4, <2>1, FieldAhead
  <2>3. \A i \in DOMAIN x : x[i] \in Byte \ NotText
    BY ElementOfSeq, LenProperties DEF Text
  <2> QED
    BY <1>4, <2>2, <2>3 DEF String, Bytes
<1>5. CASE at \in {"server", "nonce", "admin"}
  <2>1. Take(KeyLen)
    BY <1>1, <1>2, <1>5, FrontAhead, EndAhead, TakeAhead
  <2> QED
    BY <1>5, <2>1 DEF Accepts
<1>6. CASE at = "signature"
  <2>1. Take(SigLen)
    BY <1>1, <1>2, <1>6, EndAhead, TakeAhead
  <2> QED
    BY <1>6, <2>1 DEF Accepts
<1>7. CASE at = "ops"
  <2>1. Take(Width) /\ U32 = Len(s.ops)
    BY <1>1, <1>7, FrontAhead, U32Ahead DEF Countable
  <2>2. Len(s.ops) <= MAX_OPS
    BY DEF InBounds, Short
  <2>3. Count(MAX_OPS)
    BY <2>1, <2>2 DEF Count
  <2> QED
    BY <1>7, <2>3 DEF Accepts
<1>8. CASE at = "summary"
  <2>1. Current(s).summary \in Text
    BY <1>8, CurrentFields DEF Operations
  <2>2. String(MAX_STR)
    BY <1>3, <1>4, <1>8, <2>1, CurrentFields, PartsAhead
  <2> QED
    BY <1>8, <2>2 DEF Accepts
<1>9. CASE at = "details"
  <2> DEFINE n == Len(Current(s).detail)
  <2>1. n \in Nat /\ n < U32Range /\ n <= MAX_DETAIL
    BY <1>3, <1>9, CurrentFields
  <2>2. Ahead(Be(n))
    BY <1>9, PartsAhead
  <2> HIDE DEF n
  <2>3. Take(Width) /\ U32 = n
    BY <1>1, <2>1, <2>2, U32Ahead
  <2>4. Count(MAX_DETAIL)
    BY <2>1, <2>3 DEF Count
  <2> QED
    BY <1>9, <2>4 DEF Accepts
<1>10. CASE at = "line"
  <2> DEFINE d == Current(s).detail
             i == Len(op.detail) + 1
  <2>1. i \in 1..Len(d) /\ Ahead(PutBytes(d[i]))
    BY <1>10, PartsAhead
  <2>2. d \in Seq(Text) /\ Len(d[i]) < U32Range /\ Len(d[i]) <= MAX_STR
    BY <1>3, <1>10, <2>1, CurrentFields
  <2> HIDE DEF d, i
  <2>3. d[i] \in Text
    BY <2>1, <2>2, ElementOfSeq
  <2>4. String(MAX_STR)
    BY <1>4, <2>1, <2>2, <2>3
  <2> QED
    BY <1>10, <2>4 DEF Accepts
<1>11. CASE at = "payload"
  <2> DEFINE x == Current(s).payload
  <2>1. x \in Seq(Byte) /\ Len(x) < U32Range /\ Len(x) <= MAX_PAYLOAD
    BY <1>3, <1>11, CurrentFields
  <2>2. Ahead(PutBytes(x))
    BY <1>11, PartsAhead
  <2> HIDE DEF x
  <2>3. Take(Width) /\ U32 = Len(x) /\ Take(Width + U32)
    BY <1>1, <2>1, <2>2, FieldAhead
  <2>4. Bytes(MAX_PAYLOAD)
    BY <2>1, <2>3 DEF Bytes
  <2> QED
    BY <1>11, <2>4 DEF Accepts
<1>12. CASE at = "finish"
  <2>1. pos = Len(buf)
    BY <1>12, EndAhead
  <2> QED
    BY <1>12, <2>1 DEF Accepts
<1>13. at \in {"server", "nonce", "ops", "summary", "details", "line", "payload",
              "admin", "signature", "finish"}
  BY DEF HeldInv, TypeOK
<1> QED
  BY <1>5, <1>6, <1>7, <1>8, <1>9, <1>10, <1>11, <1>12, <1>13

\* No step touches the buffer, and only one of them refuses.
LEMMA OnlyRefuse ==
  ASSUME [Next]_vars
  PROVE  /\ sent' = sent /\ buf' = buf
         /\ at' = "malformed" => at = "malformed" \/ (at # "ok" /\ ~ Accepts)
<1>1. ASSUME NEW f, NEW n, NEW to \in {"nonce", "ops", "signature", "finish"}, ReadArray(f, n, to)
      PROVE  sent' = sent /\ buf' = buf /\ at' # "malformed"
  BY <1>1 DEF ReadArray, Go
<1>2. CASE ReadArray("server", KeyLen, "nonce") \/ ReadArray("nonce", KeyLen, "ops")
           \/ ReadArray("admin", KeyLen, "signature") \/ ReadArray("signature", SigLen, "finish")
  BY <1>1, <1>2
<1>3. CASE ReadOps \/ ReadSummary \/ ReadDetails \/ ReadLine \/ ReadPayload \/ Finish
  BY <1>3 DEF ReadOps, ReadSummary, ReadDetails, ReadLine, ReadPayload, Finish, Go
<1>4. CASE Refuse
  BY <1>4 DEF Refuse, Go
<1>5. CASE UNCHANGED vars
  BY <1>5 DEF vars
<1> QED
  BY <1>2, <1>3, <1>4, <1>5 DEF Next

\* What was read so far is the encoding of it, at every read.
THEOREM CanonInvariance == Spec => []CanonInv
<1>1. Init => CanonInv
  BY CanonInit, CodecAssumption
<1>2. HeldInv /\ CanonInv /\ [Next]_vars => CanonInv'
  BY CanonStep, CodecAssumption
<1> QED
  BY <1>1, <1>2, HeldInvariance, PTL DEF Spec

\* The Reader of an encoding follows the transaction, to the bound it breaks.
THEOREM RoundTripInvariance == Spec => []RoundTripInv
<1>1. Init => RoundTripInv
  <2> SUFFICES ASSUME Init, NEW s \in sent
               PROVE  /\ s \in Signed /\ buf = EncodeSigned(s)
                      /\ Countable(s) => Tracks(s)
                      /\ at = "malformed" => ~ InBounds(s)
    BY DEF RoundTripInv
  <2>1. s \in Signed /\ buf = EncodeSigned(s) /\ at = "server"
    BY DEF Init
  <2> QED
    BY <2>1 DEF Tracks
<1>2. HeldInv /\ CanonInv /\ RoundTripInv /\ [Next]_vars => RoundTripInv'
  <2> SUFFICES ASSUME HeldInv, CanonInv, RoundTripInv, [Next]_vars, NEW s \in sent'
               PROVE  /\ s \in Signed /\ buf' = EncodeSigned(s)
                      /\ Countable(s) => Tracks(s)'
                      /\ at' = "malformed" => ~ InBounds(s)
    BY DEF RoundTripInv
  <2>1. /\ s \in SignedTransactions /\ s \in Signed /\ buf = EncodeSigned(s) /\ buf' = buf
        /\ Countable(s) => Tracks(s)
        /\ at = "malformed" => ~ InBounds(s)
    BY OnlyRefuse, CodecAssumption DEF RoundTripInv, CodecAssumption
  <2>2. Countable(s) => Tracks(s)'
    BY <2>1, TrackStep, CodecAssumption
  <2>3. ASSUME at' = "malformed", InBounds(s) PROVE FALSE
    <3>1. Countable(s) /\ Tracks(s)
      BY <2>1, <2>3, BoundsCountable, CodecAssumption
    <3>2. at \notin {"ok", "malformed"} /\ ~ Accepts
      BY <2>1, <2>3, OnlyRefuse
    <3> QED
      BY <2>1, <2>3, <3>1, <3>2, BoundsAccepted, CodecAssumption
  <2> QED
    BY <2>1, <2>2, <2>3
<1> QED
  BY <1>1, <1>2, HeldInvariance, CanonInvariance, PTL DEF Spec

\* tx.rs, encode and decode: a transaction within the bounds is decoded to
\* itself, and the encoding of one whose lengths wrap is decoded to nothing.
THEOREM DecodedSent == Spec => []DecodedIsSent
<1>1. HeldInv /\ CanonInv /\ AcceptedIsShort /\ RoundTripInv => DecodedIsSent
  <2> SUFFICES ASSUME HeldInv, CanonInv, AcceptedIsShort, RoundTripInv, NEW s \in sent
               PROVE  /\ at = "ok" => tx = s
                      /\ at = "malformed" => ~ InBounds(s)
    BY DEF DecodedIsSent
  <2>1. /\ s \in SignedTransactions /\ buf = EncodeSigned(s)
        /\ Countable(s) => Tracks(s)
        /\ at = "malformed" => ~ InBounds(s)
    BY CodecAssumption DEF RoundTripInv, CodecAssumption
  <2>2. ASSUME at = "ok" PROVE tx = s
    <3>1. Len(EncodeSigned(s)) <= BodySize
      BY <2>1, <2>2 DEF AcceptedIsShort
    <3>2. Tracks(s)
      BY <2>1, <3>1, BodyCountable, ShortCountable, CodecAssumption
    <3>3. /\ tx.server = s.server /\ tx.nonce = s.nonce /\ tx.ops = s.ops
          /\ tx.admin = s.admin /\ tx.signature = s.signature
      BY <2>1, <2>2, <3>2, EndAhead, CodecAssumption DEF Tracks
    <3>4. /\ tx = [server |-> tx.server, nonce |-> tx.nonce, ops |-> tx.ops,
                 admin |-> tx.admin, signature |-> tx.signature]
          /\ s = [server |-> s.server, nonce |-> s.nonce, ops |-> s.ops,
                 admin |-> s.admin, signature |-> s.signature]
      <4>1. tx \in Partial
        BY DEF HeldInv
      <4> QED
        BY <2>1, <4>1 DEF Partial, SignedTransactions
    <3> QED
      BY <3>3, <3>4, Zenon
  <2> QED
    BY <2>1, <2>2
<1> QED
  BY <1>1, HeldInvariance, CanonInvariance, AcceptedShort, RoundTripInvariance, PTL
-----------------------------------------------------------------------------
(* One batch for the bytes that are signed *)

\* Parts of the same length in the same place are the same.
LEMMA SamePart ==
  ASSUME NEW p \in Seq(Byte), NEW x \in Seq(Byte), NEW y \in Seq(Byte), NEW b \in Seq(Byte),
         IsPrefix(p \o x, b), IsPrefix(p \o y, b), Len(x) = Len(y)
  PROVE  x = y
<1>1. SubSeq(b, Len(p) + 1, Len(p) + Len(x)) = x
  BY PartFound
<1>2. SubSeq(b, Len(p) + 1, Len(p) + Len(y)) = y
  BY PartFound
<1> QED
  BY <1>1, <1>2

\* Counts in the same place are the same.
LEMMA SameCount ==
  ASSUME CodecAssumption, NEW m \in Nat, NEW n \in Nat, m < U32Range, n < U32Range,
         NEW p \in Seq(Byte), NEW b \in Seq(Byte),
         IsPrefix(p \o Be(m), b), IsPrefix(p \o Be(n), b)
  PROVE  m = n
<1>1. Width \in Nat
  BY DEF CodecAssumption
<1>2. /\ Be(m) \in Seq(Byte) /\ Len(Be(m)) = Width
      /\ Be(n) \in Seq(Byte) /\ Len(Be(n)) = Width
  BY <1>1, BeBytes, IsSeq DEF Array
<1>3. Be(m) = Be(n)
  BY <1>2, SamePart
<1>4. Number(Be(m)) = m /\ Number(Be(n)) = n
  BY NumberOfBe
<1> QED
  BY <1>3, <1>4

\* A field is its length and then its bytes.
LEMMA FieldSplit ==
  \A p, x \in Seq(Byte) :
    CodecAssumption => /\ Be(Len(x)) \in Seq(Byte) /\ p \o Be(Len(x)) \in Seq(Byte)
                       /\ p \o PutBytes(x) = (p \o Be(Len(x))) \o x
<1> SUFFICES ASSUME CodecAssumption, NEW p \in Seq(Byte), NEW x \in Seq(Byte)
             PROVE  /\ Be(Len(x)) \in Seq(Byte) /\ p \o Be(Len(x)) \in Seq(Byte)
                    /\ p \o PutBytes(x) = (p \o Be(Len(x))) \o x
  OBVIOUS
<1> DEFINE n == Be(Len(x))
<1>1. n \in Seq(Byte)
  BY PutBytesBytes
<1>2. PutBytes(x) = n \o x
  BY DEF PutBytes
<1> HIDE DEF n
<1>3. p \o n \in Seq(Byte) /\ (p \o n) \o x = p \o (n \o x)
  BY <1>1, Associative
<1> QED
  BY <1>1, <1>2, <1>3 DEF n

\* A field in its place: its length, and behind it its bytes.
LEMMA FieldParts ==
  ASSUME CodecAssumption, NEW p \in Seq(Byte), NEW x \in Seq(Byte), NEW b \in Seq(Byte),
         IsPrefix(p \o PutBytes(x), b)
  PROVE  /\ Be(Len(x)) \in Seq(Byte) /\ p \o Be(Len(x)) \in Seq(Byte)
         /\ IsPrefix(p \o Be(Len(x)), b) /\ IsPrefix((p \o Be(Len(x))) \o x, b)
<1> DEFINE q == p \o Be(Len(x))
<1>1. Be(Len(x)) \in Seq(Byte) /\ q \in Seq(Byte) /\ p \o PutBytes(x) = q \o x
  BY FieldSplit
<1>2. IsPrefix(q \o x, b)
  BY <1>1
<1> HIDE DEF q
<1>3. q \o x \in Seq(Byte) /\ IsPrefix(q, q \o x)
  BY <1>1, PrefixOfConcat
<1>4. IsPrefix(q, b)
  BY <1>1, <1>2, <1>3, PrefixTransitive
<1> QED
  BY <1>1, <1>2, <1>4 DEF q

\* Fields in the same place are the same.
LEMMA SameField ==
  ASSUME CodecAssumption, NEW x \in Seq(Byte), NEW y \in Seq(Byte),
         Len(x) < U32Range, Len(y) < U32Range, NEW p \in Seq(Byte), NEW b \in Seq(Byte),
         IsPrefix(p \o PutBytes(x), b), IsPrefix(p \o PutBytes(y), b)
  PROVE  x = y
<1> DEFINE m == Be(Len(x))
           n == Be(Len(y))
<1>1. /\ p \o m \in Seq(Byte) /\ IsPrefix(p \o m, b) /\ IsPrefix((p \o m) \o x, b)
      /\ p \o n \in Seq(Byte) /\ IsPrefix(p \o n, b) /\ IsPrefix((p \o n) \o y, b)
  BY FieldParts
<1>2. Len(x) \in Nat /\ Len(y) \in Nat
  BY LenProperties
<1>3. Len(x) = Len(y)
  BY <1>1, <1>2, SameCount
<1>4. m = n
  BY <1>3
<1> HIDE DEF m, n
<1> QED
  BY <1>1, <1>3, <1>4, SamePart

\* Sequences of the same length whose elements agree one after the other are
\* the same.
LEMMA SameElements ==
  ASSUME NEW S, NEW s \in Seq(S), NEW t \in Seq(S), Len(s) = Len(t),
         \A k \in 1..Len(s) : SubSeq(s, 1, k - 1) = SubSeq(t, 1, k - 1) => s[k] = t[k]
  PROVE  s = t
<1> DEFINE n == Len(s)
           P == {k \in 0..n : SubSeq(s, 1, k) = SubSeq(t, 1, k)}
<1>1. n \in Nat
  BY LenProperties
<1>2. 0 \in P
  <2>1. SubSeq(s, 1, 0) = <<>> /\ SubSeq(t, 1, 0) = <<>>
    BY SubSeqEmpty
  <2> QED
    BY <1>1, <2>1
<1>3. ASSUME NEW k \in 1..n, k - 1 \in P
      PROVE  k \in P
  <2>1. SubSeq(s, 1, k - 1) = SubSeq(t, 1, k - 1)
    BY <1>3
  <2>2. s[k] = t[k]
    BY <2>1
  <2>3. SubSeq(s, 1, k) = Append(SubSeq(s, 1, k - 1), s[k])
    BY OneMore
  <2>4. SubSeq(t, 1, k) = Append(SubSeq(t, 1, k - 1), t[k])
    <3>1. k \in 1..Len(t)
      OBVIOUS
    <3> QED
      BY <3>1, OneMore
  <2>5. SubSeq(s, 1, k) = SubSeq(t, 1, k)
    BY <2>1, <2>2, <2>3, <2>4, Zenon
  <2>6. k \in 0..n
    BY <1>1
  <2> QED
    BY <2>5, <2>6
<1>4. \A k \in 0..n : k \in P
  <2> HIDE DEF P, n
  <2> QED
    BY <1>1, <1>2, <1>3, UpTo
<1>5. SubSeq(s, 1, n) = SubSeq(t, 1, n)
  <2>1. n \in 0..n
    BY <1>1
  <2> QED
    BY <1>4, <2>1
<1>6. SubSeq(s, 1, Len(s)) = s /\ SubSeq(t, 1, Len(t)) = t
  BY SubSeqFull
<1> QED
  BY <1>5, <1>6

\* Operations in the same place are the same.
LEMMA SameOperation ==
  ASSUME CodecAssumption, NEW o \in Operations, NEW q \in Operations,
         NEW p \in Seq(Byte), NEW b \in Seq(Byte),
         IsPrefix(p \o EncodeOp(o), b), IsPrefix(p \o EncodeOp(q), b),
         Len(o.summary) < U32Range, Len(o.payload) < U32Range, Len(o.detail) < U32Range,
         \A n \in DOMAIN o.detail : Len(o.detail[n]) < U32Range,
         Len(q.summary) < U32Range, Len(q.payload) < U32Range, Len(q.detail) < U32Range,
         \A n \in DOMAIN q.detail : Len(q.detail[n]) < U32Range
  PROVE  o = q
<1> DEFINE F(r, a, x) == a \in Seq(Byte) /\ x \in Seq(Byte) /\ IsPrefix(a \o x, EncodeOp(r))
           H(r) == PutBytes(r.summary) \o Be(Len(r.detail))
<1>1. ASSUME NEW r \in Operations
      PROVE  /\ r.summary \in Seq(Byte) /\ r.payload \in Seq(Byte)
             /\ r.detail \in Seq(Seq(Byte)) /\ Len(r.detail) \in Nat
             /\ DOMAIN r.detail = 1..Len(r.detail)
             /\ EncodeOp(r) \in Seq(Byte)
             /\ PutBytes(r.summary) \in Seq(Byte) /\ PutBytes(r.payload) \in Seq(Byte)
             /\ Be(Len(r.detail)) \in Seq(Byte) /\ Each(PutBytes, r.detail) \in Seq(Byte)
             /\ H(r) \in Seq(Byte)
  <2>1. r.summary \in Seq(Byte) /\ r.payload \in Seq(Byte) /\ r.detail \in Seq(Seq(Byte))
    BY TextBytes DEF Operations
  <2>2. Len(r.detail) \in Nat /\ DOMAIN r.detail = 1..Len(r.detail) /\ Width \in Nat
    BY <2>1, LenProperties DEF CodecAssumption
  <2>3. Be(Len(r.detail)) \in Seq(Byte)
    BY <2>2, BeBytes, IsSeq DEF Array
  <2>4. /\ PutBytes(r.summary) \in Seq(Byte) /\ PutBytes(r.payload) \in Seq(Byte)
        /\ Each(PutBytes, r.detail) \in Seq(Byte)
    BY <2>1, PutBytesBytes, EachLine
  <2> QED
    BY <2>1, <2>2, <2>3, <2>4, EncodeOpBytes, Associative
<1>2. ASSUME NEW r \in Operations, IsPrefix(p \o EncodeOp(r), b), NEW a, NEW x, F(r, a, x)
      PROVE  IsPrefix((p \o a) \o x, b)
  <2> DEFINE y == EncodeOp(r)
  <2>1. y \in Seq(Byte) /\ IsPrefix(p \o y, b) /\ F(r, a, x)
    BY <1>1, <1>2
  <2> HIDE DEF y
  <2>2. a \in Seq(Byte) /\ x \in Seq(Byte) /\ IsPrefix(a \o x, y)
    BY <2>1 DEF y
  <2> QED
    BY <2>1, <2>2, PartOfPart, Zenon
<1>3. ASSUME NEW r \in Operations
      PROVE  /\ F(r, <<>>, PutBytes(r.summary))
             /\ F(r, PutBytes(r.summary), Be(Len(r.detail)))
             /\ \A k \in 1..Len(r.detail) :
                  F(r, H(r) \o Each(PutBytes, SubSeq(r.detail, 1, k - 1)), PutBytes(r.detail[k]))
             /\ F(r, H(r) \o Each(PutBytes, r.detail), PutBytes(r.payload))
  <2>1. F(r, <<>>, PutBytes(r.summary))
    <3>1. <<>> \o PutBytes(r.summary) = PutBytes(r.summary) /\ <<>> \in Seq(Byte)
      BY <1>1, ConcatEmptySeq, EmptySeq
    <3> QED
      BY <1>1, <3>1, OperationParts
  <2>2. F(r, PutBytes(r.summary), Be(Len(r.detail)))
    BY <1>1, OperationParts
  <2>3. ASSUME NEW k \in 1..Len(r.detail)
        PROVE  F(r, H(r) \o Each(PutBytes, SubSeq(r.detail, 1, k - 1)), PutBytes(r.detail[k]))
    <3>1. r.detail[k] \in Seq(Byte)
      BY <1>1, ElementOfSeq
    <3>2. PutBytes(r.detail[k]) \in Seq(Byte)
      BY <3>1, PutBytesBytes
    <3> QED
      BY <3>2, OperationParts
  <2>4. F(r, H(r) \o Each(PutBytes, r.detail), PutBytes(r.payload))
    <3> DEFINE a == H(r) \o Each(PutBytes, r.detail)
               z == PutBytes(r.payload)
               y == EncodeOp(r)
    <3>1. a \in Seq(Byte) /\ z \in Seq(Byte) /\ y \in Seq(Byte)
      BY <1>1, Associative
    <3>2. y = a \o z
      BY DEF EncodeOp
    <3> HIDE DEF a, z, y
    <3>3. y \o <<>> = y /\ <<>> \in Seq(Byte)
      BY <3>1, ConcatEmptySeq, EmptySeq
    <3>4. IsPrefix(a \o z, y)
      BY <3>1, <3>2, <3>3, PrefixIs
    <3> QED
      BY <3>1, <3>4 DEF a, z, y
  <2> QED
    BY <2>1, <2>2, <2>3, <2>4
<1> HIDE DEF F
<1>4. ASSUME NEW a, NEW x, NEW y, F(o, a, x), F(q, a, y)
      PROVE  p \o a \in Seq(Byte) /\ IsPrefix((p \o a) \o x, b) /\ IsPrefix((p \o a) \o y, b)
  BY <1>2, <1>4, Associative DEF F
<1> HIDE DEF H
<1>5. o.summary = q.summary
  <2> DEFINE x == o.summary
             y == q.summary
  <2>1. F(o, <<>>, PutBytes(x)) /\ F(q, <<>>, PutBytes(y))
    BY <1>3
  <2>2. x \in Seq(Byte) /\ Len(x) < U32Range /\ y \in Seq(Byte) /\ Len(y) < U32Range
    BY <1>1
  <2> HIDE DEF x, y
  <2>3. x = y
    BY <1>4, <2>1, <2>2, SameField
  <2> QED
    BY <2>3 DEF x, y
<1>6. Len(o.detail) = Len(q.detail)
  <2> DEFINE m == Len(o.detail)
             n == Len(q.detail)
             a == PutBytes(o.summary)
  <2>1. F(o, a, Be(m)) /\ F(q, a, Be(n))
    BY <1>3, <1>5
  <2>2. m \in Nat /\ m < U32Range /\ n \in Nat /\ n < U32Range
    BY <1>1
  <2> HIDE DEF m, n, a
  <2>3. m = n
    BY <1>4, <2>1, <2>2, SameCount
  <2> QED
    BY <2>3 DEF m, n
<1>7. H(o) = H(q)
  BY <1>5, <1>6 DEF H
<1>8. o.detail = q.detail
  <2>1. ASSUME NEW k \in 1..Len(o.detail),
               SubSeq(o.detail, 1, k - 1) = SubSeq(q.detail, 1, k - 1)
        PROVE  o.detail[k] = q.detail[k]
    <3> DEFINE a == H(o) \o Each(PutBytes, SubSeq(o.detail, 1, k - 1))
               x == o.detail[k]
               y == q.detail[k]
    <3>1. F(o, a, PutBytes(x)) /\ F(q, a, PutBytes(y))
      BY <1>3, <1>6, <1>7, <2>1
    <3>2. /\ x \in Seq(Byte) /\ y \in Seq(Byte)
          /\ Len(x) < U32Range /\ Len(y) < U32Range
      BY <1>1, <1>6, ElementOfSeq
    <3> HIDE DEF a, x, y
    <3>3. x = y
      BY <1>4, <3>1, <3>2, SameField
    <3> QED
      BY <3>3 DEF x, y
  <2> QED
    BY <1>1, <1>6, <2>1, SameElements
<1>9. o.payload = q.payload
  <2> DEFINE a == H(o) \o Each(PutBytes, o.detail)
             x == o.payload
             y == q.payload
  <2>1. F(o, a, PutBytes(x)) /\ F(q, a, PutBytes(y))
    BY <1>3, <1>7, <1>8
  <2>2. x \in Seq(Byte) /\ Len(x) < U32Range /\ y \in Seq(Byte) /\ Len(y) < U32Range
    BY <1>1
  <2> HIDE DEF a, x, y
  <2>3. x = y
    BY <1>4, <2>1, <2>2, SameField
  <2> QED
    BY <2>3 DEF x, y
<1> QED
  BY <1>5, <1>8, <1>9 DEF Operations

\* Transactions with the same bytes to sign, of which nothing wraps, are the
\* same batch for the same server and nonce.
LEMMA SameBatch ==
  ASSUME CodecAssumption, NEW t \in SignedTransactions, NEW u \in SignedTransactions,
         Countable(t), Countable(u), Encode(t) = Encode(u)
  PROVE  t.server = u.server /\ t.nonce = u.nonce /\ t.ops = u.ops
<1> DEFINE b == Encode(t)
           H(s) == s.server \o s.nonce \o Be(Len(s.ops))
<1>1. ASSUME NEW s \in SignedTransactions, Encode(s) = b
      PROVE  /\ s.server \in Seq(Byte) /\ Len(s.server) = KeyLen
             /\ s.nonce \in Seq(Byte) /\ Len(s.nonce) = KeyLen
             /\ s.ops \in Seq(Operations) /\ Len(s.ops) \in Nat /\ DOMAIN s.ops = 1..Len(s.ops)
             /\ b \in Seq(Byte) /\ Be(Len(s.ops)) \in Seq(Byte)
             /\ s.server \o s.nonce \in Seq(Byte) /\ H(s) \in Seq(Byte)
             /\ IsPrefix(s.server, b) /\ IsPrefix(s.server \o s.nonce, b) /\ IsPrefix(H(s), b)
             /\ \A k \in 1..Len(s.ops) :
                  /\ H(s) \o Each(EncodeOp, SubSeq(s.ops, 1, k - 1)) \in Seq(Byte)
                  /\ IsPrefix((H(s) \o Each(EncodeOp, SubSeq(s.ops, 1, k - 1)))
                                \o EncodeOp(s.ops[k]), b)
  <2>1. KeyLen \in Nat /\ Width \in Nat
    BY DEF CodecAssumption
  <2>2. /\ s.server \in Seq(Byte) /\ Len(s.server) = KeyLen
        /\ s.nonce \in Seq(Byte) /\ Len(s.nonce) = KeyLen
    BY <2>1, IsSeq DEF SignedTransactions, Array
  <2>3. s.ops \in Seq(Operations) /\ Len(s.ops) \in Nat /\ DOMAIN s.ops = 1..Len(s.ops)
    BY LenProperties DEF SignedTransactions
  <2>4. Be(Len(s.ops)) \in Seq(Byte)
    BY <2>1, <2>3, BeBytes, IsSeq DEF Array
  <2>5. s.server \o s.nonce \in Seq(Byte)
    BY <2>2, Associative
  <2>6. /\ Encode(s) \in Seq(Byte) /\ H(s) \in Seq(Byte)
        /\ IsPrefix(s.server, Encode(s)) /\ IsPrefix(s.server \o s.nonce, Encode(s))
        /\ IsPrefix(H(s), Encode(s))
        /\ \A k \in 1..Len(s.ops) :
             /\ H(s) \o Each(EncodeOp, SubSeq(s.ops, 1, k - 1)) \in Seq(Byte)
             /\ IsPrefix((H(s) \o Each(EncodeOp, SubSeq(s.ops, 1, k - 1)))
                           \o EncodeOp(s.ops[k]), Encode(s))
    BY TransactionParts
  <2> HIDE DEF b, H
  <2> QED
    BY <1>1, <2>2, <2>3, <2>4, <2>5, <2>6
<1>2. Encode(t) = b /\ Encode(u) = b
  OBVIOUS
<1> HIDE DEF b
<1>3. t.server = u.server
  <2> DEFINE x == t.server
             y == u.server
  <2>1. /\ x \in Seq(Byte) /\ y \in Seq(Byte) /\ Len(x) = Len(y) /\ b \in Seq(Byte)
        /\ IsPrefix(x, b) /\ IsPrefix(y, b)
    BY <1>1, <1>2
  <2> HIDE DEF x, y
  <2>2. <<>> \o x = x /\ <<>> \o y = y /\ <<>> \in Seq(Byte)
    BY <2>1, ConcatEmptySeq, EmptySeq
  <2>3. x = y
    BY <2>1, <2>2, SamePart
  <2> QED
    BY <2>3 DEF x, y
<1>4. t.nonce = u.nonce
  <2> DEFINE p == t.server
             x == t.nonce
             y == u.nonce
  <2>1. /\ p \in Seq(Byte) /\ x \in Seq(Byte) /\ y \in Seq(Byte) /\ Len(x) = Len(y)
        /\ b \in Seq(Byte) /\ IsPrefix(p \o x, b) /\ IsPrefix(p \o y, b)
    BY <1>1, <1>2, <1>3
  <2> HIDE DEF p, x, y
  <2>2. x = y
    BY <2>1, SamePart
  <2> QED
    BY <2>2 DEF x, y
<1>5. Len(t.ops) = Len(u.ops)
  <2> DEFINE p == t.server \o t.nonce
             m == Len(t.ops)
             n == Len(u.ops)
  <2>1. /\ p \in Seq(Byte) /\ m \in Nat /\ n \in Nat /\ b \in Seq(Byte)
        /\ IsPrefix(p \o Be(m), b) /\ IsPrefix(p \o Be(n), b)
    BY <1>1, <1>2, <1>3, <1>4
  <2>2. m < U32Range /\ n < U32Range
    BY DEF Countable
  <2> HIDE DEF p, m, n
  <2>3. m = n
    BY <2>1, <2>2, SameCount
  <2> QED
    BY <2>3 DEF m, n
<1>6. H(t) = H(u)
  BY <1>3, <1>4, <1>5
<1> HIDE DEF H
<1>7. ASSUME NEW k \in 1..Len(t.ops), SubSeq(t.ops, 1, k - 1) = SubSeq(u.ops, 1, k - 1)
      PROVE  t.ops[k] = u.ops[k]
  <2> DEFINE p == H(t) \o Each(EncodeOp, SubSeq(t.ops, 1, k - 1))
             o == t.ops[k]
             q == u.ops[k]
  <2>1. k \in 1..Len(u.ops)
    BY <1>5
  <2>2. p \in Seq(Byte) /\ IsPrefix(p \o EncodeOp(o), b) /\ b \in Seq(Byte)
    BY <1>1, <1>2
  <2>3. IsPrefix(p \o EncodeOp(q), b)
    BY <1>1, <1>2, <1>6, <1>7, <2>1
  <2>4. o \in Operations /\ q \in Operations
    BY <1>1, <1>2, <2>1, ElementOfSeq
  <2>5. k \in DOMAIN t.ops /\ k \in DOMAIN u.ops
    BY <1>1, <1>2, <2>1
  <2>6. /\ Len(o.summary) < U32Range /\ Len(o.payload) < U32Range /\ Len(o.detail) < U32Range
        /\ \A n \in DOMAIN o.detail : Len(o.detail[n]) < U32Range
    BY <2>5 DEF Countable
  <2>7. /\ Len(q.summary) < U32Range /\ Len(q.payload) < U32Range /\ Len(q.detail) < U32Range
        /\ \A n \in DOMAIN q.detail : Len(q.detail[n]) < U32Range
    BY <2>5 DEF Countable
  <2> HIDE DEF p, o, q
  <2>8. o = q
    BY <2>2, <2>3, <2>4, <2>6, <2>7, SameOperation
  <2> QED
    BY <2>8 DEF o, q
<1>8. t.ops = u.ops
  <2>1. t.ops \in Seq(Operations) /\ u.ops \in Seq(Operations)
    BY <1>1, <1>2
  <2> QED
    BY <1>5, <1>7, <2>1, SameElements
<1> QED
  BY <1>3, <1>4, <1>8

\* The fixed fields have the length of a key, a nonce and a signature.
ArraysInv ==
  /\ at \notin {"server", "malformed"} => tx.server \in Array(KeyLen)
  /\ at \notin {"server", "nonce", "malformed"} => tx.nonce \in Array(KeyLen)
  /\ at \in {"signature", "finish", "ok"} => tx.admin \in Array(KeyLen)
  /\ at \in {"finish", "ok"} => tx.signature \in Array(SigLen)

\* array::<N>() reads them whole, and nothing else touches them.
LEMMA ArraysStep ==
  ASSUME CodecAssumption, HeldInv, ArraysInv, [Next]_vars
  PROVE  ArraysInv'
<1>1. Inside /\ tx \in Partial /\ KeyLen \in Nat /\ SigLen \in Nat
  BY DEF HeldInv, CodecAssumption
<1>2. ASSUME NEW f \in {"server", "nonce", "admin"}, NEW to, ReadArray(f, KeyLen, to)
      PROVE  /\ at = f /\ at' = to /\ tx' = [tx EXCEPT ![f] = Slice(KeyLen)]
             /\ Slice(KeyLen) \in Array(KeyLen)
  <2>1. at = f /\ at' = to /\ tx' = [tx EXCEPT ![f] = Slice(KeyLen)] /\ Accepts
    BY <1>2 DEF ReadArray, Go
  <2>2. Take(KeyLen)
    BY <2>1, AcceptedRead
  <2> QED
    BY <1>1, <2>1, <2>2, TakeReads
<1>3. CASE ReadArray("server", KeyLen, "nonce")
  <2>1. at' = "nonce" /\ tx'.server \in Array(KeyLen)
    BY <1>1, <1>2, <1>3 DEF Partial
  <2> QED
    BY <2>1 DEF ArraysInv
<1>4. CASE ReadArray("nonce", KeyLen, "ops")
  <2>1. /\ at = "nonce" /\ at' = "ops" /\ tx'.nonce \in Array(KeyLen)
        /\ tx'.server = tx.server
    BY <1>1, <1>2, <1>4 DEF Partial
  <2> QED
    BY <2>1 DEF ArraysInv
<1>5. CASE ReadArray("admin", KeyLen, "signature")
  <2>1. /\ at = "admin" /\ at' = "signature" /\ tx'.admin \in Array(KeyLen)
        /\ tx'.server = tx.server /\ tx'.nonce = tx.nonce
    BY <1>1, <1>2, <1>5 DEF Partial
  <2> QED
    BY <2>1 DEF ArraysInv
<1>6. CASE ReadArray("signature", SigLen, "finish")
  <2>1. /\ at = "signature" /\ at' = "finish" /\ Accepts
        /\ tx' = [tx EXCEPT !["signature"] = Slice(SigLen)]
    BY <1>6 DEF ReadArray, Go
  <2>2. Take(SigLen)
    BY <2>1, AcceptedRead
  <2>3. Slice(SigLen) \in Array(SigLen)
    BY <1>1, <2>2, TakeReads
  <2>4. /\ tx'.signature \in Array(SigLen) /\ tx'.server = tx.server /\ tx'.nonce = tx.nonce
        /\ tx'.admin = tx.admin
    BY <1>1, <2>1, <2>3 DEF Partial
  <2> QED
    BY <2>1, <2>4 DEF ArraysInv
<1>7. ASSUME at \notin {"server", "nonce", "malformed"}, at' # "ok" \/ at = "finish",
             at' \notin {"signature", "finish"},
             tx'.server = tx.server /\ tx'.nonce = tx.nonce
             /\ tx'.admin = tx.admin /\ tx'.signature = tx.signature
      PROVE  ArraysInv'
  BY <1>7 DEF ArraysInv
<1>8. CASE ReadOps \/ ReadSummary \/ ReadDetails \/ ReadLine \/ Finish
  <2>1. /\ at \in {"ops", "summary", "details", "line", "finish"} /\ tx' = tx
        /\ at' \in {"admin", "summary", "details", "line", "payload", "ok"}
        /\ at' = "ok" => at = "finish"
    BY <1>8 DEF ReadOps, ReadSummary, ReadDetails, ReadLine, Finish, Go
  <2> QED
    BY <1>7, <2>1
<1>9. CASE ReadPayload
  <2> DEFINE o == [summary |-> op.summary, detail |-> op.detail, payload |-> Field]
  <2>1. /\ at = "payload" /\ at' \in {"admin", "summary"}
        /\ tx' = [tx EXCEPT !.ops = Append(tx.ops, o)]
    BY <1>9 DEF ReadPayload, Go
  <2> HIDE DEF o
  <2>2. tx'.server = tx.server /\ tx'.nonce = tx.nonce /\ tx'.admin = tx.admin
        /\ tx'.signature = tx.signature
    BY <1>1, <2>1 DEF Partial
  <2> QED
    BY <1>7, <2>1, <2>2
<1>10. CASE Refuse
  <2>1. at' = "malformed"
    BY <1>10 DEF Refuse, Go
  <2> QED
    BY <2>1 DEF ArraysInv
<1>11. CASE UNCHANGED vars
  BY <1>11 DEF vars, ArraysInv
<1> QED
  BY <1>3, <1>4, <1>5, <1>6, <1>8, <1>9, <1>10, <1>11 DEF Next

\* What decode returns is a signed transaction, whatever body arrived.
ReturnsTransaction == at = "ok" => tx \in SignedTransactions

\* tx.rs, decode: the fields of what is accepted are what their types hold, the
\* texts without a byte that is in no text.
THEOREM DecodedTyped == Spec => []ReturnsTransaction
<1>1. Init => ArraysInv
  BY DEF Init, ArraysInv
<1>2. HeldInv /\ ArraysInv /\ [Next]_vars => ArraysInv'
  BY ArraysStep, CodecAssumption
<1>3. HeldInv /\ ArraysInv => ReturnsTransaction
  BY DEF HeldInv, Partial, ArraysInv, ReturnsTransaction, SignedTransactions
<1> QED
  BY <1>1, <1>2, <1>3, HeldInvariance, PTL DEF Spec

\* tx.rs, encode and decode: a signature over the bytes of one transaction fits
\* no other that decode accepts, not even when a length of the first wrapped.
THEOREM SignatureFits == Spec => []SignatureFitsOne
<1>1. ReturnsTransaction /\ Canonical /\ AcceptedIsShort => SignatureFitsOne
  <2> SUFFICES ASSUME ReturnsTransaction, Canonical, AcceptedIsShort, at = "ok",
                      NEW s \in Signed, Encode(s) = Encode(tx)
               PROVE  s.server = tx.server /\ s.nonce = tx.nonce /\ s.ops = tx.ops
    BY DEF SignatureFitsOne
  <2>1. tx \in SignedTransactions /\ s \in SignedTransactions
    BY CodecAssumption DEF ReturnsTransaction, CodecAssumption
  <2>2. Len(EncodeSigned(tx)) <= BodySize
    BY DEF Canonical, AcceptedIsShort
  <2>3. Len(Encode(tx)) < U32Range
    BY <2>1, <2>2, BodyCountable, CodecAssumption
  <2>4. Countable(tx) /\ Countable(s)
    BY <2>1, <2>3, ShortCountable, CodecAssumption
  <2> QED
    BY <2>1, <2>4, SameBatch, CodecAssumption
<1> QED
  BY <1>1, DecodedTyped, OneRepresentation, AcceptedShort, PTL
=============================================================================
