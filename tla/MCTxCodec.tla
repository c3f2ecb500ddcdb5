------------------------------ MODULE MCTxCodec ------------------------------
(* TxCodec with six byte values and lengths of two bytes, which wrap at 36. *)
EXTENDS TxCodec, TLC

Wrap == U32Range
Ones(n) == [i \in 1..n |-> 1]
Op(s, d, p) == [summary |-> s, detail |-> d, payload |-> p]

\* Fields at, below and above their bounds, and contents that look like lengths.
Ops == {Op(s, d, p) : s \in {<<>>, <<1>>, <<0, 1>>},
                      d \in {<<>>, << <<>> >>, << <<1>> >>, << <<1>>, <<>> >>},
                      p \in {<<>>, <<0>>, <<0, 1>>, <<0, 1, 0>>}}
Long == {Op(Ones(30), <<>>, <<>>), Op(<<>>, <<>>, Ones(30))}
Shifted == Op(Be(1) \o Be(14) \o Ones(14) \o Be(20) \o Ones(16), <<>>, <<>>)
Target  == Op(<<>>, << Ones(14) >>, Ones(16) \o Be(0) \o Be(0))
\* One length or count that wraps: to zero, or to one.
Wrapped ==
  {<<Op(<<>>, <<>>, Ones(Wrap + k))>> : k \in 0..1}
    \cup {<<Op(Ones(Wrap + k), <<>>, <<>>)>> : k \in 0..1}
    \cup {<<Op(<<>>, << Ones(Wrap + k) >>, <<>>)>> : k \in 0..1}
    \cup {<<Op(<<>>, [i \in 1..(Wrap + k) |-> <<>>], <<>>)>> : k \in 0..1}
    \cup {[i \in 1..(Wrap + k) |-> Op(<<>>, <<>>, <<>>)] : k \in 0..1}

Of(ops) == [server |-> <<2>>, nonce |-> <<3>>, ops |-> ops, admin |-> <<4>>, signature |-> <<0>>]

Few == {o \in Ops : o.summary # <<>> /\ o.detail \in {<<>>, << <<1>> >>}}
MCSigned ==
  {Of(s) : s \in Wrapped \cup {<<>>} \cup {<<o>> : o \in Ops \cup Long \cup {Shifted, Target}}
              \cup {<<o, q>> : o, q \in Few}}
    \cup {Of(<<o, o, o>>) : o \in Few}

\* Every way to cut a body, to change one byte of it, to add or drop one.
Damaged(b) ==
  {SubSeq(b, 1, n) : n \in 0..(Len(b) - 1)}
    \cup {[b EXCEPT ![i] = c] : i \in DOMAIN b, c \in Byte}
    \cup {SubSeq(b, 1, i) \o <<c>> \o SubSeq(b, i + 1, Len(b)) : i \in 0..Len(b), c \in {0, 1}}
    \cup {RemoveAt(b, i) : i \in DOMAIN b}

MCForeign ==
  UNION {Damaged(EncodeSigned(Of(s))) : s \in {<<>>} \cup {<<o>> : o \in Few}
                                             \cup {<<o, o>> : o \in Few}}

\* Outside the decode bounds encode is not injective: with the summary of
\* Shifted wrapped to nothing, its text reads as the rest of Target.  What
\* keeps a signature over one from fitting the other is that neither decodes.
ASSUME WrappedCollides == Shifted # Target /\ Encode(Of(<<Shifted>>)) = Encode(Of(<<Target>>))
=============================================================================
