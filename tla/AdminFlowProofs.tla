--------------------------- MODULE AdminFlowProofs ---------------------------
(***************************************************************************)
(* Safety of AdminFlow for any number of clients, servers, nonces and keys *)
(* and any batches.  IInv is inductive; the properties follow from it.     *)
(***************************************************************************)
EXTENDS AdminFlow, TLAPS

-----------------------------------------------------------------------------
(* Transactions, bodies and what verify accepts *)

\* What sign_and_submit assembles is a well-formed SignedTransaction.
LEMMA BodyTyped ==
  ASSUME NEW t \in Txs, NEW admin \in Keys, NEW k \in Keys, NEW via \in Servers
  PROVE  Body(t, admin, k, via) \in Bodies
BY DEF Body, Bodies, Signatures, Messages, Signature

\* signing_bytes binds the whole transaction: server, nonce and operations.
LEMMA SigningBytesInjective ==
  ASSUME NEW t \in Txs, NEW u \in Txs, SigningBytes(t) = SigningBytes(u)
  PROVE  t = u
<1>1. Encode(t) = Encode(u)
  BY DEF SigningBytes
<1>2. t.server = u.server /\ t.nonce = u.nonce /\ t.ops = u.ops
  BY <1>1 DEF Encode
<1> QED
  BY <1>2 DEF Txs

\* What a server that judges a body "ok" has established about it.
LEMMA JudgeOk ==
  ASSUME NEW s, NEW b, Judge(s, b) = "ok"
  PROVE  /\ b.tx.server = s
         /\ b.sig = Signature(b.admin, SigningBytes(b.tx))
         /\ b.tx.nonce \in issued[s]
         /\ b.admin \in Admins[s]
BY DEF Judge, Verify

\* A server's answer is one of the verdicts of error.rs.
LEMMA RejectionTyped ==
  ASSUME NEW s, NEW b
  PROVE  Rejection(s, b) \in Verdicts
BY DEF Rejection, Judge, Verify, Verdicts

-----------------------------------------------------------------------------
(* The invariant holds initially and is kept by every step *)

\* The strengthened invariant holds before any client has done anything.
LEMMA InitIInv ==
  ASSUME FlowAssumption, Init
  PROVE  IInv
<1> USE DEF Init
<1>1. TypeOK
  BY DEF FlowAssumption, TypeOK, PCs, Results
<1>2. ClientInv /\ WireInv /\ LogInv
  BY DEF ClientInv, ClientOK, WireInv, LogInv
<1> QED
  BY <1>1, <1>2 DEF IInv

\* A body a server applies keeps the server's variables in their types.
LEMMA ApplyTyped ==
  ASSUME TypeOK, NEW s \in Servers, NEW b \in Bodies, Apply(s, b)
  PROVE  /\ issued' \in [Servers -> SUBSET Nonces]
         /\ used' \in [Servers -> SUBSET Nonces]
         /\ log' \in [Servers -> Seq(Bodies)]
<1>1. b.tx.nonce \in Nonces
  BY DEF Bodies, Txs
<1>2. Append(log[s], b) \in Seq(Bodies)
  BY DEF TypeOK
<1> QED
  BY <1>1, <1>2 DEF Apply, Spend, TypeOK

\* Every step of clients, servers and network keeps the types.
LEMMA TypeOKStep ==
  ASSUME FlowAssumption, IInv, [Next]_vars
  PROVE  TypeOK'
<1> USE DEF IInv
<1>1. ASSUME NEW c \in Clients, OpenBackend(c)
      PROVE  TypeOK'
  BY <1>1 DEF OpenBackend, TypeOK, FlowAssumption, PCs, serverVars
<1>2. ASSUME NEW c \in Clients, NEW s \in Servers, NEW via \in Servers,
             NEW ops \in Batches, Start(c, s, via, ops)
      PROVE  TypeOK'
  <2>1. [server |-> s, via |-> via, ops |-> ops] \in Jobs
    BY DEF Jobs
  <2>2. pc' \in [Clients -> PCs] /\ result' \in [Clients -> Results]
    BY <1>2 DEF Start, Return, TypeOK, PCs, Results
  <2>3. runs' \in [Clients -> 0..MaxRuns]
    <3>1. runs[c] + 1 \in 0..MaxRuns
      BY <1>2 DEF Start, TypeOK, FlowAssumption
    <3> QED
      BY <1>2, <3>1 DEF Start, TypeOK
  <2>4. job' \in [Clients -> Jobs \cup {None}]
    BY <1>2, <2>1 DEF Start, TypeOK
  <2> QED
    BY <1>2, <2>2, <2>3, <2>4 DEF Start, TypeOK, serverVars
<1>3. ASSUME NEW c \in Clients, AnswerChallenge(c)
      PROVE  TypeOK'
  <2>1. job[c].via \in Servers
    BY <1>3 DEF AnswerChallenge, ClientInv, ClientOK, Jobs
  <2>2. offer' \in [Clients -> Nonces \cup {None}]
    BY <1>3 DEF AnswerChallenge, TypeOK
  <2>3. issued' \in [Servers -> SUBSET Nonces]
    <3>1. CASE UNCHANGED issued
      BY <3>1 DEF TypeOK
    <3>2. CASE \E n \in Nonces : issued' = [issued EXCEPT ![job[c].via] = @ \cup {n}]
      BY <2>1, <3>2 DEF TypeOK
    <3> QED
      BY <1>3, <3>1, <3>2 DEF AnswerChallenge
  <2>4. pc' \in [Clients -> PCs]
    BY <1>3 DEF AnswerChallenge, TypeOK, PCs
  <2> QED
    BY <1>3, <2>2, <2>3, <2>4 DEF AnswerChallenge, TypeOK
<1>4. ASSUME NEW c \in Clients, ReceiveChallenge(c)
      PROVE  TypeOK'
  <2>1. CASE offer[c] = None
    BY <1>4, <2>1 DEF ReceiveChallenge, Return, TypeOK, PCs, Results, serverVars
  <2>2. CASE offer[c] # None
    <3> DEFINE t == [server |-> job[c].server, nonce |-> offer[c], ops |-> job[c].ops]
    <3>1. t \in Txs
      BY <1>4, <2>2 DEF ReceiveChallenge, ClientInv, ClientOK, TypeOK, Jobs, Txs
    <3> QED
      BY <1>4, <2>2, <3>1 DEF ReceiveChallenge, TypeOK, PCs, serverVars
  <2> QED
    BY <2>1, <2>2
<1>5. ASSUME NEW c \in Clients, Sign(c)
      PROVE  TypeOK'
  <2> DEFINE k == IF c \in Yubi THEN slot ELSE SoftKey[c]
             b == Body(tx[c], public[c], k, job[c].via)
  <2>1. tx[c] \in Txs /\ public[c] \in Keys /\ job[c].via \in Servers
    BY <1>5 DEF Sign, ClientInv, ClientOK, TypeOK, Jobs
  <2>2. k \in Keys
    BY DEF TypeOK, FlowAssumption
  <2>3. b \in Bodies
    BY <2>1, <2>2, BodyTyped
  <2>4. sent' = [sent EXCEPT ![c] = b] /\ wire' = wire \cup {b}
    BY <1>5 DEF Sign
  <2> HIDE DEF b
  <2> QED
    BY <1>5, <2>3, <2>4 DEF Sign, TypeOK, PCs, serverVars
<1>6. ASSUME NEW c \in Clients, SignFails(c)
      PROVE  TypeOK'
  BY <1>6 DEF SignFails, Return, TypeOK, PCs, Results, serverVars
<1>7. ASSUME NEW c \in Clients, AnswerCommand(c)
      PROVE  TypeOK'
  <2>1. job[c].via \in Servers /\ sent[c] \in Bodies
    BY <1>7 DEF AnswerCommand, ClientInv, ClientOK, TypeOK, Jobs
  <2>2. /\ issued' \in [Servers -> SUBSET Nonces]
        /\ used' \in [Servers -> SUBSET Nonces]
        /\ log' \in [Servers -> Seq(Bodies)]
    BY <1>7, <2>1, ApplyTyped DEF AnswerCommand, TypeOK, serverVars
  <2>3. verdict' \in [Clients -> Verdicts \cup {None}]
    <3>1. Rejection(job[c].via, sent[c]) \in Verdicts
      BY RejectionTyped
    <3>2. "ok" \in Verdicts
      BY DEF Verdicts
    <3> QED
      BY <1>7, <3>1, <3>2 DEF AnswerCommand, TypeOK
  <2> QED
    BY <1>7, <2>2, <2>3 DEF AnswerCommand, TypeOK, PCs
<1>8. ASSUME NEW c \in Clients, ReceiveResult(c)
      PROVE  TypeOK'
  BY <1>8 DEF ReceiveResult, Return, TypeOK, PCs, Results, serverVars
<1>9. ASSUME NEW c \in Clients, LoseConnection(c)
      PROVE  TypeOK'
  BY <1>9 DEF LoseConnection, Return, TypeOK, PCs, Results, serverVars
<1>10. ASSUME NEW c \in Clients, Crash(c)
       PROVE  TypeOK'
  BY <1>10 DEF Crash, TypeOK, PCs, Results, serverVars
<1>11. ASSUME NEW s \in Servers, LateDelivery(s)
       PROVE  TypeOK'
  <2>1. PICK w \in wire, t \in Txs, a \in Keys :
               Apply(s, [w EXCEPT !.tx = t, !.admin = a])
    BY <1>11 DEF LateDelivery
  <2>2. [w EXCEPT !.tx = t, !.admin = a] \in Bodies
    BY DEF TypeOK, Bodies
  <2> QED
    BY <1>11, <2>1, <2>2, ApplyTyped DEF LateDelivery, TypeOK, clientVars
<1>12. ASSUME NEW s \in Servers, Expire(s)
       PROVE  TypeOK'
  BY <1>12 DEF Expire, Spend, TypeOK, clientVars
<1>13. ASSUME ChangeCard
       PROVE  TypeOK'
  BY <1>13 DEF ChangeCard, TypeOK, clientVars, serverVars
<1>14. ASSUME UNCHANGED vars
       PROVE  TypeOK'
  BY <1>14 DEF TypeOK, vars, clientVars, serverVars
<1> QED
  BY <1>1, <1>2, <1>3, <1>4, <1>5, <1>6, <1>7, <1>8, <1>9, <1>10, <1>11, <1>12,
     <1>13, <1>14 DEF Next, Call, Advance, Reply

\* Bodies on the wire are only added, by Sign, and reviewed only grows.
LEMMA WireInvStep ==
  ASSUME FlowAssumption, IInv, [Next]_vars
  PROVE  WireInv' /\ wire \subseteq wire' /\ reviewed \subseteq reviewed'
<1> USE DEF IInv
<1>1. ASSUME NEW c \in Clients, Sign(c)
      PROVE  WireInv' /\ wire \subseteq wire' /\ reviewed \subseteq reviewed'
  BY <1>1 DEF Sign, WireInv, ClientInv, ClientOK, Body, Signature
<1>2. ASSUME NEW c \in Clients, ReceiveChallenge(c)
      PROVE  WireInv' /\ wire \subseteq wire' /\ reviewed \subseteq reviewed'
  BY <1>2 DEF ReceiveChallenge, WireInv
<1>3. ASSUME UNCHANGED <<wire, reviewed>>
      PROVE  WireInv' /\ wire \subseteq wire' /\ reviewed \subseteq reviewed'
  BY <1>3 DEF WireInv
<1>4. \/ UNCHANGED <<wire, reviewed>>
      \/ \E c \in Clients : Sign(c) \/ ReceiveChallenge(c)
  BY DEF Next, Call, Advance, Reply, OpenBackend, Start, AnswerChallenge, SignFails,
         AnswerCommand, ReceiveResult, LoseConnection, Crash, LateDelivery, Expire,
         ChangeCard, vars
<1> QED
  BY <1>1, <1>2, <1>3, <1>4

-----------------------------------------------------------------------------
(* The servers' logs *)

\* A step that applies nothing keeps LogInv if nonces are only issued fresh
\* and only spent.
LEMMA LogInvFrame ==
  ASSUME IInv,
         UNCHANGED log,
         wire \subseteq wire',
         \A s \in Servers : used[s] \subseteq used'[s] /\ issued'[s] \cap used'[s] = {}
  PROVE  LogInv'
BY DEF IInv, LogInv, EntrySound

\* Applying a body whose signature is on the wire keeps LogInv: its nonce was
\* outstanding, so no earlier entry carries it.
LEMMA LogInvApply ==
  ASSUME IInv, NEW s \in Servers, NEW b \in Bodies, Apply(s, b),
         NEW w \in wire, w.sig = b.sig, UNCHANGED wire
  PROVE  LogInv'
<1> USE DEF IInv
<1>1. /\ b.tx.server = s
      /\ b.sig = Signature(b.admin, SigningBytes(b.tx))
      /\ b.tx.nonce \in issued[s]
      /\ b.admin \in Admins[s]
  BY JudgeOk DEF Apply
<1>2. w.tx = b.tx
  <2>1. w.tx \in Txs /\ b.tx \in Txs
    BY DEF TypeOK, Bodies
  <2>2. SigningBytes(w.tx) = SigningBytes(b.tx)
    BY <1>1 DEF WireInv, Signature
  <2> QED
    BY <2>1, <2>2, SigningBytesInjective
<1>3. /\ used'[s] = used[s] \cup {b.tx.nonce}
      /\ issued'[s] = issued[s] \ {b.tx.nonce}
      /\ log'[s] = Append(log[s], b)
      /\ \A r \in Servers \ {s} :
           used'[r] = used[r] /\ issued'[r] = issued[r] /\ log'[r] = log[r]
  BY DEF Apply, Spend, TypeOK
<1>4. EntrySound(s, b)'
  BY <1>1, <1>2, <1>3 DEF EntrySound
<1>5. log[s] \in Seq(Bodies)
  BY DEF TypeOK
<1>6. \A i \in DOMAIN log'[s] :
        \/ i \in DOMAIN log[s] /\ log'[s][i] = log[s][i]
        \/ i = Len(log[s]) + 1 /\ log'[s][i] = b
  BY <1>3, <1>5
<1>7. \A i \in DOMAIN log[s] : log[s][i].tx.nonce \in used[s]
  BY DEF LogInv, EntrySound
<1>8. b.tx.nonce \notin used[s]
  BY <1>1 DEF LogInv
<1>9. ASSUME NEW r \in Servers
      PROVE  /\ issued'[r] \cap used'[r] = {}
             /\ \A i \in DOMAIN log'[r] : EntrySound(r, log[r][i])'
             /\ \A i, j \in DOMAIN log'[r] :
                  log'[r][i].tx.nonce = log'[r][j].tx.nonce => i = j
  <2>1. CASE r = s
    <3>1. issued'[s] \cap used'[s] = {}
      BY <1>3 DEF LogInv
    <3>2. \A i \in DOMAIN log'[s] : EntrySound(s, log[s][i])'
      BY <1>3, <1>4, <1>6 DEF LogInv, EntrySound
    <3>3. \A i, j \in DOMAIN log'[s] :
            log'[s][i].tx.nonce = log'[s][j].tx.nonce => i = j
      BY <1>6, <1>7, <1>8 DEF LogInv
    <3> QED
      BY <2>1, <3>1, <3>2, <3>3
  <2>2. CASE r # s
    BY <1>3, <2>2 DEF LogInv, EntrySound
  <2> QED
    BY <2>1, <2>2
<1> QED
  BY <1>9 DEF LogInv

\* Only a nonce handed out and a body applied touch nonce sets and logs.
LEMMA LogInvStep ==
  ASSUME FlowAssumption, IInv, [Next]_vars
  PROVE  LogInv'
<1> USE DEF IInv
<1>0. wire \subseteq wire'
  BY WireInvStep
<1>1. ASSUME NEW c \in Clients, AnswerChallenge(c)
      PROVE  LogInv'
  <2>1. job[c].via \in Servers
    BY <1>1 DEF AnswerChallenge, ClientInv, ClientOK, Jobs
  <2>2. UNCHANGED <<used, log>>
    BY <1>1 DEF AnswerChallenge
  <2>3. \A s \in Servers : issued'[s] \cap used'[s] = {}
    <3>1. CASE UNCHANGED issued
      BY <2>2, <3>1 DEF LogInv
    <3>2. ASSUME NEW n \in Nonces \ (issued[job[c].via] \cup used[job[c].via]),
                 issued' = [issued EXCEPT ![job[c].via] = @ \cup {n}]
          PROVE  \A s \in Servers : issued'[s] \cap used'[s] = {}
      BY <2>1, <2>2, <3>2 DEF LogInv, TypeOK
    <3> QED
      BY <1>1, <3>1, <3>2 DEF AnswerChallenge
  <2> QED
    BY <1>0, <2>2, <2>3, LogInvFrame
<1>2. ASSUME NEW c \in Clients, AnswerCommand(c)
      PROVE  LogInv'
  <2>1. job[c].via \in Servers /\ sent[c] \in wire /\ sent[c] \in Bodies
    BY <1>2 DEF AnswerCommand, ClientInv, ClientOK, TypeOK, Jobs
  <2>2. UNCHANGED wire
    BY <1>2 DEF AnswerCommand
  <2>3. CASE Apply(job[c].via, sent[c])
    BY <2>1, <2>2, <2>3, LogInvApply
  <2>4. CASE UNCHANGED serverVars
    BY <1>0, <2>4, LogInvFrame DEF serverVars, LogInv
  <2> QED
    BY <1>2, <2>3, <2>4 DEF AnswerCommand
<1>3. ASSUME NEW s \in Servers, LateDelivery(s)
      PROVE  LogInv'
  <2>1. PICK w \in wire, t \in Txs, a \in Keys :
               Apply(s, [w EXCEPT !.tx = t, !.admin = a])
    BY <1>3 DEF LateDelivery
  <2> DEFINE b == [w EXCEPT !.tx = t, !.admin = a]
  <2>2. b \in Bodies /\ w.sig = b.sig
    BY DEF TypeOK, Bodies
  <2>3. Apply(s, b) /\ UNCHANGED wire
    BY <1>3, <2>1 DEF LateDelivery
  <2> HIDE DEF b
  <2> QED
    BY <2>2, <2>3, LogInvApply
<1>4. ASSUME NEW s \in Servers, Expire(s)
      PROVE  LogInv'
  <2>1. PICK n \in issued[s] : Spend(s, n)
    BY <1>4 DEF Expire
  <2>2. \A r \in Servers : used[r] \subseteq used'[r] /\ issued'[r] \cap used'[r] = {}
    BY <2>1 DEF Spend, LogInv, TypeOK
  <2> QED
    BY <1>0, <1>4, <2>2, LogInvFrame DEF Expire
<1>5. ASSUME UNCHANGED serverVars
      PROVE  LogInv'
  BY <1>0, <1>5, LogInvFrame DEF serverVars, LogInv
<1>6. \/ UNCHANGED serverVars
      \/ \E c \in Clients : AnswerChallenge(c) \/ AnswerCommand(c)
      \/ \E s \in Servers : LateDelivery(s) \/ Expire(s)
  BY DEF Next, Call, Advance, Reply, OpenBackend, Start, ReceiveChallenge, Sign,
         SignFails, ReceiveResult, LoseConnection, Crash, ChangeCard, vars
<1> QED
  BY <1>1, <1>2, <1>3, <1>4, <1>5, <1>6

-----------------------------------------------------------------------------
(* The clients *)

\* What a server has applied stays applied.
LEMMA AppliedStays ==
  ASSUME FlowAssumption, IInv, [Next]_vars, NEW s \in Servers, NEW b, Applied(s, b)
  PROVE  Applied(s, b)'
<1> USE DEF IInv
<1>1. ASSUME NEW r \in Servers, NEW e \in Bodies, Apply(r, e)
      PROVE  Applied(s, b)'
  <2>1. log[s] \in Seq(Bodies)
    BY DEF TypeOK
  <2>2. log'[s] = log[s] \/ log'[s] = Append(log[s], e)
    BY <1>1 DEF Apply, TypeOK
  <2> QED
    BY <2>1, <2>2 DEF Applied
<1>2. CASE UNCHANGED log
  BY <1>2 DEF Applied
<1>3. ASSUME NEW c \in Clients, AnswerCommand(c)
      PROVE  Applied(s, b)'
  <2>1. job[c].via \in Servers /\ sent[c] \in Bodies
    BY <1>3 DEF AnswerCommand, ClientInv, ClientOK, TypeOK, Jobs
  <2> QED
    BY <1>1, <1>2, <1>3, <2>1 DEF AnswerCommand, serverVars
<1>4. ASSUME NEW r \in Servers, LateDelivery(r)
      PROVE  Applied(s, b)'
  <2>1. PICK w \in wire, t \in Txs, a \in Keys :
               Apply(r, [w EXCEPT !.tx = t, !.admin = a])
    BY <1>4 DEF LateDelivery
  <2>2. [w EXCEPT !.tx = t, !.admin = a] \in Bodies
    BY DEF TypeOK, Bodies
  <2> QED
    BY <1>1, <2>1, <2>2
<1>5. \/ UNCHANGED log
      \/ \E c \in Clients : AnswerCommand(c)
      \/ \E r \in Servers : LateDelivery(r)
  BY DEF Next, Call, Advance, Reply, OpenBackend, Start, AnswerChallenge,
         ReceiveChallenge, Sign, SignFails, ReceiveResult, LoseConnection, Crash,
         Expire, ChangeCard, vars, serverVars
<1> QED
  BY <1>2, <1>3, <1>4, <1>5

\* A client that a step leaves alone stays well.
LEMMA ClientFrame ==
  ASSUME FlowAssumption, IInv, [Next]_vars, NEW d \in Clients,
         UNCHANGED <<pc[d], public[d], job[d], tx[d], sent[d], verdict[d], result[d]>>
  PROVE  ClientOK(d)'
<1>1. ClientOK(d)
  BY DEF IInv, ClientInv
<1>2. wire \subseteq wire' /\ reviewed \subseteq reviewed'
  BY WireInvStep
<1>3. job[d] \in Jobs => job[d].server \in Servers
  BY DEF Jobs
<1>4. job[d] \in Jobs /\ Applied(job[d].server, sent[d]) => Applied(job[d].server, sent[d])'
  <2>1. SUFFICES ASSUME job[d] \in Jobs, Applied(job[d].server, sent[d])
                 PROVE  Applied(job[d].server, sent[d])'
    OBVIOUS
  <2>2. PICK s \in Servers : s = job[d].server
    BY <1>3, <2>1
  <2>3. PICK b : b = sent[d]
    OBVIOUS
  <2>4. Applied(s, b)'
    BY <2>1, <2>2, <2>3, AppliedStays
  <2> QED
    BY <2>2, <2>3, <2>4 DEF Applied
<1> QED
  BY <1>1, <1>2, <1>4 DEF ClientOK

\* A step keeps what is known of every client, its own and the others.
LEMMA ClientInvStep ==
  ASSUME FlowAssumption, IInv, [Next]_vars
  PROVE  ClientInv'
<1> USE DEF IInv
<1> SUFFICES ASSUME NEW d \in Clients
             PROVE  ClientOK(d)'
  BY DEF ClientInv
<1>0. ClientOK(d)
  BY DEF ClientInv
<1>1. ASSUME NEW c \in Clients, OpenBackend(c)
      PROVE  ClientOK(d)'
  <2>1. CASE c # d
    BY <1>1, <2>1, ClientFrame DEF OpenBackend, TypeOK
  <2>2. CASE c = d
    BY <1>0, <1>1, <2>2 DEF OpenBackend, TypeOK, ClientOK, Applied, FlowAssumption, serverVars
  <2> QED
    BY <2>1, <2>2
<1>2. ASSUME NEW c \in Clients, NEW s \in Servers, NEW via \in Servers,
             NEW ops \in Batches, Start(c, s, via, ops)
      PROVE  ClientOK(d)'
  <2>1. CASE c # d
    BY <1>2, <2>1, ClientFrame DEF Start, Return, TypeOK
  <2>2. CASE c = d
    BY <1>0, <1>2, <2>2 DEF Start, Return, TypeOK, ClientOK, Jobs
  <2> QED
    BY <2>1, <2>2
<1>3. ASSUME NEW c \in Clients, AnswerChallenge(c)
      PROVE  ClientOK(d)'
  <2>1. CASE c # d
    BY <1>3, <2>1, ClientFrame DEF AnswerChallenge, TypeOK
  <2>2. CASE c = d
    BY <1>0, <1>3, <2>2 DEF AnswerChallenge, TypeOK, ClientOK
  <2> QED
    BY <2>1, <2>2
<1>4. ASSUME NEW c \in Clients, ReceiveChallenge(c)
      PROVE  ClientOK(d)'
  <2>1. CASE c # d
    BY <1>4, <2>1, ClientFrame DEF ReceiveChallenge, Return, TypeOK
  <2>2. CASE c = d
    BY <1>0, <1>4, <2>2 DEF ReceiveChallenge, Return, TypeOK, ClientOK
  <2> QED
    BY <2>1, <2>2
<1>5. ASSUME NEW c \in Clients, Sign(c)
      PROVE  ClientOK(d)'
  <2>1. CASE c # d
    BY <1>5, <2>1, ClientFrame DEF Sign, TypeOK
  <2>2. CASE c = d
    BY <1>0, <1>5, <2>2 DEF Sign, TypeOK, ClientOK, Body
  <2> QED
    BY <2>1, <2>2
<1>6. ASSUME NEW c \in Clients, SignFails(c)
      PROVE  ClientOK(d)'
  <2>1. CASE c # d
    BY <1>6, <2>1, ClientFrame DEF SignFails, Return, TypeOK
  <2>2. CASE c = d
    BY <1>0, <1>6, <2>2 DEF SignFails, Return, TypeOK, ClientOK
  <2> QED
    BY <2>1, <2>2
<1>7. ASSUME NEW c \in Clients, AnswerCommand(c)
      PROVE  ClientOK(d)'
  <2>1. CASE c # d
    BY <1>7, <2>1, ClientFrame DEF AnswerCommand, TypeOK
  <2>2. CASE c = d
    <3>1. pc'[d] = "answered" /\ UNCHANGED <<public, job, tx, sent, result, reviewed, wire>>
      BY <1>7, <2>2 DEF AnswerCommand, TypeOK
    <3>2. pc[d] = "posted" /\ job[d] \in Jobs /\ result[d] # "ok"
      BY <1>0, <1>7, <2>2 DEF AnswerCommand, ClientOK
    <3>3. CASE Apply(job[d].via, sent[d])
      <4>1. sent[d].tx.server = job[d].via
        BY <3>3, JudgeOk DEF Apply
      <4>2. job[d].via \in Servers /\ job[d].server = job[d].via
        BY <1>0, <3>2, <4>1 DEF ClientOK, Jobs
      <4>3. log'[job[d].via] = Append(log[job[d].via], sent[d])
        BY <3>3, <4>2 DEF Apply, TypeOK
      <4>4. log[job[d].via] \in Seq(Bodies)
        BY <4>2 DEF TypeOK
      <4>5. Applied(job[d].server, sent[d])'
        <5>1. Len(log[job[d].via]) + 1 \in DOMAIN log'[job[d].via]
          BY <4>3, <4>4
        <5>2. log'[job[d].via][Len(log[job[d].via]) + 1] = sent[d]
          BY <4>3, <4>4
        <5> QED
          BY <3>1, <4>2, <5>1, <5>2 DEF Applied
      <4> QED
        BY <1>0, <3>1, <3>2, <4>5 DEF ClientOK
    <3>4. CASE verdict'[d] = Rejection(job[d].via, sent[d])
      <4>1. verdict'[d] # "ok"
        BY <3>4 DEF Rejection
      <4> QED
        BY <1>0, <3>1, <3>2, <4>1 DEF ClientOK
    <3> QED
      BY <1>7, <2>2, <3>3, <3>4 DEF AnswerCommand, TypeOK
  <2> QED
    BY <2>1, <2>2
<1>8. ASSUME NEW c \in Clients, ReceiveResult(c)
      PROVE  ClientOK(d)'
  <2>1. CASE c # d
    BY <1>8, <2>1, ClientFrame DEF ReceiveResult, Return, TypeOK
  <2>2. CASE c = d
    BY <1>0, <1>8, <2>2 DEF ReceiveResult, Return, TypeOK, ClientOK, Applied, serverVars
  <2> QED
    BY <2>1, <2>2
<1>9. ASSUME NEW c \in Clients, LoseConnection(c)
      PROVE  ClientOK(d)'
  <2>1. CASE c # d
    BY <1>9, <2>1, ClientFrame DEF LoseConnection, Return, TypeOK
  <2>2. CASE c = d
    BY <1>0, <1>9, <2>2 DEF LoseConnection, Return, TypeOK, ClientOK
  <2> QED
    BY <2>1, <2>2
<1>10. ASSUME NEW c \in Clients, Crash(c)
       PROVE  ClientOK(d)'
  <2>1. CASE c # d
    BY <1>10, <2>1, ClientFrame DEF Crash, TypeOK
  <2>2. CASE c = d
    BY <1>10, <2>2 DEF Crash, TypeOK, ClientOK
  <2> QED
    BY <2>1, <2>2
<1>11. ASSUME UNCHANGED clientVars
       PROVE  ClientOK(d)'
  BY <1>11, ClientFrame DEF clientVars
<1>12. UNCHANGED clientVars \/ \E c \in Clients :
         \/ OpenBackend(c) \/ AnswerChallenge(c) \/ ReceiveChallenge(c) \/ Sign(c)
         \/ SignFails(c) \/ AnswerCommand(c) \/ ReceiveResult(c) \/ LoseConnection(c)
         \/ Crash(c)
         \/ \E s \in Servers, via \in Servers, ops \in Batches : Start(c, s, via, ops)
  BY DEF Next, Call, Advance, Reply, LateDelivery, Expire, ChangeCard, vars
<1> QED
  BY <1>1, <1>2, <1>3, <1>4, <1>5, <1>6, <1>7, <1>8, <1>9, <1>10, <1>11, <1>12

-----------------------------------------------------------------------------
(* The theorems *)

\* IInv is an invariant of every behaviour of the flow.
THEOREM Invariance == Spec => []IInv
<1>1. Init => IInv
  BY FlowAssumption, InitIInv
<1>2. IInv /\ [Next]_vars => IInv'
  <2> SUFFICES ASSUME IInv, [Next]_vars
               PROVE  IInv'
    OBVIOUS
  <2>1. TypeOK'
    BY FlowAssumption, TypeOKStep
  <2>2. ClientInv'
    BY FlowAssumption, ClientInvStep
  <2>3. WireInv'
    BY FlowAssumption, WireInvStep
  <2>4. LogInv'
    BY FlowAssumption, LogInvStep
  <2> QED
    BY <2>1, <2>2, <2>3, <2>4 DEF IInv
<1> QED
  BY <1>1, <1>2, PTL DEF Spec

\* Every variable of the flow keeps its type; in particular nothing is ever
\* sent in the name of a Backend whose public key is unread.
THEOREM TypeCorrect == Spec => []TypeOK
<1>1. IInv => TypeOK
  BY DEF IInv
<1> QED
  BY <1>1, Invariance, PTL

\* sign_and_submit and SignedTransaction::verify: whatever the network does
\* with the bodies, a server applies only what was reviewed, for itself, and
\* signed by one of its administrators.
THEOREM AppliedApproved == Spec => []AppliedWasApproved
<1>1. IInv => AppliedWasApproved
  <2> SUFFICES ASSUME IInv, NEW s \in Servers, NEW i \in DOMAIN log[s]
               PROVE  LET e == log[s][i]
                      IN  /\ e.tx \in reviewed
                          /\ e.tx.server = s
                          /\ \E b \in wire : b.tx = e.tx /\ b.sig.key = e.admin
                          /\ e.admin \in Admins[s]
    BY DEF AppliedWasApproved
  <2> DEFINE e == log[s][i]
  <2>1. EntrySound(s, e)
    BY DEF IInv, LogInv
  <2> HIDE DEF e
  <2>2. PICK b \in wire : b.tx = e.tx /\ b.sig = e.sig
    BY <2>1 DEF EntrySound
  <2>3. b.sig.key = e.admin
    BY <2>1, <2>2 DEF EntrySound, Signature
  <2>4. e.tx \in reviewed
    BY <2>2 DEF IInv, WireInv
  <2>5. /\ e.tx \in reviewed
        /\ e.tx.server = s
        /\ \E w \in wire : w.tx = e.tx /\ w.sig.key = e.admin
        /\ e.admin \in Admins[s]
    BY <2>1, <2>2, <2>3, <2>4 DEF EntrySound
  <2> QED
    BY <2>5 DEF e
<1> QED
  BY <1>1, Invariance, PTL

\* flow.rs, "a captured signature cannot be double-applied": no signature is
\* in two places of the servers' logs.
THEOREM AppliedOnce == Spec => []SignatureAppliedOnce
<1>1. IInv => SignatureAppliedOnce
  <2> SUFFICES ASSUME IInv,
                      NEW s \in Servers, NEW r \in Servers,
                      NEW i \in DOMAIN log[s], NEW j \in DOMAIN log[r],
                      log[s][i].sig = log[r][j].sig
               PROVE  s = r /\ i = j
    BY DEF SignatureAppliedOnce
  <2>1. log[s][i] \in Bodies /\ log[r][j] \in Bodies
    BY DEF IInv, TypeOK
  <2>2. EntrySound(s, log[s][i]) /\ EntrySound(r, log[r][j])
    BY DEF IInv, LogInv
  <2>3. SigningBytes(log[s][i].tx) = SigningBytes(log[r][j].tx)
    <3>1. ASSUME NEW q, NEW e, EntrySound(q, e)
          PROVE  e.sig.msg = SigningBytes(e.tx)
      BY <3>1 DEF EntrySound, Signature
    <3>2. /\ log[s][i].sig.msg = SigningBytes(log[s][i].tx)
          /\ log[r][j].sig.msg = SigningBytes(log[r][j].tx)
      BY <2>2, <3>1
    <3> QED
      BY <3>2
  <2>4. log[s][i].tx = log[r][j].tx
    BY <2>1, <2>3, SigningBytesInjective DEF Bodies
  <2>5. s = r
    BY <2>2, <2>4 DEF EntrySound
  <2>6. i = j
    BY <2>4, <2>5 DEF IInv, LogInv
  <2> QED
    BY <2>5, <2>6
<1> QED
  BY <1>1, Invariance, PTL

\* sign_and_submit returns Ok only for a transaction that the server it was
\* addressed to has applied.
THEOREM OkApplied == Spec => []OkMeansApplied
<1>1. IInv => OkMeansApplied
  BY DEF IInv, ClientInv, ClientOK, Applied, OkMeansApplied
<1> QED
  BY <1>1, Invariance, PTL

-----------------------------------------------------------------------------
(* AdminFlow implements Authority *)

\* The refinement mapping, named for the proofs.
Granted  == {[tx |-> b.tx, key |-> b.sig.key] : b \in wire}
Entry(e) == [tx |-> e.tx, key |-> e.admin]
Executed == [s \in Servers |-> [i \in DOMAIN log[s] |-> Entry(log[s][i])]]

\* Applying a body whose signature is on the wire executes a grant that was
\* not executed before.
LEMMA ApplyExecutes ==
  ASSUME IInv, NEW s \in Servers, NEW b \in Bodies, Apply(s, b),
         NEW w \in wire, w.sig = b.sig, UNCHANGED <<wire, reviewed>>
  PROVE  Abs!Next
<1> USE DEF IInv
<1>1. /\ b.tx.server = s
      /\ b.sig = Signature(b.admin, SigningBytes(b.tx))
      /\ b.tx.nonce \in issued[s]
      /\ b.admin \in Admins[s]
  BY JudgeOk DEF Apply
<1>2. w.tx = b.tx /\ w.sig.key = b.admin
  <2>1. w.tx \in Txs /\ b.tx \in Txs
    BY DEF TypeOK, Bodies
  <2>2. SigningBytes(w.tx) = SigningBytes(b.tx)
    BY <1>1 DEF WireInv, Signature
  <2> QED
    BY <1>1, <2>1, <2>2, SigningBytesInjective DEF Signature
<1>3. Entry(b) \in Granted
  BY <1>2 DEF Entry, Granted
<1>4. Entry(b) \in Abs!Grants /\ Entry(b).tx.server = s /\ Entry(b).key \in Admins[s]
  BY <1>1 DEF Entry, Abs!Grants, Bodies
<1>5. log[s] \in Seq(Bodies) /\ log' = [log EXCEPT ![s] = Append(@, b)]
  BY DEF TypeOK, Apply
<1>6. \A i \in DOMAIN log[s] : log[s][i].tx # b.tx
  BY <1>1 DEF LogInv, EntrySound
<1>7. ~ \E i \in DOMAIN Executed[s] : Executed[s][i].tx = Entry(b).tx
  BY <1>6 DEF Executed, Entry
<1>8. Executed' = [Executed EXCEPT ![s] = Append(@, Entry(b))]
  <2> DEFINE old == Executed[s]
             new == [i \in DOMAIN log'[s] |-> Entry(log'[s][i])]
  <2>1. log'[s] = Append(log[s], b) /\ \A r \in Servers \ {s} : log'[r] = log[r]
    BY <1>5 DEF TypeOK
  <2>2. old = [i \in 1..Len(log[s]) |-> Entry(log[s][i])]
    BY <1>5 DEF Executed
  <2>3. old \in Seq({Entry(e) : e \in Bodies}) /\ Len(old) = Len(log[s])
    BY <1>5, <2>2
  <2>4. new = [i \in 1..(Len(log[s]) + 1) |->
                 IF i <= Len(log[s]) THEN Entry(log[s][i]) ELSE Entry(b)]
    BY <1>5, <2>1
  <2>5. new = Append(old, Entry(b))
    BY <1>5, <2>2, <2>3, <2>4
  <2>6. Executed' = [r \in Servers |-> IF r = s THEN new ELSE Executed[r]]
    BY <2>1 DEF Executed, Entry
  <2> HIDE DEF new
  <2> QED
    BY <2>5, <2>6 DEF Executed
<1>9. Abs!Execute(s, Entry(b))
  BY <1>3, <1>4, <1>7, <1>8
     DEF Abs!Execute, Abs!Executed, Granted, Executed, Entry
<1> QED
  BY <1>4, <1>9 DEF Abs!Next

\* A signature is a grant of what its client was shown.
LEMMA SignGrants ==
  ASSUME FlowAssumption, IInv, NEW c \in Clients, Sign(c)
  PROVE  Abs!Next
<1> USE DEF IInv
<1> DEFINE k == IF c \in Yubi THEN slot ELSE SoftKey[c]
           b == Body(tx[c], public[c], k, job[c].via)
<1>1. tx[c] \in reviewed /\ tx[c] \in Txs
  BY DEF Sign, ClientInv, ClientOK, TypeOK
<1>2. k \in Keys
  BY DEF TypeOK, FlowAssumption
<1>3. b.tx = tx[c] /\ b.sig.key = k
  BY DEF Body, Signature
<1>4. wire' = wire \cup {b} /\ UNCHANGED <<reviewed, log>>
  BY DEF Sign, serverVars
<1> HIDE DEF b, k
<1>5. Granted' = Granted \cup {[tx |-> tx[c], key |-> k]}
  BY <1>3, <1>4 DEF Granted
<1>6. UNCHANGED Executed
  BY <1>4 DEF Executed, Entry
<1>7. PICK t \in Txs, q \in Keys : t = tx[c] /\ q = k
  BY <1>1, <1>2
<1>8. Abs!Grant(t, q)
  BY <1>1, <1>4, <1>5, <1>6, <1>7 DEF Abs!Grant, Granted, Executed, Entry
<1> QED
  BY <1>8 DEF Abs!Next

\* The flow implements the authority protocol: Authority's three steps are
\* all it does to what was approved, granted and executed.
THEOREM Refinement == Spec => ImplementsAuthority
<1>1. Init => Abs!Init
  BY DEF Init, Abs!Init
<1>2. IInv /\ [Next]_vars => [Abs!Next]_(Abs!vars)
  <2> SUFFICES ASSUME IInv, [Next]_vars
               PROVE  Abs!Next \/ UNCHANGED <<reviewed, Granted, Executed>>
    BY DEF Abs!vars, Granted, Executed, Entry
  <2> USE FlowAssumption
  <2>1. ASSUME NEW c \in Clients, Sign(c)
        PROVE  Abs!Next
    BY <2>1, SignGrants
  <2>2. ASSUME NEW c \in Clients, ReceiveChallenge(c)
        PROVE  Abs!Next \/ UNCHANGED <<reviewed, Granted, Executed>>
    <3> DEFINE t == [server |-> job[c].server, nonce |-> offer[c], ops |-> job[c].ops]
    <3>1. UNCHANGED <<Granted, Executed>>
      BY <2>2 DEF ReceiveChallenge, Granted, Executed, Entry, serverVars
    <3>2. CASE offer[c] = None
      BY <2>2, <3>1, <3>2 DEF ReceiveChallenge
    <3>3. CASE offer[c] # None
      <4>1. t \in Txs
        BY <2>2, <3>3 DEF IInv, ReceiveChallenge, ClientInv, ClientOK, TypeOK, Jobs, Txs
      <4>2. reviewed' = reviewed \cup {t}
        BY <2>2, <3>3 DEF ReceiveChallenge
      <4>3. Abs!Approve(t)
        BY <3>1, <4>2 DEF Abs!Approve, Granted, Executed, Entry
      <4> QED
        BY <4>1, <4>3 DEF Abs!Next
    <3> QED
      BY <3>2, <3>3
  <2>3. ASSUME NEW c \in Clients, AnswerCommand(c)
        PROVE  Abs!Next \/ UNCHANGED <<reviewed, Granted, Executed>>
    <3>1. job[c].via \in Servers /\ sent[c] \in wire /\ sent[c] \in Bodies
      BY <2>3 DEF IInv, AnswerCommand, ClientInv, ClientOK, TypeOK, Jobs
    <3>2. UNCHANGED <<wire, reviewed>>
      BY <2>3 DEF AnswerCommand
    <3>3. CASE Apply(job[c].via, sent[c])
      BY <3>1, <3>2, <3>3, ApplyExecutes
    <3>4. CASE UNCHANGED serverVars
      BY <3>2, <3>4 DEF Granted, Executed, Entry, serverVars
    <3> QED
      BY <2>3, <3>3, <3>4 DEF AnswerCommand
  <2>4. ASSUME NEW s \in Servers, LateDelivery(s)
        PROVE  Abs!Next
    <3>1. PICK w \in wire, t \in Txs, a \in Keys :
                 Apply(s, [w EXCEPT !.tx = t, !.admin = a])
      BY <2>4 DEF LateDelivery
    <3> DEFINE b == [w EXCEPT !.tx = t, !.admin = a]
    <3>2. b \in Bodies /\ w.sig = b.sig
      BY DEF IInv, TypeOK, Bodies
    <3>3. Apply(s, b) /\ UNCHANGED <<wire, reviewed>>
      BY <2>4, <3>1 DEF LateDelivery
    <3> HIDE DEF b
    <3> QED
      BY <3>2, <3>3, ApplyExecutes
  <2>5. ASSUME UNCHANGED <<reviewed, wire, log>>
        PROVE  UNCHANGED <<reviewed, Granted, Executed>>
    BY <2>5 DEF Granted, Executed, Entry
  <2>6. \/ UNCHANGED <<reviewed, wire, log>>
        \/ \E c \in Clients : Sign(c) \/ ReceiveChallenge(c) \/ AnswerCommand(c)
        \/ \E s \in Servers : LateDelivery(s)
    BY DEF Next, Call, Advance, Reply, OpenBackend, Start, AnswerChallenge, SignFails,
           ReceiveResult, LoseConnection, Crash, Expire, ChangeCard, vars, serverVars
  <2> QED
    BY <2>1, <2>2, <2>3, <2>4, <2>5, <2>6
<1> QED
  BY <1>1, <1>2, Invariance, PTL DEF Spec, ImplementsAuthority, Abs!Spec
-----------------------------------------------------------------------------
(* Challenges: one signature each *)

\* Client c has challenge n in its hands and has not signed under it.
Holds(c, n) ==
  \/ pc[c] = "got" /\ offer[c] # None /\ offer[c] = n
  \/ pc[c] = "signing" /\ tx[c].nonce = n

\* A challenge that was signed or is held was issued on its connection; a held
\* one is held by one client and is under no signature of that connection.
Known(s) == issued[s] \cup used[s]
FreshInv ==
  /\ FreshNoncePerSignature
  /\ \A b \in wire : b.tx.nonce \in Known(b.via)
  /\ \A c \in Clients, n \in Nonces : Holds(c, n) =>
       /\ n \in Known(job[c].via)
       /\ \A b \in wire : b.via = job[c].via => b.tx.nonce # n
       /\ \A d \in Clients : Holds(d, n) /\ job[d].via = job[c].via => d = c

\* Nothing is forgotten of the challenges of a server.
LEMMA KnownGrows ==
  ASSUME FlowAssumption, IInv, [Next]_vars
  PROVE  \A s \in Servers : Known(s) \subseteq Known(s)'
<1> USE DEF IInv
<1>1. ASSUME NEW s \in Servers, NEW n \in Nonces, Spend(s, n)
      PROVE  \A r \in Servers : Known(r) \subseteq Known(r)'
  BY <1>1 DEF Spend, Known, TypeOK
<1>2. ASSUME NEW s \in Servers, NEW b \in Bodies, Apply(s, b)
      PROVE  \A r \in Servers : Known(r) \subseteq Known(r)'
  <2>1. b.tx.nonce \in Nonces
    BY DEF Bodies, Txs
  <2> QED
    BY <1>1, <1>2, <2>1 DEF Apply
<1>3. ASSUME NEW c \in Clients, AnswerChallenge(c)
      PROVE  \A r \in Servers : Known(r) \subseteq Known(r)'
  <2>1. /\ used' = used
        /\ issued' = issued \/ \E n \in Nonces :
             issued' = [issued EXCEPT ![job[c].via] = @ \cup {n}]
    BY <1>3 DEF AnswerChallenge
  <2>2. \A r \in Servers : issued[r] \subseteq issued'[r]
    BY <2>1 DEF TypeOK
  <2> QED
    BY <2>1, <2>2 DEF Known
<1>4. ASSUME NEW c \in Clients, AnswerCommand(c)
      PROVE  \A r \in Servers : Known(r) \subseteq Known(r)'
  <2>1. job[c].via \in Servers /\ sent[c] \in Bodies
    BY <1>4 DEF AnswerCommand, ClientInv, ClientOK, TypeOK, Jobs
  <2>2. CASE Apply(job[c].via, sent[c])
    BY <1>2, <2>1, <2>2
  <2>3. CASE UNCHANGED serverVars
    BY <2>3 DEF Known, serverVars
  <2> QED
    BY <1>4, <2>2, <2>3 DEF AnswerCommand
<1>5. ASSUME NEW s \in Servers, LateDelivery(s)
      PROVE  \A r \in Servers : Known(r) \subseteq Known(r)'
  <2>1. PICK w \in wire, t \in Txs, a \in Keys :
               Apply(s, [w EXCEPT !.tx = t, !.admin = a])
    BY <1>5 DEF LateDelivery
  <2>2. [w EXCEPT !.tx = t, !.admin = a] \in Bodies
    BY DEF TypeOK, Bodies
  <2> QED
    BY <1>2, <2>1, <2>2
<1>6. ASSUME NEW s \in Servers, Expire(s)
      PROVE  \A r \in Servers : Known(r) \subseteq Known(r)'
  <2>1. PICK n \in issued[s] : Spend(s, n)
    BY <1>6 DEF Expire
  <2>2. n \in Nonces
    BY DEF TypeOK
  <2> QED
    BY <1>1, <2>1, <2>2
<1>7. ASSUME UNCHANGED serverVars
      PROVE  \A r \in Servers : Known(r) \subseteq Known(r)'
  BY <1>7 DEF Known, serverVars
<1> QED
  BY <1>3, <1>4, <1>5, <1>6, <1>7
     DEF Next, Call, Advance, Reply, OpenBackend, Start, ReceiveChallenge, Sign, SignFails,
         ReceiveResult, LoseConnection, Crash, ChangeCard, vars

\* A client comes to hold a challenge only from its server's answer, and lets
\* go of it in a signature or for good.
LEMMA HoldSteps ==
  ASSUME FlowAssumption, IInv, [Next]_vars
  PROVE  \/ \E c \in Clients : AnswerChallenge(c) \/ Sign(c)
         \/ /\ \A c \in Clients, n \in Nonces :
                 Holds(c, n)' => Holds(c, n) /\ job'[c] = job[c]
            /\ UNCHANGED wire
<1> USE DEF IInv
<1> DEFINE Quiet == /\ \A c \in Clients, n \in Nonces :
                         Holds(c, n)' => Holds(c, n) /\ job'[c] = job[c]
                    /\ UNCHANGED wire
<1>1. ASSUME NEW c \in Clients, ReceiveChallenge(c)
      PROVE  Quiet
  BY <1>1 DEF ReceiveChallenge, Return, Holds, TypeOK
<1>2. ASSUME NEW c \in Clients, OpenBackend(c) \/ Call(c)
      PROVE  Quiet
  BY <1>2 DEF OpenBackend, Call, Start, Return, Holds, TypeOK
<1>3. ASSUME NEW c \in Clients, SignFails(c) \/ ReceiveResult(c) \/ LoseConnection(c) \/ Crash(c)
      PROVE  Quiet
  BY <1>3 DEF SignFails, ReceiveResult, LoseConnection, Crash, Return, Holds, TypeOK
<1>4. ASSUME NEW c \in Clients, AnswerCommand(c)
      PROVE  Quiet
  BY <1>4 DEF AnswerCommand, Holds, TypeOK
<1>5. ASSUME \/ \E s \in Servers : LateDelivery(s) \/ Expire(s)
             \/ ChangeCard \/ UNCHANGED vars
      PROVE  Quiet
  BY <1>5 DEF LateDelivery, Expire, ChangeCard, Holds, vars, clientVars
<1> QED
  BY <1>1, <1>2, <1>3, <1>4, <1>5 DEF Next, Advance, Reply

\* A signature takes the challenge of its run, which no other run was given.
LEMMA FreshStep ==
  ASSUME FlowAssumption, IInv, FreshInv, [Next]_vars
  PROVE  FreshInv'
<1>1. /\ \A s \in Servers : Known(s) \subseteq Known(s)'
      /\ \A b \in wire : b.via \in Servers
      /\ \A c \in Clients, n \in Nonces : Holds(c, n) => job[c].via \in Servers
  BY KnownGrows DEF IInv, TypeOK, Bodies, ClientInv, ClientOK, Holds, Jobs
<1>2. CASE /\ \A c \in Clients, n \in Nonces :
                Holds(c, n)' => Holds(c, n) /\ job'[c] = job[c]
           /\ UNCHANGED wire
  <2>1. FreshNoncePerSignature' /\ \A b \in wire' : b.tx.nonce \in Known(b.via)'
    BY <1>1, <1>2 DEF FreshInv, FreshNoncePerSignature
  <2>2. \A c \in Clients, n \in Nonces : Holds(c, n)' =>
          /\ n \in Known(job[c].via)'
          /\ \A b \in wire' : b.via = job'[c].via => b.tx.nonce # n
          /\ \A d \in Clients : Holds(d, n)' /\ job'[d].via = job'[c].via => d = c
    BY <1>1, <1>2 DEF FreshInv
  <2> QED
    BY <2>1, <2>2 DEF FreshInv
<1>3. ASSUME NEW c \in Clients, AnswerChallenge(c)
      PROVE  FreshInv'
  <2> DEFINE s == job[c].via
  <2>1. s \in Servers /\ UNCHANGED <<wire, job>>
    BY <1>3 DEF IInv, AnswerChallenge, ClientInv, ClientOK, Jobs
  <2>2. \A d \in Clients, n \in Nonces :
          Holds(d, n)' => Holds(d, n) \/ (d = c /\ n \notin Known(s) /\ n \in Known(s)')
    BY <1>3, <2>1 DEF IInv, AnswerChallenge, Holds, Known, TypeOK
  <2>3. \A d \in Clients \ {c}, n \in Nonces : Holds(d, n)' => Holds(d, n)
    BY <1>3 DEF IInv, AnswerChallenge, Holds, TypeOK
  <2>4. \A n \in Nonces : ~ Holds(c, n)
    BY <1>3 DEF AnswerChallenge, Holds
  <2> HIDE DEF s
  <2>5. FreshNoncePerSignature' /\ \A b \in wire' : b.tx.nonce \in Known(b.via)'
    BY <1>1, <2>1 DEF FreshInv, FreshNoncePerSignature
  <2>6. \A d \in Clients, n \in Nonces : Holds(d, n)' =>
          /\ n \in Known(job[d].via)'
          /\ \A b \in wire' : b.via = job'[d].via => b.tx.nonce # n
          /\ \A e \in Clients : Holds(e, n)' /\ job'[e].via = job'[d].via => e = d
    BY <1>1, <2>1, <2>2, <2>3, <2>4 DEF FreshInv, s
  <2> QED
    BY <2>5, <2>6 DEF FreshInv
<1>4. ASSUME NEW c \in Clients, Sign(c)
      PROVE  FreshInv'
  <2> DEFINE k == IF c \in Yubi THEN slot ELSE SoftKey[c]
             b == Body(tx[c], public[c], k, job[c].via)
             n == tx[c].nonce
  <2>1. /\ wire' = wire \cup {b} /\ b.tx.nonce = n /\ b.via = job[c].via
        /\ UNCHANGED <<job, issued, used>>
    BY <1>4 DEF Sign, Body, serverVars
  <2>2. n \in Nonces /\ Holds(c, n)
    BY <1>4 DEF IInv, Sign, Holds, ClientInv, ClientOK, TypeOK, Txs
  <2>3. \A d \in Clients, m \in Nonces : Holds(d, m)' => Holds(d, m) /\ d # c
    BY <1>4 DEF IInv, Sign, Holds, TypeOK
  <2> HIDE DEF b, n, k
  <2>4. \A a \in wire : a.via = b.via => a.tx.nonce # b.tx.nonce
    BY <2>1, <2>2 DEF FreshInv
  <2>5. FreshNoncePerSignature'
    BY <2>1, <2>4 DEF FreshInv, FreshNoncePerSignature
  <2>6. \A a \in wire' : a.tx.nonce \in Known(a.via)'
    BY <2>1, <2>2 DEF FreshInv, Known
  <2>7. \A d \in Clients, m \in Nonces : Holds(d, m)' =>
          /\ m \in Known(job[d].via)'
          /\ \A a \in wire' : a.via = job'[d].via => a.tx.nonce # m
          /\ \A e \in Clients : Holds(e, m)' /\ job'[e].via = job'[d].via => e = d
    BY <2>1, <2>2, <2>3 DEF FreshInv, Known
  <2> QED
    BY <2>5, <2>6, <2>7 DEF FreshInv
<1> QED
  BY <1>2, <1>3, <1>4, HoldSteps

\* flow.rs, "a transaction bound to a fresh nonce": no two signatures carry the
\* same challenge of one connection, over any number of runs, losses and crashes.
THEOREM ChallengeSignedOnce == Spec => []FreshNoncePerSignature
<1> USE FlowAssumption
<1>1. Init => FreshInv
  BY DEF Init, FreshInv, FreshNoncePerSignature, Holds
<1>2. IInv /\ FreshInv /\ [Next]_vars => FreshInv'
  BY FreshStep
<1>3. FreshInv => FreshNoncePerSignature
  BY DEF FreshInv
<1> QED
  BY <1>1, <1>2, <1>3, Invariance, PTL DEF Spec
=============================================================================
