------------------------------ MODULE AdminFlow ------------------------------
(***************************************************************************)
(* The admin transaction of crates/sqnr/src/flow.rs: fetch a challenge,    *)
(* build and review a transaction, sign it with a Backend (signer.rs), and *)
(* POST it.  Clients run the flow concurrently, possibly as one identity   *)
(* (the two that use a YubiKey share one card) and possibly against        *)
(* several servers.  A run can fail at every await, and a caller that      *)
(* failed just runs the flow again.                                        *)
(*                                                                         *)
(* The server is external to the repository; it is modelled from the part  *)
(* of the protocol sqnr-core gives it (SignedTransaction::decode, verify   *)
(* and the errors of error.rs) and from what tx.rs and flow.rs rely on:    *)
(* it issues single-use nonces, keeps a list of administrators and applies *)
(* a batch atomically.                                                     *)
(***************************************************************************)
EXTENDS Naturals, Sequences, FiniteSets

CONSTANTS
  Clients,   \* processes that call sign_and_submit
  Yubi,      \* the clients whose Backend is Inner::Yubi (one shared card)
  Servers,   \* server keys
  Nonces,    \* challenge values; every server draws from this set
  Batches,   \* the Vec<Operation> a caller may submit, as sequences
  Keys,      \* Ed25519 public keys
  SoftKey,   \* SoftKey[c]: the key of a software client's identity
  CardKeys,  \* keys the card in the reader may hold
  Admins,    \* Admins[s]: the administrators server s is configured with
  MaxOps,    \* MAX_OPS of tx.rs
  MaxRuns,   \* bound: runs of the flow per client
  None       \* absent transaction, body, offer or job

ASSUME FlowAssumption ==
  /\ Yubi \subseteq Clients
  /\ SoftKey \in [Clients \ Yubi -> Keys]
  /\ CardKeys \subseteq Keys /\ CardKeys # {}
  /\ Admins \in [Servers -> SUBSET Keys]
  /\ MaxOps \in Nat
  /\ MaxRuns \in Nat
  /\ \A b \in Batches : Len(b) \in Nat

VARIABLES
  slot,      \* the key in the card's Authentication slot
  pc,        \* where each client is in the flow
  public,    \* Backend::public, fixed when the Backend is built
  runs,      \* runs started so far, capped by MaxRuns
  job,       \* arguments of the current run: server, connection, ops
  offer,     \* the challenge response on its way to the client
  tx,        \* the transaction under review
  sent,      \* the body of the current POST
  verdict,   \* the POST response on its way to the client
  result,    \* what the last run returned
  reviewed,  \* history: every transaction handed to on_review
  wire,      \* every body a client began to send
  issued,    \* server: outstanding nonces
  used,      \* server: nonces consumed or expired
  log        \* server: the bodies applied, in order

clientVars == <<pc, public, runs, job, offer, tx, sent, verdict, result>>
serverVars == <<issued, used, log>>
vars == <<slot, clientVars, reviewed, wire, serverVars>>

-----------------------------------------------------------------------------
(* sqnr-core: the transaction and what is signed *)

Txs == [server : Servers, nonce : Nonces, ops : Batches]

TX_CONTEXT == "sqnr-tx-v1"

\* Mutant of Encode: the operations and their summaries are not hashed.
EncodeWithoutOps(t) == <<t.server, t.nonce>>

\* Mutant of Encode: the nonce is not hashed.
EncodeWithoutNonce(t) == <<t.server, t.ops>>

\* Transaction::encode, as far as the flow can tell: one value per
\* transaction, in the order server, nonce, ops.
Encode(t) == <<t.server, t.nonce, t.ops>>

\* Transaction::signing_bytes.  SHA-256 is taken to be collision-free, so the
\* digest is represented by what was hashed.
SigningBytes(t) == [context |-> TX_CONTEXT, digest |-> Encode(t)]

\* A raw Ed25519 signature: only the holder of key makes it, only over msg.
Signature(key, msg) == [key |-> key, msg |-> msg]

Messages   == {SigningBytes(t) : t \in Txs}
Signatures == [key : Keys, msg : Messages]
Bodies     == [tx : Txs, admin : Keys, sig : Signatures, via : Servers]

\* SignedTransaction as sign_and_submit assembles it.  `via` is history: the
\* server whose connection supplied the nonce.
Body(t, admin, key, via) ==
  [tx |-> t, admin |-> admin, sig |-> Signature(key, SigningBytes(t)), via |-> via]

\* Mutant of Verify: the signature is not checked against the named admin.
VerifyNoAdmin(b, expected) ==
  IF b.tx.server # expected THEN "WrongServer"
  ELSE IF b.sig.msg = SigningBytes(b.tx) THEN "ok" ELSE "BadSignature"

\* SignedTransaction::verify: server binding first, then the signature.  Every
\* member of Keys is a point of the curve; an admin that is not fails here too.
Verify(b, expected) ==
  IF b.tx.server # expected THEN "WrongServer"
  ELSE IF b.sig = Signature(b.admin, SigningBytes(b.tx)) THEN "ok"
  ELSE "BadSignature"

\* SignedTransaction::decode of the bytes encode() wrote: the decoder bounds
\* the number of operations, the encoder does not.  (Its other bounds, on
\* detail lines, strings and payloads, reject a body in the same way.)
Decodable(b) == Len(b.tx.ops) <= MaxOps

-----------------------------------------------------------------------------
(* The server (external) *)

Verdicts == {"ok", "Malformed", "WrongServer", "BadSignature",
             "BadChallenge", "NotAdmin", "Refused"}

\* What the server at s makes of body b, in the order decode, verify, nonce,
\* administrator list.
Judge(s, b) ==
  IF ~ Decodable(b) THEN "Malformed"
  ELSE IF Verify(b, s) # "ok" THEN Verify(b, s)
  ELSE IF b.tx.nonce \notin issued[s] THEN "BadChallenge"
  ELSE IF b.admin \notin Admins[s] THEN "NotAdmin"
  ELSE "ok"

\* The nonce is spent: outstanding no more, never to be issued again.
Spend(s, n) ==
  /\ issued' = [issued EXCEPT ![s] = @ \ {n}]
  /\ used'   = [used EXCEPT ![s] = @ \cup {n}]

\* The server applies a body it accepts, and spends its nonce, in one step.
Apply(s, b) ==
  /\ Judge(s, b) = "ok"
  /\ Spend(s, b.tx.nonce)
  /\ log' = [log EXCEPT ![s] = Append(@, b)]

\* It rejects a body with what it found wrong, or refuses an acceptable one
\* for reasons of the service.  A rejection that also burns the nonce is this
\* step followed by Expire.
Rejection(s, b) == IF Judge(s, b) = "ok" THEN "Refused" ELSE Judge(s, b)

-----------------------------------------------------------------------------
(* The client *)

PCs     == {"new", "idle", "get", "got", "signing", "posted", "answered"}
Jobs    == [server : Servers, via : Servers, ops : Batches]
Results == {"none", "ok", "err"}

\* sign_and_submit returns r.
Return(c, r) ==
  /\ pc'     = [pc EXCEPT ![c] = "idle"]
  /\ result' = [result EXCEPT ![c] = r]

Init ==
  /\ slot \in CardKeys
  /\ pc       = [c \in Clients |-> "new"]
  /\ public   = [c \in Clients |-> None]
  /\ runs     = [c \in Clients |-> 0]
  /\ job      = [c \in Clients |-> None]
  /\ offer    = [c \in Clients |-> None]
  /\ tx       = [c \in Clients |-> None]
  /\ sent     = [c \in Clients |-> None]
  /\ verdict  = [c \in Clients |-> None]
  /\ result   = [c \in Clients |-> "none"]
  /\ reviewed = {}
  /\ wire     = {}
  /\ issued   = [s \in Servers |-> {}]
  /\ used     = [s \in Servers |-> {}]
  /\ log      = [s \in Servers |-> <<>>]

\* Mutant of OpenBackend: the public key is left unread.
OpenBackendUnread(c) ==
  /\ pc[c] = "new"
  /\ pc' = [pc EXCEPT ![c] = "idle"]
  /\ UNCHANGED <<slot, public, runs, job, offer, tx, sent, verdict, result, reviewed,
                 wire, serverVars>>

\* Backend::software or Backend::yubikey: the public key is read once, from
\* the decrypted identity or from the card's slot as it is now.
OpenBackend(c) ==
  /\ pc[c] = "new"
  /\ public' = [public EXCEPT ![c] = IF c \in Yubi THEN slot ELSE SoftKey[c]]
  /\ pc' = [pc EXCEPT ![c] = "idle"]
  /\ UNCHANGED <<slot, runs, job, offer, tx, sent, verdict, result, reviewed,
                 wire, serverVars>>

\* Mutant of Start: a retry signs again under the challenge of the last run.
StartReusingChallenge(c, s, via, ops) ==
  /\ pc[c] = "idle"
  /\ runs[c] < MaxRuns
  /\ runs' = [runs EXCEPT ![c] = @ + 1]
  /\ job'  = [job EXCEPT ![c] = [server |-> s, via |-> via, ops |-> ops]]
  /\ IF sent[c] # None /\ sent[c].via = via
     THEN /\ pc'    = [pc EXCEPT ![c] = "got"]
          /\ offer' = [offer EXCEPT ![c] = sent[c].tx.nonce]
     ELSE /\ pc'    = [pc EXCEPT ![c] = "get"]
          /\ UNCHANGED offer
  /\ result' = [result EXCEPT ![c] = "none"]
  /\ UNCHANGED <<slot, public, tx, sent, verdict, reviewed, wire, serverVars>>

\* The caller runs sign_and_submit, for the first time or as a retry.  An
\* empty batch returns at once; otherwise GET /admin/challenge goes out on
\* the connection the caller passed, which pins its own server key (via): the
\* `server` argument is a second one.
Start(c, s, via, ops) ==
  /\ pc[c] = "idle"
  /\ runs[c] < MaxRuns
  /\ runs' = [runs EXCEPT ![c] = @ + 1]
  /\ job'  = [job EXCEPT ![c] = [server |-> s, via |-> via, ops |-> ops]]
  /\ IF ops = <<>>
     THEN Return(c, "err")
     ELSE /\ pc'     = [pc EXCEPT ![c] = "get"]
          /\ result' = [result EXCEPT ![c] = "none"]
  /\ UNCHANGED <<slot, public, offer, tx, sent, verdict, reviewed, wire, serverVars>>

\* External: the server answers the challenge with a nonce it never issued
\* before, or with a status other than 200 or a body that is not 32 bytes.
AnswerChallenge(c) ==
  /\ pc[c] = "get"
  /\ pc' = [pc EXCEPT ![c] = "got"]
  /\ LET s == job[c].via
     IN  \/ \E n \in Nonces \ (issued[s] \cup used[s]) :
              /\ offer'  = [offer EXCEPT ![c] = n]
              /\ issued' = [issued EXCEPT ![s] = @ \cup {n}]
         \/ /\ offer' = [offer EXCEPT ![c] = None]
            /\ UNCHANGED issued
  /\ UNCHANGED <<slot, public, runs, job, tx, sent, verdict, result, reviewed,
                 wire, used, log>>

\* Mutant of ReceiveChallenge: a bad challenge is waited out.
ReceiveChallengeWaiting(c) ==
  /\ pc[c] = "got"
  /\ offer[c] # None
  /\ LET t == [server |-> job[c].server, nonce |-> offer[c], ops |-> job[c].ops]
     IN  /\ tx'       = [tx EXCEPT ![c] = t]
         /\ reviewed' = reviewed \cup {t}
  /\ pc'    = [pc EXCEPT ![c] = "signing"]
  /\ offer' = [offer EXCEPT ![c] = None]
  /\ UNCHANGED <<slot, public, runs, job, sent, verdict, result, wire, serverVars>>

\* The challenge arrives: a bad one ends the run, a good one is bound with
\* the server argument and the ops into the transaction shown to on_review,
\* with no await before the signature is asked for.
ReceiveChallenge(c) ==
  /\ pc[c] = "got"
  /\ IF offer[c] = None
     THEN /\ Return(c, "err")
          /\ UNCHANGED <<tx, reviewed>>
     ELSE LET t == [server |-> job[c].server, nonce |-> offer[c], ops |-> job[c].ops]
          IN  /\ tx'       = [tx EXCEPT ![c] = t]
              /\ reviewed' = reviewed \cup {t}
              /\ pc'       = [pc EXCEPT ![c] = "signing"]
              /\ UNCHANGED result
  /\ offer' = [offer EXCEPT ![c] = None]
  /\ UNCHANGED <<slot, public, runs, job, sent, verdict, wire, serverVars>>

\* Backend::sign returned a signature: of the software identity's key, or of
\* whatever key the card holds when it is tapped.  The body names the Backend's
\* public key and goes out as POST /admin/command.
Sign(c) ==
  /\ pc[c] = "signing"
  /\ LET key == IF c \in Yubi THEN slot ELSE SoftKey[c]
         b   == Body(tx[c], public[c], key, job[c].via)
     IN  /\ sent' = [sent EXCEPT ![c] = b]
         /\ wire' = wire \cup {b}
  /\ tx' = [tx EXCEPT ![c] = None]
  /\ pc' = [pc EXCEPT ![c] = "posted"]
  /\ UNCHANGED <<slot, public, runs, job, offer, verdict, result, reviewed, serverVars>>

\* Backend::sign failed, which only the card can do: no POST.
SignFails(c) ==
  /\ pc[c] = "signing"
  /\ c \in Yubi
  /\ Return(c, "err")
  /\ tx' = [tx EXCEPT ![c] = None]
  /\ UNCHANGED <<slot, public, runs, job, offer, sent, verdict, reviewed, wire, serverVars>>

\* External: the server behind the client's connection handles the POST.
AnswerCommand(c) ==
  /\ pc[c] = "posted"
  /\ LET s == job[c].via
     IN  \/ /\ Apply(s, sent[c])
            /\ verdict' = [verdict EXCEPT ![c] = "ok"]
         \/ /\ verdict' = [verdict EXCEPT ![c] = Rejection(s, sent[c])]
            /\ UNCHANGED serverVars
  /\ pc' = [pc EXCEPT ![c] = "answered"]
  /\ UNCHANGED <<slot, public, runs, job, offer, tx, sent, result, reviewed, wire>>

\* Mutant of ReceiveResult: the status is not looked at.
ReceiveResultUnchecked(c) ==
  /\ pc[c] = "answered"
  /\ Return(c, "ok")
  /\ verdict' = [verdict EXCEPT ![c] = None]
  /\ UNCHANGED <<slot, public, runs, job, offer, tx, sent, reviewed, wire, serverVars>>

\* The response arrives: Ok on 200, an error naming the server's otherwise.
ReceiveResult(c) ==
  /\ pc[c] = "answered"
  /\ Return(c, IF verdict[c] = "ok" THEN "ok" ELSE "err")
  /\ verdict' = [verdict EXCEPT ![c] = None]
  /\ UNCHANGED <<slot, public, runs, job, offer, tx, sent, reviewed, wire, serverVars>>

\* A request fails at one of its awaits (connection lost, stream reset): the
\* run returns Err whatever the server did or will do with the request.
LoseConnection(c) ==
  /\ pc[c] \in {"get", "got", "posted", "answered"}
  /\ Return(c, "err")
  /\ offer'   = [offer EXCEPT ![c] = None]
  /\ verdict' = [verdict EXCEPT ![c] = None]
  /\ UNCHANGED <<slot, public, runs, job, tx, sent, reviewed, wire, serverVars>>

\* The process dies, or its future is dropped, anywhere in the flow; the next
\* one builds its Backend anew.
Crash(c) ==
  /\ pc[c] # "new"
  /\ pc'      = [pc EXCEPT ![c] = "new"]
  /\ public'  = [public EXCEPT ![c] = None]
  /\ offer'   = [offer EXCEPT ![c] = None]
  /\ tx'      = [tx EXCEPT ![c] = None]
  /\ verdict' = [verdict EXCEPT ![c] = None]
  /\ result'  = [result EXCEPT ![c] = "none"]
  /\ UNCHANGED <<slot, runs, job, sent, reviewed, wire, serverVars>>

-----------------------------------------------------------------------------
(* The environment *)

\* A POST the client gave up on, or one already answered, reaches a server
\* late, again or at the wrong address, its fields possibly altered: only the
\* signature cannot be made up.  A rejected one changes nothing.
LateDelivery(s) ==
  /\ \E w \in wire, t \in Txs, admin \in Keys :
       Apply(s, [w EXCEPT !.tx = t, !.admin = admin])
  /\ UNCHANGED <<slot, clientVars, reviewed, wire>>

\* External: an unused challenge times out.
Expire(s) ==
  /\ \E n \in issued[s] : Spend(s, n)
  /\ UNCHANGED <<slot, clientVars, reviewed, wire, log>>

\* The card is provisioned anew, or swapped for another one.
ChangeCard ==
  /\ slot' \in CardKeys \ {slot}
  /\ UNCHANGED <<clientVars, reviewed, wire, serverVars>>

-----------------------------------------------------------------------------
\* The flow advances on its own: nothing here waits for the caller.
Advance(c) ==
  \/ ReceiveChallenge(c)
  \/ Sign(c)
  \/ SignFails(c)
  \/ ReceiveResult(c)

Call(c) == \E s \in Servers, via \in Servers, ops \in Batches : Start(c, s, via, ops)

Reply(c) == AnswerChallenge(c) \/ AnswerCommand(c)

Next ==
  \/ \E c \in Clients : \/ OpenBackend(c) \/ Call(c) \/ Advance(c)
                        \/ Reply(c) \/ LoseConnection(c) \/ Crash(c)
  \/ \E s \in Servers : LateDelivery(s) \/ Expire(s)
  \/ ChangeCard

Spec == Init /\ [][Next]_vars

\* A task that can run is polled by the runtime, and the card answers or times
\* out.  A request has no timeout of its own: that the server answers it, or
\* the connection is lost, is assumed of the server and of QUIC.
Fairness == \A c \in Clients : WF_vars(Advance(c)) /\ WF_vars(Reply(c))

FairSpec == Spec /\ Fairness

-----------------------------------------------------------------------------
(* Properties *)

\* Every variable has its type, and a built Backend knows its public key
\* (signer.rs) before anything is sent in its name.
TypeOK ==
  /\ slot     \in CardKeys
  /\ pc       \in [Clients -> PCs]
  /\ public   \in [Clients -> Keys \cup {None}]
  /\ runs     \in [Clients -> 0..MaxRuns]
  /\ job      \in [Clients -> Jobs \cup {None}]
  /\ offer    \in [Clients -> Nonces \cup {None}]
  /\ tx       \in [Clients -> Txs \cup {None}]
  /\ sent     \in [Clients -> Bodies \cup {None}]
  /\ verdict  \in [Clients -> Verdicts \cup {None}]
  /\ result   \in [Clients -> Results]
  /\ reviewed \subseteq Txs
  /\ wire     \subseteq Bodies
  /\ issued   \in [Servers -> SUBSET Nonces]
  /\ used     \in [Servers -> SUBSET Nonces]
  /\ log      \in [Servers -> Seq(Bodies)]

\* What a server applies is a transaction some operator was shown by
\* on_review, unaltered and for that very server, signed by an administrator
\* of it: however a body is delayed, repeated, misdirected or altered between
\* flow.rs and the server.
AppliedWasApproved ==
  \A s \in Servers : \A i \in DOMAIN log[s] :
    LET e == log[s][i]
    IN  /\ e.tx \in reviewed
        /\ e.tx.server = s
        /\ \E b \in wire : b.tx = e.tx /\ b.sig.key = e.admin
        /\ e.admin \in Admins[s]

\* flow.rs: "a captured signature cannot be double-applied".  No signature is
\* applied twice, by one server or by two, across losses and retries.
SignatureAppliedOnce ==
  \A s1, s2 \in Servers : \A i \in DOMAIN log[s1], j \in DOMAIN log[s2] :
    log[s1][i].sig = log[s2][j].sig => s1 = s2 /\ i = j

\* When sign_and_submit returns Ok, the transaction of that run has been
\* applied by the server it was addressed to.  (An Err says nothing: the
\* answer may have been lost after the batch was applied.)
OkMeansApplied ==
  \A c \in Clients :
    result[c] = "ok" =>
      \E i \in DOMAIN log[job[c].server] : log[job[c].server][i] = sent[c]

\* flow.rs: "The card only ever signs a transaction bound to a fresh nonce".
\* Two signatures never carry the same challenge of the same connection, so
\* a retry after an unknown outcome never competes with its predecessor.
FreshNoncePerSignature ==
  \A a, b \in wire : a.via = b.via /\ a.tx.nonce = b.tx.nonce => a = b

\* The flow implements the abstract authority protocol: review is approval, a
\* signature is a grant, and the servers' logs are what was executed.
Abs == INSTANCE Authority WITH
  approved <- reviewed,
  granted  <- {[tx |-> b.tx, key |-> b.sig.key] : b \in wire},
  executed <- [s \in Servers |->
                 [i \in DOMAIN log[s] |-> [tx |-> log[s][i].tx, key |-> log[s][i].admin]]]

\* See Abs: every step of the flow is a step of Authority or changes nothing
\* of it.
ImplementsAuthority == Abs!Spec

\* Every run of sign_and_submit returns (or its process dies): no error path
\* of flow.rs leaves a caller waiting.
RunsReturn ==
  \A c \in Clients : pc[c] \notin {"new", "idle"} ~> pc[c] \in {"new", "idle"}

-----------------------------------------------------------------------------
(* The inductive invariant the proofs rest on (AdminFlowProofs) *)

Applied(s, b) == \E i \in DOMAIN log[s] : log[s][i] = b

\* What client c holds at each point of the flow.
ClientOK(c) ==
  /\ pc[c] # "new" => public[c] \in Keys
  /\ pc[c] \notin {"new", "idle"} => job[c] \in Jobs
  /\ pc[c] = "signing" => tx[c] \in reviewed /\ tx[c].server = job[c].server
  /\ pc[c] \in {"posted", "answered"} =>
       sent[c] \in wire /\ sent[c].tx.server = job[c].server
  /\ pc[c] = "answered" /\ verdict[c] = "ok" => Applied(job[c].server, sent[c])
  /\ result[c] = "ok" =>
       pc[c] = "idle" /\ job[c] \in Jobs /\ Applied(job[c].server, sent[c])

ClientInv == \A c \in Clients : ClientOK(c)

\* Every body on the wire was reviewed, and its signature is over it.
WireInv ==
  \A b \in wire : b.tx \in reviewed /\ b.sig.msg = SigningBytes(b.tx)

\* Entry e of the log of server s: its nonce is spent, and it passed verify
\* with a signature that some client made for exactly this transaction.
EntrySound(s, e) ==
  /\ e.tx.nonce \in used[s]
  /\ e.tx.server = s
  /\ e.admin \in Admins[s]
  /\ e.sig = Signature(e.admin, SigningBytes(e.tx))
  /\ \E b \in wire : b.tx = e.tx /\ b.sig = e.sig

\* A nonce is outstanding or spent, never both, and spent by one entry.
LogInv ==
  \A s \in Servers :
    /\ issued[s] \cap used[s] = {}
    /\ \A i \in DOMAIN log[s] : EntrySound(s, log[s][i])
    /\ \A i, j \in DOMAIN log[s] : log[s][i].tx.nonce = log[s][j].tx.nonce => i = j

IInv == TypeOK /\ ClientInv /\ WireInv /\ LogInv
=============================================================================
