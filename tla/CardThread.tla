----------------------------- MODULE CardThread -----------------------------
(***************************************************************************)
(* The YubiKey backend of crates/sqnr/src/card.rs: handles (Card) queue    *)
(* requests on an mpsc channel to a thread that owns the PC/SC connection, *)
(* opens it when there is work, runs every request in a transaction of its *)
(* own and drops the connection after a communication failure.             *)
(*                                                                         *)
(* An instance is one Card::spawn with its thread; the callers it hosts    *)
(* hold clones of the handle.  Several instances (other processes) share   *)
(* the one card, which is external: it is modelled from how card.rs uses   *)
(* it.  PW1 is a flag of the card, not of a connection; selecting the      *)
(* applet, which opening a connection does, clears it ("re-locking").      *)
(***************************************************************************)
EXTENDS Naturals, Sequences

CONSTANTS
  Instances,    \* card threads
  Callers,      \* async tasks holding a clone of a Card
  Host,         \* Host[k]: the instance of caller k's handle
  Keys,         \* Ed25519 keys the Authentication slot may hold
  Blank,        \* the slot holds no Ed25519 key (empty, or RSA)
  MaxRequests,  \* bound: requests sent
  MaxEvents,    \* bound: removals, insertions and resets of the card
  None          \* no request in hand, no transaction open

\* Req, with the argument's meaning folded into the kind: a PIN is right or
\* wrong, and an admin PIN can also be shorter than 8 characters.
Kinds == {"pubkey", "sign", "unlock", "unlock_wrong",
          "provision", "provision_wrong", "provision_short"}
Requests == [id : 1..MaxRequests, from : Callers, kind : Kinds]

ASSUME CardAssumption ==
  /\ Host \in [Callers -> Instances]
  /\ Blank \notin Keys
  /\ None \notin Instances \cup Requests
  /\ MaxRequests \in Nat /\ MaxEvents \in Nat

VARIABLES
  asked,     \* requests sent so far; numbers them
  awaiting,  \* awaiting[k]: the request caller k awaits, 0 for none
  closed,    \* closed[i]: every handle of the instance is dropped
  queue,     \* the mpsc channel of each instance
  at,        \* where the thread is in card_loop
  cur,       \* the request in the thread's hands
  conn,      \* its PC/SC connection
  lock,      \* the instance whose PC/SC transaction is open
  present,   \* a card is in the reader
  slot,      \* its Authentication key
  pw1,       \* the card has PW1 verified
  events,    \* disturbances of the card so far
  entitled,  \* history: unlocked, and nothing has happened since that
             \* the documentation says re-locks
  wasted,    \* history: requests failed on a connection already dead
  overwrote  \* history: how often each request generated a key

callerVars == <<asked, awaiting, closed>>
threadVars == <<queue, at, cur, conn, lock>>
cardVars   == <<present, slot, pw1, events>>
history    == <<entitled, wasted, overwrote>>
vars == <<callerVars, threadVars, cardVars, history>>

\* The thread between its steps: in recv, before open, before transaction,
\* in handle, in the later steps of provision_auth, and returned.
Places == {"recv", "open", "begin", "handle", "attributes", "generate", "stopped"}

\* The connection: none, usable, usable after the card was reset (the next
\* transaction re-selects the applet), or to a card that is gone.
Conns == {"none", "live", "reset", "dead"}

Init ==
  /\ asked     = 0
  /\ awaiting  = [k \in Callers |-> 0]
  /\ closed    = [i \in Instances |-> FALSE]
  /\ queue     = [i \in Instances |-> <<>>]
  /\ at        = [i \in Instances |-> "recv"]
  /\ cur       = [i \in Instances |-> None]
  /\ conn      = [i \in Instances |-> "none"]
  /\ lock      = None
  /\ present   \in BOOLEAN
  /\ slot      \in Keys \cup {Blank}
  /\ pw1       = FALSE
  /\ events    = 0
  /\ entitled  = [i \in Instances |-> FALSE]
  /\ wasted    = [i \in Instances |-> 0]
  /\ overwrote = [r \in 1..MaxRequests |-> 0]

-----------------------------------------------------------------------------
(* Callers: Card::pubkey, unlock, sign and provision *)

\* Send the request and await its oneshot.
Ask(k, kind) ==
  /\ awaiting[k] = 0
  /\ ~ closed[Host[k]]
  /\ asked < MaxRequests
  /\ asked'    = asked + 1
  /\ awaiting' = [awaiting EXCEPT ![k] = asked + 1]
  /\ queue'    = [queue EXCEPT ![Host[k]] =
                    Append(@, [id |-> asked + 1, from |-> k, kind |-> kind])]
  /\ UNCHANGED <<closed, at, cur, conn, lock, cardVars, history>>

\* The caller's future is dropped: nobody awaits the oneshot any more, and
\* the request stays where it is.
Abandon(k) ==
  /\ awaiting[k] # 0
  /\ awaiting' = [awaiting EXCEPT ![k] = 0]
  /\ UNCHANGED <<asked, closed, threadVars, cardVars, history>>

\* The last clone of the handle is dropped; a pending call would hold one.
DropHandles(i) ==
  /\ ~ closed[i]
  /\ \A k \in Callers : Host[k] = i => awaiting[k] = 0
  /\ closed' = [closed EXCEPT ![i] = TRUE]
  /\ UNCHANGED <<asked, awaiting, threadVars, cardVars, history>>

-----------------------------------------------------------------------------
(* The thread: card_loop, handle_req and handle *)

\* Mutant of IsCommFailure: every error tears the session down.
AnyFailure(out) == out # "ok"

\* is_comm_failure: the error's text contains one of six needles.  A call on
\* the card ends well ("ok"), is refused by it, or fails with the transport
\* under it, in words the needles match ("comm") or do not.
IsCommFailure(out) == out = "comm"

\* reply.send, whose result is ignored: the answer ends the caller's wait if
\* it still awaits this request.  (What the answer says is in the outcome of
\* the step; the caller's copy of it decides nothing here.)
Answer(i) ==
  LET r == cur[i]
  IN  awaiting' = IF awaiting[r.from] = r.id THEN [awaiting EXCEPT ![r.from] = 0] ELSE awaiting

\* handle answers with out and returns `keep`; the transaction ends and the
\* loop goes on with the connection, or drops it.
Finish(i, out) ==
  /\ Answer(i)
  /\ conn' = [conn EXCEPT ![i] = IF IsCommFailure(out) THEN "none" ELSE @]
  /\ wasted' = [wasted EXCEPT ![i] =
                  IF IsCommFailure(out) \/ conn[i] # "dead" THEN 0 ELSE @ + 1]
  /\ at'   = [at EXCEPT ![i] = "recv"]
  /\ cur'  = [cur EXCEPT ![i] = None]
  /\ lock' = None

\* rx.recv(): take the next request.  Without a connection the loop opens one
\* first.
Recv(i) ==
  /\ at[i] = "recv"
  /\ queue[i] # <<>>
  /\ cur'   = [cur EXCEPT ![i] = Head(queue[i])]
  /\ queue' = [queue EXCEPT ![i] = Tail(@)]
  /\ at'    = [at EXCEPT ![i] = IF conn[i] = "none" THEN "open" ELSE "begin"]
  /\ UNCHANGED <<callerVars, conn, lock, cardVars, history>>

\* Mutant of Stop: the inner loop takes a closed channel for an idle one.
StopOuterOnly(i) ==
  /\ at[i] = "recv"
  /\ conn[i] = "none"
  /\ closed[i]
  /\ queue[i] = <<>>
  /\ at'     = [at EXCEPT ![i] = "stopped"]
  /\ wasted' = [wasted EXCEPT ![i] = 0]
  /\ UNCHANGED <<callerVars, queue, cur, conn, lock, cardVars, entitled, overwrote>>

\* rx.recv() fails once every handle is gone and the channel is drained: the
\* thread returns and its connection goes with it.
Stop(i) ==
  /\ at[i] = "recv"
  /\ closed[i]
  /\ queue[i] = <<>>
  /\ at'     = [at EXCEPT ![i] = "stopped"]
  /\ conn'   = [conn EXCEPT ![i] = "none"]
  /\ wasted' = [wasted EXCEPT ![i] = 0]
  /\ UNCHANGED <<callerVars, queue, cur, lock, cardVars, entitled, overwrote>>

\* open(): connect and select the applet, which clears PW1.
Open(i) ==
  /\ at[i] = "open"
  /\ lock = None
  /\ present
  /\ conn' = [conn EXCEPT ![i] = "live"]
  /\ pw1'  = FALSE
  /\ at'   = [at EXCEPT ![i] = "begin"]
  /\ UNCHANGED <<callerVars, queue, cur, lock, present, slot, events, history>>

\* Mutant of OpenFails: the request is dropped without an answer.
OpenFailsSilent(i) ==
  /\ at[i] = "open"
  /\ at'  = [at EXCEPT ![i] = "recv"]
  /\ cur' = [cur EXCEPT ![i] = None]
  /\ UNCHANGED <<callerVars, queue, conn, lock, cardVars, history>>

\* Mutant of OpenFails: the request is answered and kept.
OpenFailsHolding(i) ==
  /\ at[i] = "open"
  /\ Answer(i)
  /\ at'  = [at EXCEPT ![i] = "recv"]
  /\ UNCHANGED <<asked, closed, queue, cur, conn, lock, cardVars, history>>

\* open() fails, for want of a card or in the PC/SC service: reply_err, and
\* back to recv with no connection.
OpenFails(i) ==
  /\ at[i] = "open"
  /\ Answer(i)
  /\ at'  = [at EXCEPT ![i] = "recv"]
  /\ cur' = [cur EXCEPT ![i] = None]
  /\ UNCHANGED <<asked, closed, queue, conn, lock, cardVars, history>>

\* card.transaction(): exclusive access, re-selecting the applet if the card
\* was reset since.
Begin(i) ==
  /\ at[i] = "begin"
  /\ lock = None
  /\ conn[i] \in {"live", "reset"}
  /\ lock' = i
  /\ pw1'  = IF conn[i] = "reset" THEN FALSE ELSE pw1
  /\ conn' = [conn EXCEPT ![i] = "live"]
  /\ at'   = [at EXCEPT ![i] = "handle"]
  /\ UNCHANGED <<callerVars, queue, cur, present, slot, events, history>>

\* Mutant of BeginFails: the connection is kept.
BeginFailsKeeping(i) ==
  /\ at[i] = "begin"
  /\ Answer(i)
  /\ wasted'   = [wasted EXCEPT ![i] = IF conn[i] = "dead" THEN @ + 1 ELSE @]
  /\ entitled' = [entitled EXCEPT ![i] = FALSE]
  /\ at'       = [at EXCEPT ![i] = "recv"]
  /\ cur'      = [cur EXCEPT ![i] = None]
  /\ UNCHANGED <<asked, closed, queue, lock, conn, cardVars, overwrote>>

\* card.transaction() fails, as it does on a dead connection: reply_err, and
\* the connection is dropped whatever the error says.
BeginFails(i) ==
  /\ at[i] = "begin"
  /\ Answer(i)
  /\ conn'     = [conn EXCEPT ![i] = "none"]
  /\ wasted'   = [wasted EXCEPT ![i] = 0]
  /\ entitled' = [entitled EXCEPT ![i] = FALSE]
  /\ at'       = [at EXCEPT ![i] = "recv"]
  /\ cur'      = [cur EXCEPT ![i] = None]
  /\ UNCHANGED <<asked, closed, queue, lock, cardVars, overwrote>>

Working(i) == lock = i /\ conn[i] = "live"

\* Req::Pubkey: read_pubkey wants an Ed25519 point of 32 bytes.
HandlePubkey(i) ==
  /\ at[i] = "handle" /\ Working(i)
  /\ cur[i].kind = "pubkey"
  /\ Finish(i, IF slot = Blank THEN "refused" ELSE "ok")
  /\ UNCHANGED <<asked, closed, queue, cardVars, entitled, overwrote>>

\* Req::Unlock: a right PIN verifies PW1, a wrong one leaves it unverified.
HandleUnlock(i) ==
  /\ at[i] = "handle" /\ Working(i)
  /\ \/ /\ cur[i].kind = "unlock"
        /\ pw1'      = TRUE
        /\ entitled' = [entitled EXCEPT ![i] = TRUE]
        /\ Finish(i, "ok")
     \/ /\ cur[i].kind = "unlock_wrong"
        /\ pw1'      = FALSE
        /\ entitled' = [j \in Instances |-> FALSE]
        /\ Finish(i, "refused")
  /\ UNCHANGED <<asked, closed, queue, present, slot, events, overwrote>>

\* Req::Sign: the card signs if PW1 is verified, the slot makes a 64-byte
\* signature and somebody taps it in time.
HandleSign(i) ==
  /\ at[i] = "handle" /\ Working(i)
  /\ cur[i].kind = "sign"
  /\ \/ pw1 /\ slot # Blank /\ Finish(i, "ok")
     \/ Finish(i, "refused")
  /\ UNCHANGED <<asked, closed, queue, cardVars, entitled, overwrote>>

\* Req::Provision, the PIN checks: a short PIN never reaches the card, a
\* wrong PW3 is refused by it, a right one leads on.
HandleProvision(i) ==
  /\ at[i] = "handle" /\ lock = i
  /\ \/ /\ cur[i].kind = "provision_short"
        /\ Finish(i, "refused")
     \/ /\ Working(i)
        /\ cur[i].kind = "provision_wrong"
        /\ Finish(i, "refused")
     \/ /\ Working(i)
        /\ cur[i].kind = "provision"
        /\ at' = [at EXCEPT ![i] = "attributes"]
        /\ UNCHANGED <<awaiting, cur, conn, lock, wasted>>
  /\ UNCHANGED <<asked, closed, queue, cardVars, entitled, overwrote>>

\* set_algorithm_attributes: refused, or done; a change of algorithm may
\* discard the key in the slot.
SetAttributes(i) ==
  /\ at[i] = "attributes" /\ Working(i)
  /\ \/ Finish(i, "refused") /\ UNCHANGED slot
     \/ /\ slot' \in {slot, Blank}
        /\ at' = [at EXCEPT ![i] = "generate"]
        /\ UNCHANGED <<awaiting, cur, conn, lock, wasted>>
  /\ UNCHANGED <<asked, closed, queue, present, pw1, events, entitled, overwrote>>

\* The card makes a new key for the request in hand, in place of the old one.
Overwrite(i) ==
  /\ slot' \in Keys \ {slot}
  /\ overwrote' = [overwrote EXCEPT ![cur[i].id] = @ + 1]

\* generate_key and the checks after it: done, refused before a key is made,
\* or refused after (the fingerprint callback, the metadata, the key's form).
GenerateKey(i) ==
  /\ at[i] = "generate" /\ Working(i)
  /\ \/ Overwrite(i) /\ Finish(i, "ok")
     \/ Overwrite(i) /\ Finish(i, "refused")
     \/ Finish(i, "refused") /\ UNCHANGED <<slot, overwrote>>
  /\ UNCHANGED <<asked, closed, queue, present, pw1, events, entitled>>

\* What a request whose transport failed may have done to the card all the
\* same, if the card is still there.
LostEffect(i) ==
  \/ UNCHANGED <<pw1, slot, overwrote>>
  \/ /\ conn[i] = "live" /\ at[i] = "handle"
     /\ cur[i].kind \in {"unlock", "unlock_wrong"}
     /\ pw1' = (cur[i].kind = "unlock")
     /\ UNCHANGED <<slot, overwrote>>
  \/ /\ conn[i] = "live" /\ at[i] = "attributes"
     /\ slot' = Blank
     /\ UNCHANGED <<pw1, overwrote>>
  \/ /\ conn[i] = "live" /\ at[i] = "generate"
     /\ Overwrite(i)
     /\ UNCHANGED pw1

\* The transport fails under the request: for good if the card is gone, or
\* only this once.
Transport(i) ==
  /\ lock = i
  /\ at[i] \in {"handle", "attributes", "generate"}
  /\ cur[i].kind # "provision_short"
  /\ LostEffect(i)

\* Mutant of TransportFails: the request is tried again on a new connection.
TransportRetries(i) ==
  /\ Transport(i)
  /\ at'   = [at EXCEPT ![i] = "open"]
  /\ conn' = [conn EXCEPT ![i] = "none"]
  /\ lock' = None
  /\ entitled' = [j \in Instances |-> FALSE]
  /\ UNCHANGED <<callerVars, queue, cur, present, events, wasted>>

\* handle answers a transport failure, recognised or not.
TransportFails(i) ==
  /\ Transport(i)
  /\ \E out \in {"comm", "comm_unrecognised"} : Finish(i, out)
  /\ entitled' = [j \in Instances |-> IF j = i \/ pw1' # pw1 THEN FALSE ELSE entitled[j]]
  /\ UNCHANGED <<asked, closed, queue, present, events>>

-----------------------------------------------------------------------------
(* The environment: the operator's hands and other tools *)

Disturb == events < MaxEvents /\ events' = events + 1

Remove ==
  /\ Disturb
  /\ present /\ present' = FALSE
  /\ pw1' = FALSE
  /\ conn' = [i \in Instances |-> IF conn[i] = "none" THEN "none" ELSE "dead"]
  /\ entitled' = [i \in Instances |-> FALSE]
  /\ UNCHANGED <<callerVars, queue, at, cur, lock, slot, wasted, overwrote>>

\* The same card comes back, or another one.
Insert ==
  /\ Disturb
  /\ ~ present /\ present' = TRUE
  /\ slot' \in Keys \cup {Blank}
  /\ UNCHANGED <<callerVars, threadVars, pw1, history>>

\* Another tool resets the card, which it cannot do in a transaction.
ResetCard ==
  /\ Disturb
  /\ present /\ lock = None
  /\ pw1' = FALSE
  /\ conn' = [i \in Instances |-> IF conn[i] = "live" THEN "reset" ELSE conn[i]]
  /\ entitled' = [i \in Instances |-> FALSE]
  /\ UNCHANGED <<callerVars, queue, at, cur, lock, present, slot, wasted, overwrote>>

-----------------------------------------------------------------------------
ThreadStep(i) ==
  \/ Recv(i) \/ Stop(i)
  \/ Open(i) \/ OpenFails(i)
  \/ Begin(i) \/ BeginFails(i)
  \/ HandlePubkey(i) \/ HandleUnlock(i) \/ HandleSign(i)
  \/ HandleProvision(i) \/ SetAttributes(i) \/ GenerateKey(i)
  \/ TransportFails(i)

Next ==
  \/ \E k \in Callers, kind \in Kinds : Ask(k, kind)
  \/ \E k \in Callers : Abandon(k)
  \/ \E i \in Instances : DropHandles(i) \/ ThreadStep(i)
  \/ Remove \/ Insert \/ ResetCard

Spec == Init /\ [][Next]_vars

\* The operating system runs the thread, and a call on the card returns: a
\* missing touch times out on the card.
Fairness == \A i \in Instances : WF_vars(ThreadStep(i))

FairSpec == Spec /\ Fairness

-----------------------------------------------------------------------------
(* Properties *)

Inside == {"handle", "attributes", "generate"}
InHand(i) == at[i] \notin {"recv", "stopped"}

\* Every variable has its type; a thread holds a request exactly when it is
\* not in recv, and the transaction exactly when it is handling one.
TypeOK ==
  /\ asked     \in 0..MaxRequests
  /\ awaiting  \in [Callers -> 0..MaxRequests]
  /\ closed    \in [Instances -> BOOLEAN]
  /\ queue     \in [Instances -> Seq(Requests)]
  /\ at        \in [Instances -> Places]
  /\ cur       \in [Instances -> Requests \cup {None}]
  /\ conn      \in [Instances -> Conns]
  /\ lock      \in Instances \cup {None}
  /\ present   \in BOOLEAN
  /\ slot      \in Keys \cup {Blank}
  /\ pw1       \in BOOLEAN
  /\ events    \in 0..MaxEvents
  /\ entitled  \in [Instances -> BOOLEAN]
  /\ wasted    \in [Instances -> Nat]
  /\ overwrote \in [1..MaxRequests -> Nat]
  /\ \A i \in Instances : InHand(i) <=> cur[i] # None
  /\ \A i \in Instances : at[i] \in Inside <=> lock = i

Queued(i, id) == \E n \in DOMAIN queue[i] : queue[i][n].id = id
Held(i, id)   == InHand(i) /\ cur[i].id = id

\* A caller that awaits an answer has its request in exactly one place, the
\* channel or the hands of its own instance's thread: no error path of
\* card_loop, handle_req or handle forgets one or leaves one behind.
RequestConserved ==
  \A k \in Callers : awaiting[k] # 0 =>
    LET i == Host[k]
    IN  /\ Queued(i, awaiting[k]) \/ Held(i, awaiting[k])
        /\ ~ (Queued(i, awaiting[k]) /\ Held(i, awaiting[k]))

\* card.rs: "PW1 persists across those transactions ... so the PIN is verified
\* once".  After an unlock the card stays unlocked until it is removed or
\* reset, a wrong PIN is entered or a communication failure occurs: a refused
\* request (a bad admin PIN, a missed touch, an RSA key) does not re-lock it.
PinVerifiedOnce == \A i \in Instances : entitled[i] => pw1

\* A connection to a card that is gone fails at most one request before the
\* thread lets go of it, even if is_comm_failure does not recognise the error.
DeadConnectionShed ==
  \A i \in Instances : conn[i] = "dead" => wasted[i] <= 1

\* card.rs: provisioning is irreversible.  However the connection fails and is
\* reopened, one provision request overwrites the slot at most once.
ProvisionAtMostOnce == \A r \in 1..MaxRequests : overwrote[r] <= 1

\* Every request is answered, or its caller gives up: none waits for ever,
\* with the card present, absent or coming and going.
EveryRequestAnswered ==
  \A k \in Callers : awaiting[k] # 0 ~> awaiting[k] = 0

\* When the last handle is dropped the thread drains its channel and returns.
ThreadReturns == \A i \in Instances : closed[i] ~> at[i] = "stopped"
=============================================================================
