-------------------------- MODULE CardThreadProofs --------------------------
(***************************************************************************)
(* Safety of CardThread for any number of card threads, callers, requests  *)
(* and disturbances of the card.                                           *)
(***************************************************************************)
EXTENDS CardThread, TLAPS

-----------------------------------------------------------------------------
(* The inductive invariants *)

\* No request in the system is numbered beyond those sent.
Numbered ==
  /\ \A k \in Callers : awaiting[k] <= asked
  /\ \A i \in Instances :
       /\ \A n \in DOMAIN queue[i] : queue[i][n].id <= asked
       /\ InHand(i) => cur[i].id <= asked

\* No two places, of one thread or of two, hold the same request.
Distinct ==
  \A i, j \in Instances :
    /\ \A m \in DOMAIN queue[i], n \in DOMAIN queue[j] :
         queue[i][m].id = queue[j][n].id => i = j /\ m = n
    /\ \A n \in DOMAIN queue[j] : InHand(i) => cur[i].id # queue[j][n].id
    /\ InHand(i) /\ InHand(j) /\ cur[i].id = cur[j].id => i = j

\* An awaited request is queued or in hand, under the name of its caller.
Kept(k) ==
  \/ \E n \in DOMAIN queue[Host[k]] :
       queue[Host[k]][n].id = awaiting[k] /\ queue[Host[k]][n].from = k
  \/ InHand(Host[k]) /\ cur[Host[k]].id = awaiting[k] /\ cur[Host[k]].from = k
AllKept == \A k \in Callers : awaiting[k] # 0 => Kept(k)

\* A request that is still to come, queued or in hand has made no key.
Untouched ==
  /\ \A r \in 1..MaxRequests : r > asked => overwrote[r] = 0
  /\ \A i \in Instances :
       /\ \A n \in DOMAIN queue[i] : overwrote[queue[i][n].id] = 0
       /\ InHand(i) => overwrote[cur[i].id] = 0

RequestInv == Numbered /\ Distinct /\ AllKept /\ Untouched /\ ProvisionAtMostOnce

\* A request is wasted only on a dead connection, and then the thread is on
\* its way to the transaction() that drops it.
Shed(i) ==
  wasted[i] = 0 \/ (wasted[i] = 1 /\ conn[i] = "dead" /\ at[i] \in {"recv", "begin"})
ShedInv == \A i \in Instances : Shed(i)

\* An unlock lasts with a connection that will not select the applet again.
Lasting(i) ==
  /\ at[i] = "open" => conn[i] = "none"
  /\ entitled[i] => /\ pw1
                    /\ conn[i] # "reset"
                    /\ conn[i] = "none" => at[i] = "stopped"
PinInv == \A i \in Instances : Lasting(i)

-----------------------------------------------------------------------------
(* Types *)

\* reply.send ends at most the wait of the request's own caller.
LEMMA AnswerTyped ==
  ASSUME CardAssumption, TypeOK, NEW i \in Instances, InHand(i), Answer(i)
  PROVE  /\ cur[i] \in Requests
         /\ awaiting' \in [Callers -> 0..MaxRequests]
<1>1. cur[i] \in Requests
  BY DEF TypeOK
<1>2. 0 \in 0..MaxRequests
  BY DEF CardAssumption
<1> QED
  BY <1>1, <1>2 DEF Answer, TypeOK

\* What handle_req leaves behind when it returns.
LEMMA FinishTyped ==
  ASSUME CardAssumption, TypeOK, NEW i \in Instances, lock = i, NEW out, Finish(i, out)
  PROVE  /\ awaiting' \in [Callers -> 0..MaxRequests]
         /\ at'       \in [Instances -> Places]
         /\ cur'      \in [Instances -> Requests \cup {None}]
         /\ conn'     \in [Instances -> Conns]
         /\ lock'     \in Instances \cup {None}
         /\ wasted'   \in [Instances -> Nat]
         /\ \A j \in Instances : InHand(j)' <=> cur'[j] # None
         /\ \A j \in Instances : at'[j] \in Inside <=> lock' = j
<1>1. at[i] \in Inside /\ InHand(i)
  BY DEF TypeOK, Inside, InHand
<1>2. awaiting' \in [Callers -> 0..MaxRequests]
  BY <1>1, AnswerTyped DEF Finish
<1>3. at' \in [Instances -> Places] /\ cur' \in [Instances -> Requests \cup {None}]
  BY DEF Finish, TypeOK, Places
<1>4. conn' \in [Instances -> Conns] /\ wasted' \in [Instances -> Nat]
  BY DEF Finish, TypeOK, Conns
<1>5. \A j \in Instances : InHand(j)' <=> cur'[j] # None
  BY DEF Finish, TypeOK, InHand
<1>6. \A j \in Instances : at'[j] \in Inside <=> lock' = j
  BY DEF Finish, TypeOK, Inside, CardAssumption
<1> QED
  BY <1>2, <1>3, <1>4, <1>5, <1>6 DEF Finish

\* A request whose key is generated is one that was sent.
LEMMA OverwriteTyped ==
  ASSUME TypeOK, NEW i \in Instances, InHand(i), Overwrite(i)
  PROVE  /\ slot' \in Keys \cup {Blank}
         /\ overwrote' \in [1..MaxRequests -> Nat]
<1>1. cur[i].id \in 1..MaxRequests
  BY DEF TypeOK, Requests
<1> QED
  BY <1>1 DEF Overwrite, TypeOK

\* A failed transport may have changed the card, within its types.
LEMMA LostEffectTyped ==
  ASSUME TypeOK, NEW i \in Instances, InHand(i), LostEffect(i)
  PROVE  /\ pw1' \in BOOLEAN
         /\ slot' \in Keys \cup {Blank}
         /\ overwrote' \in [1..MaxRequests -> Nat]
<1>1. CASE UNCHANGED <<pw1, slot, overwrote>>
  BY <1>1 DEF TypeOK
<1>2. CASE pw1' = (cur[i].kind = "unlock") /\ UNCHANGED <<slot, overwrote>>
  BY <1>2 DEF TypeOK
<1>3. CASE slot' = Blank /\ UNCHANGED <<pw1, overwrote>>
  BY <1>3 DEF TypeOK
<1>4. CASE Overwrite(i) /\ UNCHANGED pw1
  BY <1>4, OverwriteTyped DEF TypeOK
<1> QED
  BY <1>1, <1>2, <1>3, <1>4 DEF LostEffect

\* The steps of callers and environment.
LEMMA OutsideTyped ==
  ASSUME CardAssumption, TypeOK,
         \/ \E k \in Callers, kind \in Kinds : Ask(k, kind)
         \/ \E k \in Callers : Abandon(k)
         \/ \E i \in Instances : DropHandles(i)
         \/ Remove \/ Insert \/ ResetCard
  PROVE  TypeOK'
<1> USE DEF TypeOK, InHand, Inside, callerVars, threadVars, cardVars, history
<1>1. ASSUME NEW k \in Callers, NEW kind \in Kinds, Ask(k, kind)
      PROVE  TypeOK'
  <2>1. asked + 1 \in 1..MaxRequests
    BY <1>1 DEF Ask, CardAssumption
  <2>2. [id |-> asked + 1, from |-> k, kind |-> kind] \in Requests
    BY <2>1 DEF Requests
  <2>3. Host[k] \in Instances
    BY DEF CardAssumption
  <2>4. queue' \in [Instances -> Seq(Requests)]
    BY <1>1, <2>2, <2>3 DEF Ask
  <2>5. asked' \in 0..MaxRequests /\ awaiting' \in [Callers -> 0..MaxRequests]
    BY <1>1, <2>1 DEF Ask
  <2> QED
    BY <1>1, <2>4, <2>5 DEF Ask
<1>2. ASSUME NEW k \in Callers, Abandon(k)
      PROVE  TypeOK'
  BY <1>2 DEF Abandon, CardAssumption
<1>3. ASSUME NEW i \in Instances, DropHandles(i)
      PROVE  TypeOK'
  BY <1>3 DEF DropHandles
<1>4. CASE Remove
  <2>1. events' \in 0..MaxEvents
    BY <1>4 DEF Remove, Disturb, CardAssumption
  <2>2. conn' \in [Instances -> Conns]
    BY <1>4 DEF Remove, Conns
  <2> QED
    BY <1>4, <2>1, <2>2 DEF Remove
<1>5. CASE Insert
  <2>1. events' \in 0..MaxEvents
    BY <1>5 DEF Insert, Disturb, CardAssumption
  <2> QED
    BY <1>5, <2>1 DEF Insert
<1>6. CASE ResetCard
  <2>1. events' \in 0..MaxEvents
    BY <1>6 DEF ResetCard, Disturb, CardAssumption
  <2>2. conn' \in [Instances -> Conns]
    BY <1>6 DEF ResetCard, Conns
  <2> QED
    BY <1>6, <2>1, <2>2 DEF ResetCard
<1> QED
  BY <1>1, <1>2, <1>3, <1>4, <1>5, <1>6

\* The steps of the thread.
LEMMA ThreadTyped ==
  ASSUME CardAssumption, TypeOK, NEW i \in Instances, ThreadStep(i)
  PROVE  TypeOK'
<1> USE DEF callerVars, threadVars, cardVars, history
<1>1. CASE Recv(i)
  <2>1. Head(queue[i]) \in Requests /\ Tail(queue[i]) \in Seq(Requests)
    BY <1>1 DEF Recv, TypeOK
  <2>2. cur' \in [Instances -> Requests \cup {None}] /\ queue' \in [Instances -> Seq(Requests)]
    BY <1>1, <2>1 DEF Recv, TypeOK
  <2>3. at' \in [Instances -> Places]
    BY <1>1 DEF Recv, TypeOK, Places
  <2>4. \A j \in Instances : InHand(j)' <=> cur'[j] # None
    BY <1>1, <2>1 DEF Recv, TypeOK, InHand, CardAssumption
  <2>5. \A j \in Instances : at'[j] \in Inside <=> lock' = j
    BY <1>1 DEF Recv, TypeOK, Inside
  <2> QED
    BY <1>1, <2>2, <2>3, <2>4, <2>5 DEF Recv, TypeOK
<1>2. CASE Stop(i)
  <2>1. at' \in [Instances -> Places] /\ conn' \in [Instances -> Conns]
    BY <1>2 DEF Stop, TypeOK, Places, Conns
  <2>2. wasted' \in [Instances -> Nat]
    BY <1>2 DEF Stop, TypeOK
  <2>3. \A j \in Instances : /\ InHand(j)' <=> cur'[j] # None
                             /\ at'[j] \in Inside <=> lock' = j
    BY <1>2 DEF Stop, TypeOK, InHand, Inside
  <2> QED
    BY <1>2, <2>1, <2>2, <2>3 DEF Stop, TypeOK, InHand
<1>3. CASE Open(i)
  BY <1>3 DEF Open, TypeOK, Places, Conns, InHand, Inside
<1>4. CASE OpenFails(i)
  <2>1. awaiting' \in [Callers -> 0..MaxRequests]
    BY <1>4, AnswerTyped DEF OpenFails, InHand
  <2> QED
    BY <1>4, <2>1 DEF OpenFails, TypeOK, Places, InHand, Inside
<1>5. CASE Begin(i)
  BY <1>5 DEF Begin, TypeOK, Places, Conns, InHand, Inside, CardAssumption
<1>6. CASE BeginFails(i)
  <2>1. awaiting' \in [Callers -> 0..MaxRequests]
    BY <1>6, AnswerTyped DEF BeginFails, InHand
  <2> QED
    BY <1>6, <2>1 DEF BeginFails, TypeOK, Places, Conns, InHand, Inside
<1>7. CASE HandlePubkey(i)
  BY <1>7, FinishTyped DEF HandlePubkey, Working, TypeOK, InHand
<1>8. CASE HandleUnlock(i)
  <2>1. lock = i /\ \E out : Finish(i, out)
    BY <1>8 DEF HandleUnlock, Working
  <2>2. pw1' \in BOOLEAN /\ entitled' \in [Instances -> BOOLEAN]
    BY <1>8 DEF HandleUnlock, TypeOK
  <2> QED
    BY <1>8, <2>1, <2>2, FinishTyped DEF HandleUnlock, TypeOK, InHand
<1>9. CASE HandleSign(i)
  BY <1>9, FinishTyped DEF HandleSign, Working, TypeOK, InHand
<1>10. CASE HandleProvision(i)
  <2>1. CASE \E out : Finish(i, out)
    BY <1>10, <2>1, FinishTyped DEF HandleProvision, TypeOK, InHand
  <2>2. CASE /\ at' = [at EXCEPT ![i] = "attributes"]
             /\ UNCHANGED <<awaiting, cur, conn, lock, wasted>>
    BY <1>10, <2>2 DEF HandleProvision, TypeOK, Places, InHand, Inside
  <2> QED
    BY <1>10, <2>1, <2>2 DEF HandleProvision
<1>11. CASE SetAttributes(i)
  <2>1. CASE Finish(i, "refused") /\ UNCHANGED slot
    BY <1>11, <2>1, FinishTyped DEF SetAttributes, Working, TypeOK, InHand
  <2>2. CASE /\ slot' \in {slot, Blank}
             /\ at' = [at EXCEPT ![i] = "generate"]
             /\ UNCHANGED <<awaiting, cur, conn, lock, wasted>>
    BY <1>11, <2>2 DEF SetAttributes, TypeOK, Places, InHand, Inside
  <2> QED
    BY <1>11, <2>1, <2>2 DEF SetAttributes
<1>12. CASE GenerateKey(i)
  <2>1. lock = i /\ InHand(i) /\ \E out : Finish(i, out)
    BY <1>12 DEF GenerateKey, Working, InHand
  <2>2. slot' \in Keys \cup {Blank} /\ overwrote' \in [1..MaxRequests -> Nat]
    BY <1>12, <2>1, OverwriteTyped DEF GenerateKey, TypeOK
  <2> QED
    BY <1>12, <2>1, <2>2, FinishTyped DEF GenerateKey, TypeOK, InHand
<1>13. CASE TransportFails(i)
  <2>1. lock = i /\ InHand(i) /\ LostEffect(i) /\ \E out : Finish(i, out)
    BY <1>13 DEF TransportFails, Transport, InHand
  <2>2. /\ pw1' \in BOOLEAN
        /\ slot' \in Keys \cup {Blank}
        /\ overwrote' \in [1..MaxRequests -> Nat]
    BY <2>1, LostEffectTyped
  <2>3. entitled' \in [Instances -> BOOLEAN]
    BY <1>13 DEF TransportFails, TypeOK
  <2> QED
    BY <1>13, <2>1, <2>2, <2>3, FinishTyped DEF TransportFails, TypeOK, InHand
<1> QED
  BY <1>1, <1>2, <1>3, <1>4, <1>5, <1>6, <1>7, <1>8, <1>9, <1>10, <1>11, <1>12,
     <1>13 DEF ThreadStep

\* Every variable of the threads, their callers and the card keeps its type; a
\* thread holds a request exactly between recv and its answer, and the PC/SC
\* transaction exactly while it handles one.
THEOREM CardTypeCorrect == Spec => []TypeOK
<1> USE CardAssumption
<1>1. ASSUME Init
      PROVE  TypeOK
  <2>1. queue \in [Instances -> Seq(Requests)]
    BY <1>1 DEF Init
  <2>2. 0 \in 0..MaxRequests /\ 0 \in 0..MaxEvents /\ 0 \in Nat
    BY DEF CardAssumption
  <2>3. \A i \in Instances : at[i] \in Inside <=> lock = i
    BY <1>1 DEF Init, Inside, CardAssumption
  <2>4. \A i \in Instances : InHand(i) <=> cur[i] # None
    BY <1>1 DEF Init, InHand
  <2> QED
    BY <1>1, <2>1, <2>2, <2>3, <2>4 DEF Init, TypeOK, Places, Conns
<1>2. TypeOK /\ [Next]_vars => TypeOK'
  <2>1. ASSUME TypeOK, UNCHANGED vars
        PROVE  TypeOK'
    BY <2>1 DEF TypeOK, vars, callerVars, threadVars, cardVars, history, InHand
  <2> QED
    BY <2>1, OutsideTyped, ThreadTyped DEF Next
<1> QED
  BY <1>1, <1>2, PTL DEF Spec
-----------------------------------------------------------------------------
(* Requests: where they are and what they did *)

\* A request is settled: it leaves the thread's hands, which answers it, and
\* it has generated a key or not.
Settles(i) ==
  /\ InHand(i) /\ Answer(i)
  /\ cur' = [cur EXCEPT ![i] = None]
  /\ at'  = [at EXCEPT ![i] = "recv"]
  /\ overwrote' = overwrote \/ overwrote' = [overwrote EXCEPT ![cur[i].id] = @ + 1]
  /\ UNCHANGED <<asked, queue>>

\* No request moves; a caller may stop waiting for its own.
Rests ==
  /\ \A i \in Instances : InHand(i)' <=> InHand(i)
  /\ \A k \in Callers : awaiting'[k] = 0 \/ awaiting'[k] = awaiting[k]
  /\ UNCHANGED <<asked, queue, cur, overwrote>>

\* Whatever card_loop, handle_req and handle do, and however they fail, a step
\* sends a request, takes one, settles one or leaves them all where they are.
LEMMA RequestSteps ==
  ASSUME CardAssumption, TypeOK, [Next]_vars
  PROVE  \/ \E k \in Callers, kind \in Kinds : Ask(k, kind)
         \/ \E i \in Instances : Recv(i) \/ Settles(i)
         \/ Rests
<1> USE DEF callerVars, threadVars, cardVars, history
<1>1. ASSUME NEW k \in Callers, Abandon(k)
      PROVE  Rests
  BY <1>1 DEF Abandon, Rests, TypeOK, InHand
<1>2. ASSUME NEW i \in Instances, DropHandles(i)
      PROVE  Rests
  BY <1>2 DEF DropHandles, Rests, InHand
<1>3. ASSUME Remove \/ Insert \/ ResetCard \/ UNCHANGED vars
      PROVE  Rests
  BY <1>3 DEF Remove, Insert, ResetCard, Rests, InHand, vars
<1>4. ASSUME NEW i \in Instances, Stop(i) \/ Open(i) \/ Begin(i)
      PROVE  Rests
  BY <1>4 DEF Stop, Open, Begin, Rests, InHand, TypeOK
<1>5. ASSUME NEW i \in Instances, OpenFails(i) \/ BeginFails(i)
      PROVE  Settles(i)
  BY <1>5 DEF OpenFails, BeginFails, Settles, InHand
<1>6. ASSUME NEW i \in Instances, HandlePubkey(i) \/ HandleUnlock(i) \/ HandleSign(i)
      PROVE  Settles(i)
  BY <1>6 DEF HandlePubkey, HandleUnlock, HandleSign, Finish, Settles, InHand
<1>7. ASSUME NEW i \in Instances, HandleProvision(i) \/ SetAttributes(i)
      PROVE  Settles(i) \/ Rests
  <2>1. CASE \E out : Finish(i, out)
    BY <1>7, <2>1 DEF HandleProvision, SetAttributes, Finish, Settles, InHand
  <2>2. CASE UNCHANGED <<awaiting, cur>> /\ \E p \in Inside : at' = [at EXCEPT ![i] = p]
    BY <1>7, <2>2 DEF HandleProvision, SetAttributes, Rests, InHand, Inside, TypeOK
  <2> QED
    BY <1>7, <2>1, <2>2 DEF HandleProvision, SetAttributes, Inside
<1>8. ASSUME NEW i \in Instances, GenerateKey(i)
      PROVE  Settles(i)
  BY <1>8 DEF GenerateKey, Overwrite, Finish, Settles, InHand
<1>9. ASSUME NEW i \in Instances, TransportFails(i)
      PROVE  Settles(i)
  <2>1. overwrote' = overwrote \/ overwrote' = [overwrote EXCEPT ![cur[i].id] = @ + 1]
    BY <1>9 DEF TransportFails, Transport, LostEffect, Overwrite
  <2> QED
    BY <1>9, <2>1 DEF TransportFails, Transport, Finish, Settles, InHand
<1> QED
  BY <1>1, <1>2, <1>3, <1>4, <1>5, <1>6, <1>7, <1>8, <1>9 DEF Next, ThreadStep

\* What is queued or in hand is a request some caller sent.
LEMMA PlacesTyped ==
  ASSUME TypeOK, NEW i \in Instances
  PROVE  /\ \A n \in DOMAIN queue[i] : queue[i][n] \in Requests /\ queue[i][n].id \in Nat
         /\ InHand(i) => cur[i] \in Requests /\ cur[i].id \in Nat
<1>1. queue[i] \in Seq(Requests) /\ (InHand(i) => cur[i] \in Requests)
  BY DEF TypeOK
<1>2. \A n \in DOMAIN queue[i] : queue[i][n] \in Requests
  BY <1>1
<1> QED
  BY <1>1, <1>2 DEF Requests

\* Sending a request adds it, under a number of its own, to one channel.
LEMMA AskKeeps ==
  ASSUME CardAssumption, TypeOK, RequestInv,
         NEW k \in Callers, NEW kind \in Kinds, Ask(k, kind)
  PROVE  RequestInv'
<1> DEFINE h == Host[k]
           r == [id |-> asked + 1, from |-> k, kind |-> kind]
           q == queue[h]
<1> USE DEF RequestInv
<1>1. h \in Instances /\ q \in Seq(Requests) /\ asked \in Nat /\ asked + 1 \in 1..MaxRequests
  BY DEF CardAssumption, TypeOK, Ask
<1>2. /\ queue'[h] = Append(q, r)
      /\ \A i \in Instances \ {h} : queue'[i] = queue[i]
      /\ asked' = asked + 1
      /\ awaiting' = [awaiting EXCEPT ![k] = asked + 1]
      /\ UNCHANGED <<at, cur, overwrote>>
  BY <1>1 DEF Ask, TypeOK, history
<1>3. \A i \in Instances : InHand(i)' <=> InHand(i)
  BY <1>2 DEF InHand
<1>4. /\ DOMAIN queue'[h] = 1..(Len(q) + 1) /\ DOMAIN q = 1..Len(q) /\ Len(q) \in Nat
      /\ queue'[h][Len(q) + 1] = r
      /\ \A n \in DOMAIN q : n \in DOMAIN queue'[h] /\ queue'[h][n] = q[n]
  BY <1>1, <1>2
<1>5. r.id = asked + 1 /\ r.from = k /\ q = queue[h]
  OBVIOUS
<1> HIDE DEF h, r, q
<1>6. \A i \in Instances : \A n \in DOMAIN queue'[i] :
        \/ n \in DOMAIN queue[i] /\ queue'[i][n] = queue[i][n]
        \/ i = h /\ n = Len(q) + 1 /\ queue'[i][n].id = asked + 1
  BY <1>2, <1>4, <1>5
<1>7. \A i \in Instances : \A n \in DOMAIN queue[i] :
        n \in DOMAIN queue'[i] /\ queue'[i][n] = queue[i][n]
  BY <1>2, <1>4, <1>5
<1>8. \A i \in Instances : /\ \A n \in DOMAIN queue[i] : queue[i][n].id \in Nat
                           /\ InHand(i) => cur[i].id \in Nat
  BY PlacesTyped
<1>9. Numbered'
  <2>1. \A c \in Callers : awaiting'[c] <= asked'
    BY <1>1, <1>2 DEF Numbered, TypeOK
  <2>2. \A i \in Instances : \A n \in DOMAIN queue'[i] : queue'[i][n].id <= asked'
    BY <1>1, <1>2, <1>6, <1>8 DEF Numbered
  <2>3. \A i \in Instances : InHand(i)' => cur'[i].id <= asked'
    BY <1>1, <1>2, <1>3, <1>8 DEF Numbered
  <2> QED
    BY <2>1, <2>2, <2>3 DEF Numbered
<1>10. Distinct'
  <2>1. \A i \in Instances : \A n \in DOMAIN queue[i] : queue[i][n].id # asked + 1
    BY <1>1, <1>8 DEF Numbered
  <2>2. \A i \in Instances : InHand(i) => cur[i].id # asked + 1
    BY <1>1, <1>8 DEF Numbered
  <2> SUFFICES ASSUME NEW i \in Instances, NEW j \in Instances
               PROVE  /\ \A m \in DOMAIN queue'[i], n \in DOMAIN queue'[j] :
                           queue'[i][m].id = queue'[j][n].id => i = j /\ m = n
                      /\ \A n \in DOMAIN queue'[j] :
                           InHand(i)' => cur'[i].id # queue'[j][n].id
                      /\ InHand(i)' /\ InHand(j)' /\ cur'[i].id = cur'[j].id => i = j
    BY DEF Distinct
  <2>3. \A m \in DOMAIN queue'[i], n \in DOMAIN queue'[j] :
          queue'[i][m].id = queue'[j][n].id => i = j /\ m = n
    BY <1>6, <2>1 DEF Distinct
  <2>4. \A n \in DOMAIN queue'[j] : InHand(i)' => cur'[i].id # queue'[j][n].id
    BY <1>2, <1>3, <1>6, <2>2 DEF Distinct
  <2>5. InHand(i)' /\ InHand(j)' /\ cur'[i].id = cur'[j].id => i = j
    BY <1>2, <1>3 DEF Distinct
  <2> QED
    BY <2>3, <2>4, <2>5
<1>11. AllKept'
  <2> SUFFICES ASSUME NEW c \in Callers, awaiting'[c] # 0
               PROVE  Kept(c)'
    BY DEF AllKept
  <2>1. Host[c] \in Instances
    BY DEF CardAssumption
  <2>2. CASE c = k
    <3>1. Host[c] = h /\ awaiting'[c] = asked + 1
      BY <1>2, <2>2 DEF h, TypeOK
    <3>2. Len(q) + 1 \in DOMAIN queue'[h]
      BY <1>4
    <3> QED
      BY <1>4, <1>5, <2>2, <3>1, <3>2 DEF Kept
  <2>3. CASE c # k
    <3>1. awaiting'[c] = awaiting[c] /\ Kept(c)
      BY <1>2, <2>3 DEF AllKept, TypeOK
    <3> QED
      BY <1>2, <1>3, <1>7, <2>1, <3>1 DEF Kept
  <2> QED
    BY <2>2, <2>3
<1>12. Untouched'
  <2>1. \A n \in 1..MaxRequests : n > asked' => overwrote'[n] = 0
    BY <1>1, <1>2 DEF Untouched
  <2>2. overwrote[asked + 1] = 0
    BY <1>1 DEF Untouched
  <2> QED
    BY <1>2, <1>3, <1>6, <2>1, <2>2 DEF Untouched
<1> QED
  BY <1>2, <1>9, <1>10, <1>11, <1>12 DEF ProvisionAtMostOnce

\* Taking a request moves it from the head of the channel into the hands of
\* the thread, which had none.
LEMMA RecvKeeps ==
  ASSUME CardAssumption, TypeOK, RequestInv, NEW t \in Instances, Recv(t)
  PROVE  RequestInv'
<1> DEFINE q == queue[t]
<1> USE DEF RequestInv
<1>1. q \in Seq(Requests) /\ q # <<>> /\ ~ InHand(t)
  BY DEF Recv, TypeOK, InHand
<1>2. queue'[t] = Tail(q) /\ cur'[t] = Head(q)
  BY DEF Recv, TypeOK
<1>3. /\ InHand(t)'
      /\ \A i \in Instances \ {t} :
           queue'[i] = queue[i] /\ cur'[i] = cur[i] /\ (InHand(i)' <=> InHand(i))
      /\ UNCHANGED <<asked, awaiting, overwrote>>
  BY DEF Recv, TypeOK, InHand, callerVars, history
<1>4. Len(q) \in Nat \ {0} /\ DOMAIN q = 1..Len(q) /\ DOMAIN Tail(q) = 1..(Len(q) - 1)
  BY <1>1
<1>5. /\ 1 \in DOMAIN q /\ cur'[t] = q[1]
      /\ \A n \in DOMAIN queue'[t] :
           n \in Nat \ {0} /\ n + 1 \in DOMAIN q /\ queue'[t][n] = q[n + 1]
  BY <1>1, <1>2, <1>4
<1>6. \A n \in DOMAIN q : n = 1 \/ \E m \in DOMAIN queue'[t] : queue'[t][m] = q[n]
  <2> SUFFICES ASSUME NEW n \in DOMAIN q, n # 1
               PROVE  n - 1 \in DOMAIN queue'[t] /\ queue'[t][n - 1] = q[n]
    OBVIOUS
  <2> QED
    BY <1>1, <1>2, <1>4
<1>7. q = queue[t]
  OBVIOUS
<1> HIDE DEF q
<1>8. /\ \E m \in DOMAIN queue[t] : cur'[t] = queue[t][m]
      /\ \A i \in Instances : \A n \in DOMAIN queue'[i] :
           \E m \in DOMAIN queue[i] : queue'[i][n] = queue[i][m]
  BY <1>3, <1>5, <1>7
<1>9. Numbered'
  BY <1>3, <1>8 DEF Numbered
<1>10. Distinct'
  <2> SUFFICES ASSUME NEW i \in Instances, NEW j \in Instances
               PROVE  /\ \A m \in DOMAIN queue'[i], n \in DOMAIN queue'[j] :
                           queue'[i][m].id = queue'[j][n].id => i = j /\ m = n
                      /\ \A n \in DOMAIN queue'[j] :
                           InHand(i)' => cur'[i].id # queue'[j][n].id
                      /\ InHand(i)' /\ InHand(j)' /\ cur'[i].id = cur'[j].id => i = j
    BY DEF Distinct
  <2>1. \A m \in DOMAIN queue'[i], n \in DOMAIN queue'[j] :
          queue'[i][m].id = queue'[j][n].id => i = j
    BY <1>8 DEF Distinct
  <2>2. \A m, n \in DOMAIN queue'[t] : queue'[t][m].id = queue'[t][n].id => m = n
    <3> SUFFICES ASSUME NEW m \in DOMAIN queue'[t], NEW n \in DOMAIN queue'[t],
                        queue'[t][m].id = queue'[t][n].id
                 PROVE  m = n
      OBVIOUS
    <3>1. m + 1 = n + 1
      BY <1>5, <1>7 DEF Distinct
    <3> QED
      BY <1>5, <3>1
  <2>3. i # t => \A m, n \in DOMAIN queue'[i] : queue'[i][m].id = queue'[i][n].id => m = n
    BY <1>3 DEF Distinct
  <2>4. \A n \in DOMAIN queue'[j] : InHand(i)' => cur'[i].id # queue'[j][n].id
    <3>1. CASE i # t
      BY <1>3, <1>8, <3>1 DEF Distinct
    <3>2. CASE i = t /\ j # t
      BY <1>3, <1>8, <3>2 DEF Distinct
    <3>3. CASE i = t /\ j = t
      <4> SUFFICES ASSUME NEW n \in DOMAIN queue'[t]
                   PROVE  cur'[t].id # queue'[t][n].id
        BY <3>3
      <4>1. n + 1 # 1
        BY <1>5
      <4> QED
        BY <1>5, <1>7, <4>1 DEF Distinct
    <3> QED
      BY <3>1, <3>2, <3>3
  <2>5. InHand(i)' /\ InHand(j)' /\ cur'[i].id = cur'[j].id => i = j
    BY <1>3, <1>8 DEF Distinct
  <2> QED
    BY <2>1, <2>2, <2>3, <2>4, <2>5
<1>11. AllKept'
  <2> SUFFICES ASSUME NEW c \in Callers, awaiting'[c] # 0
               PROVE  Kept(c)'
    BY DEF AllKept
  <2>1. Host[c] \in Instances /\ awaiting'[c] = awaiting[c] /\ Kept(c)
    BY <1>3 DEF CardAssumption, AllKept
  <2>2. CASE Host[c] # t
    BY <1>3, <2>1, <2>2 DEF Kept
  <2>3. CASE Host[c] = t
    BY <1>1, <1>3, <1>5, <1>6, <1>7, <2>1, <2>3 DEF Kept
  <2> QED
    BY <2>2, <2>3
<1>12. Untouched'
  BY <1>3, <1>8 DEF Untouched
<1> QED
  BY <1>3, <1>9, <1>10, <1>11, <1>12 DEF ProvisionAtMostOnce

\* Settling a request ends the wait of its own caller and of nobody else; as
\* it was in no other place, no key is generated for it again.
LEMMA SettleKeeps ==
  ASSUME CardAssumption, TypeOK, RequestInv, NEW t \in Instances, Settles(t)
  PROVE  RequestInv'
<1> USE DEF RequestInv
<1>1. /\ ~ InHand(t)' /\ InHand(t)
      /\ \A i \in Instances \ {t} : cur'[i] = cur[i] /\ (InHand(i)' <=> InHand(i))
      /\ UNCHANGED <<asked, queue>>
  BY DEF Settles, TypeOK, InHand
<1>2. cur[t] \in Requests /\ cur[t].from \in Callers /\ cur[t].id \in 1..MaxRequests
  BY <1>1 DEF TypeOK, Requests
<1>3. \A k \in Callers : /\ awaiting'[k] = 0 \/ awaiting'[k] = awaiting[k]
                         /\ k = cur[t].from => awaiting'[k] = 0 \/ awaiting'[k] # cur[t].id
  BY <1>2 DEF Settles, Answer, TypeOK
<1>4. \A r \in 1..MaxRequests : r # cur[t].id => overwrote'[r] = overwrote[r]
  BY DEF Settles, TypeOK
<1>5. overwrote[cur[t].id] = 0
  BY <1>1 DEF Untouched
<1>6. \A i \in Instances : /\ \A n \in DOMAIN queue[i] : queue[i][n].id # cur[t].id
                           /\ InHand(i)' => cur[i].id # cur[t].id
  BY <1>1 DEF Distinct
<1>7. Numbered'
  <2>1. asked \in Nat
    BY DEF TypeOK
  <2> QED
    BY <1>1, <1>3, <2>1 DEF Numbered
<1>8. Distinct'
  BY <1>1 DEF Distinct
<1>9. AllKept'
  <2> SUFFICES ASSUME NEW c \in Callers, awaiting'[c] # 0
               PROVE  Kept(c)'
    BY DEF AllKept
  <2>1. Host[c] \in Instances /\ awaiting'[c] = awaiting[c] /\ Kept(c)
    BY <1>3 DEF CardAssumption, AllKept
  <2>2. c # cur[t].from \/ awaiting[c] # cur[t].id
    BY <1>3, <2>1
  <2> QED
    BY <1>1, <2>1, <2>2 DEF Kept
<1>10. Untouched'
  <2>1. \A r \in 1..MaxRequests : r > asked' => r # cur[t].id
    BY <1>1, <1>2 DEF Numbered, TypeOK
  <2>2. \A r \in 1..MaxRequests : r > asked' => overwrote'[r] = 0
    BY <1>1, <1>4, <2>1 DEF Untouched
  <2>3. \A i \in Instances : /\ \A n \in DOMAIN queue[i] : queue[i][n].id \in 1..MaxRequests
                             /\ InHand(i) => cur[i].id \in 1..MaxRequests
    BY PlacesTyped DEF Requests
  <2> QED
    BY <1>1, <1>4, <1>6, <2>2, <2>3 DEF Untouched
<1>11. ProvisionAtMostOnce'
  <2>1. overwrote'[cur[t].id] <= 1
    BY <1>2, <1>5 DEF Settles, TypeOK
  <2> QED
    BY <1>4, <2>1 DEF ProvisionAtMostOnce
<1> QED
  BY <1>7, <1>8, <1>9, <1>10, <1>11

\* Steps that move no request keep the account of them.
LEMMA RestKeeps ==
  ASSUME CardAssumption, TypeOK, RequestInv, Rests
  PROVE  RequestInv'
<1> USE DEF RequestInv
<1>1. Numbered'
  <2>1. asked \in Nat
    BY DEF TypeOK
  <2> QED
    BY <2>1 DEF Rests, Numbered
<1>2. Distinct' /\ Untouched' /\ ProvisionAtMostOnce'
  BY DEF Rests, Distinct, Untouched, ProvisionAtMostOnce
<1>3. AllKept'
  BY DEF Rests, AllKept, Kept, CardAssumption
<1> QED
  BY <1>1, <1>2, <1>3

\* The account of requests is kept from the first step on.
LEMMA RequestInvariance == Spec => []RequestInv
<1> USE CardAssumption
<1>1. Init => RequestInv
  BY DEF Init, RequestInv, Numbered, Distinct, AllKept, Untouched, ProvisionAtMostOnce,
         InHand
<1>2. TypeOK /\ RequestInv /\ [Next]_vars => RequestInv'
  BY RequestSteps, AskKeeps, RecvKeeps, SettleKeeps, RestKeeps
<1> QED
  BY <1>1, <1>2, CardTypeCorrect, PTL DEF Spec

\* No error path of card_loop, handle_req or handle loses a request: whatever
\* is awaited is in the channel or in the hands of its own thread, not both.
THEOREM NoRequestLost == Spec => []RequestConserved
<1>1. TypeOK /\ RequestInv => RequestConserved
  BY CardAssumption
     DEF RequestInv, AllKept, Kept, Distinct, RequestConserved, Queued, Held, CardAssumption
<1> QED
  BY <1>1, CardTypeCorrect, RequestInvariance, PTL

\* Provisioning is irreversible, and one request for it generates at most one
\* key, whatever fails under it and however often the card is reconnected.
THEOREM ProvisionOnce == Spec => []ProvisionAtMostOnce
<1>1. RequestInv => ProvisionAtMostOnce
  BY DEF RequestInv
<1> QED
  BY <1>1, RequestInvariance, PTL
-----------------------------------------------------------------------------
(* Connections: when a dead one is dropped *)

\* A request that ends on a dead connection is the first that does: the next
\* one fails at transaction(), which drops the connection.
LEMMA FinishSheds ==
  ASSUME TypeOK, ShedInv, NEW i \in Instances, lock = i, NEW out, Finish(i, out)
  PROVE  ShedInv'
<1>1. at[i] \in Inside
  BY DEF TypeOK
<1>2. wasted[i] = 0
  BY <1>1 DEF ShedInv, Shed, Inside
<1>3. Shed(i)'
  BY <1>2 DEF Finish, TypeOK, Shed
<1>4. \A j \in Instances \ {i} : Shed(j)'
  BY DEF Finish, TypeOK, ShedInv, Shed
<1> QED
  BY <1>3, <1>4 DEF ShedInv

\* No step keeps a dead connection past the next transaction().
LEMMA ShedStep ==
  ASSUME TypeOK, ShedInv, [Next]_vars
  PROVE  ShedInv'
<1> USE DEF callerVars, threadVars, cardVars, history
<1>1. ASSUME UNCHANGED <<wasted, conn, at>>
      PROVE  ShedInv'
  BY <1>1 DEF ShedInv, Shed
<1>2. ASSUME Remove \/ ResetCard
      PROVE  ShedInv'
  BY <1>2 DEF Remove, ResetCard, ShedInv, Shed, TypeOK
<1>3. ASSUME NEW i \in Instances, Recv(i) \/ Stop(i)
      PROVE  ShedInv'
  BY <1>3 DEF Recv, Stop, ShedInv, Shed, TypeOK
<1>4. ASSUME NEW i \in Instances, Open(i) \/ OpenFails(i)
      PROVE  ShedInv'
  BY <1>4 DEF Open, OpenFails, ShedInv, Shed, TypeOK
<1>5. ASSUME NEW i \in Instances, Begin(i) \/ BeginFails(i)
      PROVE  ShedInv'
  BY <1>5 DEF Begin, BeginFails, ShedInv, Shed, TypeOK
<1>6. ASSUME NEW i \in Instances, lock = i, \E out : Finish(i, out)
      PROVE  ShedInv'
  BY <1>6, FinishSheds
<1>7. ASSUME NEW i \in Instances, lock = i, UNCHANGED <<wasted, conn>>,
             \E p \in Inside : at' = [at EXCEPT ![i] = p]
      PROVE  ShedInv'
  <2>1. at[i] \in Inside
    BY <1>7 DEF TypeOK
  <2> QED
    BY <1>7, <2>1 DEF ShedInv, Shed, Inside, TypeOK
<1>8. ASSUME NEW i \in Instances,
             \/ HandlePubkey(i) \/ HandleUnlock(i) \/ HandleSign(i)
             \/ HandleProvision(i) \/ SetAttributes(i) \/ GenerateKey(i)
             \/ TransportFails(i)
      PROVE  /\ lock = i
             /\ \/ \E out : Finish(i, out)
                \/ /\ UNCHANGED <<wasted, conn>>
                   /\ \E p \in Inside : at' = [at EXCEPT ![i] = p]
  BY <1>8 DEF HandlePubkey, HandleUnlock, HandleSign, HandleProvision, SetAttributes,
              GenerateKey, TransportFails, Transport, Working, Inside
<1>9. ASSUME \/ \E k \in Callers, kind \in Kinds : Ask(k, kind)
             \/ \E k \in Callers : Abandon(k)
             \/ \E i \in Instances : DropHandles(i)
             \/ Insert \/ UNCHANGED vars
      PROVE  UNCHANGED <<wasted, conn, at>>
  BY <1>9 DEF Ask, Abandon, DropHandles, Insert, vars
<1> QED
  BY <1>1, <1>2, <1>3, <1>4, <1>5, <1>6, <1>7, <1>8, <1>9 DEF Next, ThreadStep

\* is_comm_failure may fail to recognise an error; even so a connection to a
\* card that is gone fails one request and is dropped with the next.
THEOREM DeadIsShed == Spec => []DeadConnectionShed
<1>1. Init => ShedInv
  BY DEF Init, ShedInv, Shed
<1>2. TypeOK /\ ShedInv /\ [Next]_vars => ShedInv'
  BY ShedStep
<1>3. ShedInv => DeadConnectionShed
  BY DEF ShedInv, Shed, DeadConnectionShed
<1> QED
  BY <1>1, <1>2, <1>3, CardTypeCorrect, PTL DEF Spec

-----------------------------------------------------------------------------
(* The PIN *)

Alone == \A i, j \in Instances : i = j

\* What a thread does to the card's PW1 while no other thread uses it.
LEMMA PinStep ==
  ASSUME Alone, TypeOK, PinInv, [Next]_vars
  PROVE  PinInv'
<1> USE DEF callerVars, threadVars, cardVars, history
<1>1. ASSUME UNCHANGED <<at, conn, entitled, pw1>>
      PROVE  PinInv'
  BY <1>1 DEF PinInv, Lasting
<1>2. ASSUME Remove \/ ResetCard
      PROVE  PinInv'
  BY <1>2 DEF Remove, ResetCard, PinInv, Lasting, TypeOK
<1>3. ASSUME NEW i \in Instances, Recv(i) \/ Stop(i)
      PROVE  PinInv'
  BY <1>3 DEF Recv, Stop, PinInv, Lasting, TypeOK
<1>4. ASSUME NEW i \in Instances, Open(i) \/ OpenFails(i)
      PROVE  PinInv'
  BY <1>4 DEF Alone, Open, OpenFails, PinInv, Lasting, TypeOK
<1>5. ASSUME NEW i \in Instances, Begin(i) \/ BeginFails(i)
      PROVE  PinInv'
  BY <1>5 DEF Alone, Begin, BeginFails, PinInv, Lasting, TypeOK
<1>6. ASSUME NEW i \in Instances, Working(i), UNCHANGED <<entitled, pw1>>,
             Finish(i, "ok") \/ Finish(i, "refused")
      PROVE  PinInv'
  BY <1>6 DEF Finish, IsCommFailure, Working, PinInv, Lasting, TypeOK
<1>7. ASSUME NEW i \in Instances, HandleUnlock(i)
      PROVE  PinInv'
  BY <1>7 DEF HandleUnlock, Alone, Finish, IsCommFailure, Working, PinInv, Lasting, TypeOK
<1>8. ASSUME NEW i \in Instances, HandleProvision(i) \/ SetAttributes(i)
      PROVE  PinInv'
  BY <1>8 DEF HandleProvision, SetAttributes, Finish, IsCommFailure, Working, PinInv,
              Lasting, TypeOK
<1>9. ASSUME NEW i \in Instances, TransportFails(i)
      PROVE  PinInv'
  BY <1>9 DEF TransportFails, Alone, Finish, PinInv, Lasting, TypeOK
<1>10. ASSUME NEW i \in Instances, HandlePubkey(i) \/ HandleSign(i) \/ GenerateKey(i)
       PROVE  /\ Working(i) /\ UNCHANGED <<entitled, pw1>>
              /\ Finish(i, "ok") \/ Finish(i, "refused")
  BY <1>10 DEF HandlePubkey, HandleSign, GenerateKey
<1>11. ASSUME \/ \E k \in Callers, kind \in Kinds : Ask(k, kind)
              \/ \E k \in Callers : Abandon(k)
              \/ \E i \in Instances : DropHandles(i)
              \/ Insert \/ UNCHANGED vars
       PROVE  UNCHANGED <<at, conn, entitled, pw1>>
  BY <1>11 DEF Ask, Abandon, DropHandles, Insert, vars
<1> QED
  BY <1>1, <1>2, <1>3, <1>4, <1>5, <1>6, <1>7, <1>8, <1>9, <1>10, <1>11
     DEF Next, ThreadStep

\* card.rs, "the PIN is verified once": while one instance has the card to
\* itself, an unlock lasts until a removal, a reset, a wrong PIN or a failure
\* of the connection, over any number of requests, refused ones included.
\* With two instances this is false (the run card_pin).
THEOREM PinLastsAlone == Alone => (Spec => []PinVerifiedOnce)
<1> SUFFICES ASSUME Alone
             PROVE  Spec => []PinVerifiedOnce
  OBVIOUS
<1>1. Init => PinInv
  BY DEF Init, PinInv, Lasting
<1>2. TypeOK /\ PinInv /\ [Next]_vars => PinInv'
  BY PinStep
<1>3. PinInv => PinVerifiedOnce
  BY DEF PinInv, Lasting, PinVerifiedOnce
<1> QED
  BY <1>1, <1>2, <1>3, CardTypeCorrect, PTL DEF Spec
=============================================================================
