-------------------------- MODULE KernelSendProof --------------------------
(***************************************************************************)
(* Theorems about KernelSend, for any messages, queue capacities and       *)
(* number of attempts.  SendInv is inductive.  The first lemmas count the  *)
(* copies of a message in a queue; then, one lemma per action or group of  *)
(* actions that disturb the same, a step preserves the invariant.          *)
(***************************************************************************)
EXTENDS KernelSend, FiniteSetTheorems, SequenceTheorems, TLAPS

-----------------------------------------------------------------------------
(* Counting the copies of a message in a queue *)

\* push_queue_head_pubmsg_exchange on one queue.
LEMMA PushHeadProperties ==
  ASSUME NEW S, NEW q \in Seq(S), NEW e \in S
  PROVE  /\ <<e>> \o q \in Seq(S) /\ <<e>> \o q # <<>>
         /\ Len(<<e>> \o q) = Len(q) + 1
         /\ DOMAIN (<<e>> \o q) = 1..(Len(q) + 1)
         /\ (<<e>> \o q)[1] = e
         /\ \A i \in 1..Len(q) : (<<e>> \o q)[i + 1] = q[i]
         /\ Head(<<e>> \o q) = e /\ Tail(<<e>> \o q) = q
<1>1. <<e>> \in Seq(S) /\ Len(<<e>>) = 1 /\ <<e>>[1] = e
  OBVIOUS
<1>2. Len(q) \in Nat
  BY LenProperties
<1>3. /\ <<e>> \o q \in Seq(S) /\ Len(<<e>> \o q) = Len(q) + 1
      /\ DOMAIN (<<e>> \o q) = 1..(Len(q) + 1)
      /\ (<<e>> \o q)[1] = e
      /\ \A i \in 1..Len(q) : (<<e>> \o q)[i + 1] = q[i]
  <2>1. /\ <<e>> \o q \in Seq(S) /\ Len(<<e>> \o q) = 1 + Len(q)
        /\ \A i \in 1..(1 + Len(q)) :
             (<<e>> \o q)[i] = IF i <= 1 THEN <<e>>[i] ELSE q[i - 1]
    BY <1>1, ConcatProperties
  <2>2. DOMAIN (<<e>> \o q) = 1..(Len(q) + 1)
    BY <1>2, <2>1, LenProperties
  <2> QED
    BY <1>1, <1>2, <2>1, <2>2
<1>4. <<e>> \o q # <<>> /\ Head(<<e>> \o q) = e
  BY <1>2, <1>3, EmptySeq
<1>5. Tail(<<e>> \o q) = q
  <2>1. /\ Tail(<<e>> \o q) \in Seq(S) /\ Len(Tail(<<e>> \o q)) = Len(q)
        /\ \A i \in 1..Len(q) : Tail(<<e>> \o q)[i] = (<<e>> \o q)[i + 1]
    BY <1>2, <1>3, <1>4, HeadTailProperties
  <2>2. \A i \in 1..Len(q) : Tail(<<e>> \o q)[i] = q[i]
    BY <1>2, <1>3, <2>1
  <2> QED
    BY <2>1, <2>2, SeqEqual
<1> QED
  BY <1>3, <1>4, <1>5

\* A message is counted iff it is in the queue.
LEMMA AtProperties ==
  ASSUME NEW S, NEW q \in Seq(S), NEW m
  PROVE  /\ IsFiniteSet({i \in DOMAIN q : q[i].msg = m})
         /\ At(q, m) \in Nat
         /\ At(q, m) = 0 <=> m \notin MsgsIn(q)
<1> DEFINE I == {i \in DOMAIN q : q[i].msg = m}
<1>1. DOMAIN q = 1..Len(q) /\ Len(q) \in Nat
  BY LenProperties
<1>2. IsFiniteSet(1..Len(q)) /\ I \in SUBSET (1..Len(q))
  BY <1>1, FS_Interval
<1>3. IsFiniteSet(I)
  BY <1>2, FS_Subset
<1>4. Cardinality(I) \in Nat
  BY <1>3, FS_CardinalityType
<1>5. Cardinality(I) = 0 <=> I = {}
  BY <1>3, FS_EmptySet
<1>6. I = {} <=> m \notin MsgsIn(q)
  BY DEF MsgsIn
<1> QED
  BY <1>3, <1>4, <1>5, <1>6 DEF At

\* An empty queue has none.
LEMMA AtEmpty == \A m : At(<<>>, m) = 0 /\ MsgsIn(<<>>) = {}
<1> TAKE m
<1>1. {i \in DOMAIN <<>> : <<>>[i].msg = m} = {} /\ MsgsIn(<<>>) = {}
  BY DEF MsgsIn
<1> QED
  BY <1>1, FS_EmptySet DEF At

\* Append adds one copy of the message appended.
LEMMA AtAppend ==
  ASSUME NEW S, NEW q \in Seq(S), NEW e \in S, NEW m
  PROVE  At(Append(q, e), m) = At(q, m) + (IF e.msg = m THEN 1 ELSE 0)
<1> DEFINE I == {i \in DOMAIN q : q[i].msg = m}
           J == {i \in DOMAIN Append(q, e) : Append(q, e)[i].msg = m}
           n == Len(q) + 1
<1>1. Len(q) \in Nat /\ DOMAIN q = 1..Len(q)
  BY LenProperties
<1>2. /\ Append(q, e) \in Seq(S) /\ Len(Append(q, e)) = n
      /\ \A i \in 1..Len(q) : Append(q, e)[i] = q[i]
      /\ Append(q, e)[n] = e
  BY AppendProperties
<1>3. DOMAIN Append(q, e) = 1..n
  BY <1>2, LenProperties
<1>4. IsFiniteSet(I) /\ Cardinality(I) \in Nat
  BY AtProperties DEF At
<1>5. n \notin I
  BY <1>1
<1>6. At(q, m) = Cardinality(I) /\ At(Append(q, e), m) = Cardinality(J)
  BY DEF At
<1>7. CASE e.msg = m
  <2>1. J = I \cup {n}
    BY <1>1, <1>2, <1>3, <1>7
  <2>2. Cardinality(J) = Cardinality(I) + 1
    BY <1>4, <1>5, <2>1, FS_AddElement
  <2> QED
    BY <1>6, <1>7, <2>2
<1>8. CASE e.msg # m
  <2>1. J = I
    BY <1>1, <1>2, <1>3, <1>8
  <2> HIDE DEF I, J
  <2> QED
    BY <1>4, <1>6, <1>8, <2>1
<1> QED
  BY <1>7, <1>8

\* Tail takes one copy of the message at the head away.
LEMMA AtTail ==
  ASSUME NEW S, NEW q \in Seq(S), q # <<>>, NEW m
  PROVE  At(q, m) = At(Tail(q), m) + (IF Head(q).msg = m THEN 1 ELSE 0)
<1> DEFINE I == {i \in DOMAIN q : q[i].msg = m}
           J == {i \in DOMAIN Tail(q) : Tail(q)[i].msg = m}
           K == I \ {1}
           f == [i \in J |-> i + 1]
<1>1. /\ Len(q) \in Nat \ {0} /\ DOMAIN q = 1..Len(q)
      /\ Head(q) = q[1]
  BY LenProperties, EmptySeq
<1>2. /\ Tail(q) \in Seq(S) /\ Len(Tail(q)) = Len(q) - 1
      /\ \A i \in 1..Len(Tail(q)) : Tail(q)[i] = q[i + 1]
  BY HeadTailProperties
<1>3. DOMAIN Tail(q) = 1..(Len(q) - 1)
  BY <1>2, LenProperties
<1>4. IsFiniteSet(I) /\ Cardinality(I) \in Nat
  BY AtProperties DEF At
<1>5. IsFiniteSet(J) /\ Cardinality(J) \in Nat
  BY <1>2, AtProperties DEF At
<1>6. Cardinality(K) = Cardinality(J)
  <2>1. f \in [J -> K]
    BY <1>1, <1>2, <1>3
  <2>2. \A i, j \in J : f[i] = f[j] => i = j
    BY <1>1, <1>3
  <2>3. \A k \in K : \E i \in J : f[i] = k
    <3> TAKE k \in K
    <3>1. k - 1 \in J /\ f[k - 1] = k
      BY <1>1, <1>2, <1>3
    <3> QED
      BY <3>1
  <2>4. f \in Bijection(J, K)
    BY <2>1, <2>2, <2>3 DEF Bijection, Injection, Surjection, IsInjective
  <2>5. ExistsBijection(J, K)
    BY <2>4 DEF ExistsBijection
  <2> HIDE DEF J, K
  <2> QED
    BY <1>5, <2>5, FS_Bijection
<1>7. 1 \in I <=> Head(q).msg = m
  BY <1>1
<1>8. Cardinality(K) = IF 1 \in I THEN Cardinality(I) - 1 ELSE Cardinality(I)
  BY <1>4, FS_RemoveElement
<1>9. At(q, m) = Cardinality(I) /\ At(Tail(q), m) = Cardinality(J)
  BY DEF At
<1> HIDE DEF I, J, K
<1> QED
  BY <1>4, <1>5, <1>6, <1>7, <1>8, <1>9

\* Pushing at the head adds one copy.
LEMMA AtPushHead ==
  ASSUME NEW S, NEW q \in Seq(S), NEW e \in S, NEW m
  PROVE  At(<<e>> \o q, m) = At(q, m) + (IF e.msg = m THEN 1 ELSE 0)
<1>1. /\ <<e>> \o q \in Seq(S) /\ <<e>> \o q # <<>>
      /\ Head(<<e>> \o q) = e /\ Tail(<<e>> \o q) = q
  BY PushHeadProperties
<1> QED
  BY <1>1, AtTail

\* The messages of a queue after each of its operations.
LEMMA MsgsInProperties ==
  ASSUME NEW S, NEW q \in Seq(S)
  PROVE  /\ \A i \in 1..Len(q) : q[i].msg \in MsgsIn(q)
         /\ q # <<>> => /\ Head(q).msg \in MsgsIn(q)
                       /\ MsgsIn(Tail(q)) \subseteq MsgsIn(q)
         /\ \A e \in S : MsgsIn(Append(q, e)) = MsgsIn(q) \cup {e.msg}
         /\ \A e \in S : MsgsIn(<<e>> \o q) = MsgsIn(q) \cup {e.msg}
<1>1. DOMAIN q = 1..Len(q) /\ Len(q) \in Nat
  BY LenProperties
<1>2. \A i \in 1..Len(q) : q[i].msg \in MsgsIn(q)
  BY <1>1 DEF MsgsIn
<1>3. ASSUME q # <<>>
      PROVE  Head(q).msg \in MsgsIn(q) /\ MsgsIn(Tail(q)) \subseteq MsgsIn(q)
  <2>1. /\ Tail(q) \in Seq(S) /\ Len(Tail(q)) = Len(q) - 1
        /\ \A i \in 1..Len(Tail(q)) : Tail(q)[i] = q[i + 1]
        /\ Len(q) >= 1 /\ Head(q) = q[1]
    BY <1>1, <1>3, HeadTailProperties, EmptySeq
  <2>2. DOMAIN Tail(q) = 1..(Len(q) - 1)
    BY <2>1, LenProperties
  <2>3. \A i \in DOMAIN Tail(q) : Tail(q)[i].msg \in MsgsIn(q)
    BY <1>1, <1>2, <2>1, <2>2
  <2> QED
    BY <1>1, <1>2, <2>1, <2>3 DEF MsgsIn
<1>4. ASSUME NEW e \in S
      PROVE  MsgsIn(Append(q, e)) = MsgsIn(q) \cup {e.msg}
  <2>1. /\ Len(Append(q, e)) = Len(q) + 1 /\ Append(q, e)[Len(q) + 1] = e
        /\ \A i \in 1..Len(q) : Append(q, e)[i] = q[i]
        /\ DOMAIN Append(q, e) = 1..(Len(q) + 1)
    BY AppendProperties, LenProperties
  <2> QED
    BY <1>1, <2>1 DEF MsgsIn
<1>5. ASSUME NEW e \in S
      PROVE  MsgsIn(<<e>> \o q) = MsgsIn(q) \cup {e.msg}
  <2>1. /\ DOMAIN (<<e>> \o q) = 1..(Len(q) + 1) /\ (<<e>> \o q)[1] = e
        /\ \A i \in 1..Len(q) : (<<e>> \o q)[i + 1] = q[i]
    BY PushHeadProperties
  <2>2. MsgsIn(<<e>> \o q) \subseteq MsgsIn(q) \cup {e.msg}
    <3>1. ASSUME NEW i \in DOMAIN (<<e>> \o q), i # 1
          PROVE  (<<e>> \o q)[i] = q[i - 1] /\ i - 1 \in DOMAIN q
      <4>1. i - 1 \in 1..Len(q) /\ (i - 1) + 1 = i
        BY <1>1, <2>1, <3>1
      <4> QED
        BY <1>1, <2>1, <4>1
    <3> QED
      BY <2>1, <3>1 DEF MsgsIn
  <2>3. e.msg \in MsgsIn(<<e>> \o q)
    BY <1>1, <2>1 DEF MsgsIn
  <2>4. ASSUME NEW i \in DOMAIN q PROVE q[i].msg \in MsgsIn(<<e>> \o q)
    <3>1. i + 1 \in 1..(Len(q) + 1) /\ (<<e>> \o q)[i + 1] = q[i]
      BY <1>1, <2>1
    <3> QED
      BY <2>1, <3>1 DEF MsgsIn
  <2>5. MsgsIn(q) \subseteq MsgsIn(<<e>> \o q)
    BY <2>4 DEF MsgsIn
  <2> QED
    BY <2>2, <2>3, <2>5
<1> QED
  BY <1>2, <1>3, <1>4, <1>5

-----------------------------------------------------------------------------
(* What the type invariant says of the queues *)

LEMMA QueuesTyped ==
  ASSUME SendTypeOK
  PROVE  /\ \A p \in Protos :
              /\ pubq[p] \in Seq(Pubs) /\ Len(pubq[p]) \in Nat
              /\ DOMAIN pubq[p] = 1..Len(pubq[p])
              /\ \A i \in 1..Len(pubq[p]) : pubq[p][i] \in Pubs
         /\ evq \in Seq(Receipts) /\ Len(evq) \in Nat
         /\ Len(accepted) \in Nat /\ DOMAIN accepted = 1..Len(accepted)
         /\ \A i \in 1..Len(accepted) : accepted[i] \in Msgs
<1>1. ASSUME NEW p \in Protos
      PROVE  /\ pubq[p] \in Seq(Pubs) /\ Len(pubq[p]) \in Nat
             /\ DOMAIN pubq[p] = 1..Len(pubq[p])
             /\ \A i \in 1..Len(pubq[p]) : pubq[p][i] \in Pubs
  <2>1. pubq[p] \in Seq(Pubs)
    BY DEF SendTypeOK
  <2> QED
    BY <2>1, LenProperties, ElementOfSeq
<1>2. evq \in Seq(Receipts) /\ accepted \in Seq(Msgs)
  BY DEF SendTypeOK
<1>3. /\ Len(evq) \in Nat /\ Len(accepted) \in Nat
      /\ DOMAIN accepted = 1..Len(accepted)
      /\ \A i \in 1..Len(accepted) : accepted[i] \in Msgs
  BY <1>2, LenProperties, ElementOfSeq
<1> QED
  BY <1>1, <1>2, <1>3

LEMMA Counts ==
  ASSUME SendTypeOK, NEW m \in Msgs
  PROVE  /\ At(pubq["v2"], m) \in Nat /\ At(pubq["v3"], m) \in Nat
         /\ At(evq, m) \in Nat /\ Len(receipts[m]) \in Nat
         /\ At(pubq["v2"], m) = 0 <=> m \notin MsgsIn(pubq["v2"])
         /\ At(pubq["v3"], m) = 0 <=> m \notin MsgsIn(pubq["v3"])
         /\ At(evq, m) = 0 <=> m \notin MsgsIn(evq)
<1>1. /\ pubq["v2"] \in Seq(Pubs) /\ pubq["v3"] \in Seq(Pubs)
      /\ evq \in Seq(Receipts)
  BY QueuesTyped DEF Protos
<1>2. receipts[m] \in Seq(BOOLEAN)
  BY DEF SendTypeOK
<1> QED
  BY <1>1, <1>2, AtProperties, LenProperties

\* Nothing is in hand, queued or accepted before the kernel is started.
LEMMA SendInit == Init => SendInv
<1> SUFFICES ASSUME Init PROVE SendInv
  OBVIOUS
<1>1. SendTypeOK
  <2>1. \A S : <<>> \in Seq(S) /\ Len(<<>>) = 0
    OBVIOUS
  <2>2. /\ pubq \in [Protos -> Seq(Pubs)] /\ evq \in Seq(Receipts)
        /\ accepted \in Seq(Msgs) /\ receipts \in [Msgs -> Seq(BOOLEAN)]
        /\ \A p \in Protos : Len(pubq[p]) <= PubMax
        /\ Len(evq) <= EvMax
    BY <2>1, SendAssumption DEF Init
  <2>3. running \in BOOLEAN /\ link \in {"up", "broken"}
    BY DEF Init
  <2>4. /\ pc = "out" /\ hand = Idle
        /\ call \in [Msgs -> {"new", "checked", "queued", "refused"}]
        /\ attempts \in [Msgs \cup {Bye} -> Nat]
        /\ dropped \in [Msgs -> {"no", "cleared", "no_room", "unheard"}]
        /\ starts \in 0..StartMax
    BY SendAssumption DEF Init
  <2> QED
    BY <2>2, <2>3, <2>4 DEF SendTypeOK
<1>2. InHand /\ OwnQueue /\ AcceptedOnce /\ WaitInOrder /\ InOrder
  BY DEF Init, InHand, OwnQueue, AcceptedOnce, WaitInOrder, InOrder,
         Publishing, Protos
<1>3. AttemptsAddUp /\ HandAddsUp
  BY SendAssumption DEF Init, AttemptsAddUp, HandAddsUp, Idle, Msgs
<1>4. OnePlace
  <2> SUFFICES ASSUME NEW m \in Msgs PROVE Copies(m) = 0
    BY DEF OnePlace, Init
  <2>1. At(pubq["v2"], m) = 0 /\ At(pubq["v3"], m) = 0 /\ At(evq, m) = 0
    BY AtEmpty DEF Init, Protos
  <2>2. hand.msg # m
    BY SendAssumption DEF Init, Idle, Msgs
  <2>3. Len(receipts[m]) = 0 /\ dropped[m] = "no"
    BY DEF Init
  <2> QED
    BY <2>1, <2>2, <2>3 DEF Copies
<1> QED
  BY <1>1, <1>2, <1>3, <1>4 DEF SendInv

-----------------------------------------------------------------------------
(* What a step keeps that leaves the messages where they are *)

LEMMA TrafficUntouched ==
  ASSUME SendInv, UNCHANGED <<pubq, hand, accepted, attempts>>
  PROVE  /\ OwnQueue' /\ AttemptsAddUp' /\ HandAddsUp' /\ WaitInOrder'
         /\ InOrder'
  BY DEF SendInv, OwnQueue, AttemptsAddUp, HandAddsUp, WaitInOrder, InOrder,
         Before, Waiting

LEMMA PlacesUntouched ==
  ASSUME SendInv, UNCHANGED <<pubq, hand, receipts, dropped, call>>,
         \A m \in Msgs : At(evq, m)' = At(evq, m)
  PROVE  OnePlace'
  BY DEF SendInv, OnePlace, Copies

\* An event that is no receipt brings no copy of a message.
LEMMA BroadcastCounts ==
  ASSUME SendTypeOK, NEW e \in Receipts, Broadcast(e)
  PROVE  /\ evq' \in Seq(Receipts) /\ Len(evq') <= EvMax
         /\ \A m : At(evq', m) =
              At(evq, m) + (IF e.msg = m /\ Len(evq) < EvMax THEN 1 ELSE 0)
<1>1. evq \in Seq(Receipts) /\ Len(evq) \in Nat /\ Len(evq) <= EvMax
  BY QueuesTyped DEF SendTypeOK
<1>2. \A m : At(evq, m) \in Nat
  BY <1>1, AtProperties
<1>3. CASE Len(evq) < EvMax
  <2>1. evq' = Append(evq, e)
    BY <1>3 DEF Broadcast
  <2>2. evq' \in Seq(Receipts) /\ Len(evq') = Len(evq) + 1
    BY <1>1, <2>1, AppendProperties
  <2>3. Len(evq') <= EvMax
    BY <1>1, <1>3, <2>2, SendAssumption
  <2> QED
    BY <1>1, <1>3, <2>1, <2>2, <2>3, AtAppend
<1>4. CASE ~(Len(evq) < EvMax)
  BY <1>1, <1>2, <1>4 DEF Broadcast
<1> QED
  BY <1>3, <1>4

LEMMA BroadcastOther ==
  ASSUME SendTypeOK, Broadcast(Other)
  PROVE  /\ evq' \in Seq(Receipts) /\ Len(evq') <= EvMax
         /\ \A m \in Msgs : At(evq, m)' = At(evq, m)
<1>1. Other \in Receipts /\ \A m \in Msgs : Other.msg # m
  BY SendAssumption DEF Other, Receipts, Msgs
<1>2. \A m \in Msgs : At(evq, m) \in Nat
  BY Counts
<1> QED
  BY <1>1, <1>2, BroadcastCounts

-----------------------------------------------------------------------------
(* Steps that leave the messages where they are *)

LEMMA QuietStep ==
  ASSUME SendInv,
         \/ das_yield_begin \/ stop_yield \/ das_yield_broken
         \/ kernel_yield_link \/ kernel_start
  PROVE  SendInv'
<1>1. UNCHANGED <<pubq, hand, call, history>>
  BY DEF das_yield_begin, stop_yield, das_yield_broken, kernel_yield_link,
         kernel_start, queues
<1>2. evq' = evq \/ Broadcast(Other)
  BY DEF das_yield_begin, stop_yield, das_yield_broken, kernel_yield_link,
         kernel_start, queues
<1>3. /\ evq' \in Seq(Receipts) /\ Len(evq') <= EvMax
      /\ \A m \in Msgs : At(evq, m)' = At(evq, m)
  BY <1>2, BroadcastOther DEF SendInv, SendTypeOK
<1>4. /\ pc \notin {Publishing(p) : p \in Protos}
      /\ pc' \in {"v2", "out", "user", "ended"}
  BY DEF das_yield_begin, stop_yield, das_yield_broken, kernel_yield_link,
         kernel_start, Publishing, Protos, Left, SendInv, SendTypeOK
<1>5. SendTypeOK'
  <2>1. running' \in BOOLEAN
    BY Zenon DEF das_yield_begin, stop_yield, das_yield_broken,
         kernel_yield_link, kernel_start, SendInv, SendTypeOK
  <2>2. link' \in {"up", "broken"} /\ starts' \in 0..StartMax
    BY SendAssumption DEF das_yield_begin, stop_yield, das_yield_broken,
         kernel_yield_link, kernel_start, SendInv, SendTypeOK
  <2> QED
    BY <1>1, <1>3, <1>4, <2>1, <2>2 DEF SendInv, SendTypeOK, history, Protos
<1>6. InHand'
  BY <1>1, <1>4 DEF SendInv, InHand, Publishing, Protos
<1>7. AcceptedOnce'
  BY <1>1 DEF SendInv, AcceptedOnce, history
<1>8. OnePlace'
  BY <1>1, <1>3, PlacesUntouched DEF history
<1> QED
  BY <1>1, <1>5, <1>6, <1>7, <1>8, TrafficUntouched DEF SendInv, history

\* A caller has seen the kernel running, and has not pushed yet.
LEMMA CheckStep ==
  ASSUME SendInv, NEW m \in Msgs, kernel_send_check(m)
  PROVE  SendInv'
<1> USE DEF kernel_send_check, queues, history
<1>1. UNCHANGED <<running, link, pc, pubq, hand, evq, accepted, attempts,
                  receipts, dropped, starts>>
  OBVIOUS
<1>2. /\ call' \in [Msgs -> {"new", "checked", "queued", "refused"}]
      /\ \A n \in Msgs : call'[n] = "queued" <=> call[n] = "queued"
  BY DEF SendInv, SendTypeOK
<1>3. SendTypeOK'
  BY <1>1, <1>2 DEF SendInv, SendTypeOK
<1>4. InHand' /\ AcceptedOnce'
  BY <1>1, <1>2, QueuesTyped DEF SendInv, InHand, AcceptedOnce
<1>5. OnePlace'
  BY <1>1, <1>2 DEF SendInv, OnePlace, Copies
<1> QED
  BY <1>1, <1>3, <1>4, <1>5, TrafficUntouched DEF SendInv

-----------------------------------------------------------------------------
(* One publish queue after each of its operations *)

Queued(m) == At(pubq["v2"], m) + At(pubq["v3"], m)

LEMMA QueueAppend ==
  ASSUME SendTypeOK, OwnQueue, NEW p \in Protos, NEW e \in Pubs,
         Proto(e.msg) = p, Room(pubq[p]),
         pubq' = [pubq EXCEPT ![p] = Append(@, e)]
  PROVE  /\ pubq' \in [Protos -> Seq(Pubs)]
         /\ \A q \in Protos : Len(pubq'[q]) <= PubMax
         /\ \A q \in Protos \ {p} : pubq'[q] = pubq[q]
         /\ DOMAIN pubq'[p] = 1..(Len(pubq[p]) + 1)
         /\ \A i \in 1..Len(pubq[p]) : pubq'[p][i] = pubq[p][i]
         /\ pubq'[p][Len(pubq[p]) + 1] = e
         /\ MsgsIn(pubq'[p]) = MsgsIn(pubq[p]) \cup {e.msg}
         /\ OwnQueue'
         /\ \A m \in Msgs : Queued(m)' = Queued(m) + (IF e.msg = m THEN 1 ELSE 0)
<1>1. /\ pubq[p] \in Seq(Pubs) /\ Len(pubq[p]) \in Nat
      /\ DOMAIN pubq[p] = 1..Len(pubq[p])
  BY QueuesTyped
<1>2. /\ pubq'[p] = Append(pubq[p], e)
      /\ \A q \in Protos \ {p} : pubq'[q] = pubq[q]
      /\ DOMAIN pubq' = Protos
  BY DEF SendTypeOK
<1>3. /\ pubq'[p] \in Seq(Pubs) /\ Len(pubq'[p]) = Len(pubq[p]) + 1
      /\ DOMAIN pubq'[p] = 1..(Len(pubq[p]) + 1)
      /\ \A i \in 1..Len(pubq[p]) : pubq'[p][i] = pubq[p][i]
      /\ pubq'[p][Len(pubq[p]) + 1] = e
  BY <1>1, <1>2, AppendProperties, LenProperties
<1>4. pubq' \in [Protos -> Seq(Pubs)]
  BY <1>3 DEF SendTypeOK
<1>5. \A q \in Protos : Len(pubq'[q]) <= PubMax
  BY <1>1, <1>2, <1>3, SendAssumption DEF SendTypeOK, Room
<1>6. MsgsIn(pubq'[p]) = MsgsIn(pubq[p]) \cup {e.msg}
  BY <1>1, <1>2, MsgsInProperties
<1>7. OwnQueue'
  BY <1>1, <1>2, <1>3 DEF OwnQueue, Proto
<1>8. ASSUME NEW m \in Msgs
      PROVE  Queued(m)' = Queued(m) + (IF e.msg = m THEN 1 ELSE 0)
  <2>1. At(pubq'[p], m) = At(pubq[p], m) + (IF e.msg = m THEN 1 ELSE 0)
    BY <1>1, <1>2, AtAppend
  <2>2. \A q \in Protos \ {p} : At(pubq'[q], m) = At(pubq[q], m)
    BY <1>2
  <2>3. At(pubq["v2"], m) \in Nat /\ At(pubq["v3"], m) \in Nat
    BY Counts
  <2> QED
    BY <2>1, <2>2, <2>3 DEF Queued, Protos
<1> QED
  BY <1>2, <1>3, <1>4, <1>5, <1>6, <1>7, <1>8

LEMMA QueuePop ==
  ASSUME SendTypeOK, OwnQueue, NEW p \in Protos, pubq[p] # <<>>,
         pubq' = [pubq EXCEPT ![p] = Tail(@)]
  PROVE  /\ Head(pubq[p]) = pubq[p][1] /\ Head(pubq[p]) \in Pubs
         /\ Len(pubq[p]) \in Nat \ {0}
         /\ pubq' \in [Protos -> Seq(Pubs)]
         /\ \A q \in Protos : Len(pubq'[q]) <= PubMax
         /\ \A q \in Protos \ {p} : pubq'[q] = pubq[q]
         /\ DOMAIN pubq'[p] = 1..(Len(pubq[p]) - 1)
         /\ \A i \in 1..(Len(pubq[p]) - 1) : pubq'[p][i] = pubq[p][i + 1]
         /\ MsgsIn(pubq'[p]) \subseteq MsgsIn(pubq[p])
         /\ Head(pubq[p]).msg \in MsgsIn(pubq[p])
         /\ OwnQueue' /\ Proto(Head(pubq[p]).msg) = p
         /\ \A m \in Msgs : Queued(m) =
              Queued(m)' + (IF Head(pubq[p]).msg = m THEN 1 ELSE 0)
         /\ \A m \in Msgs : Queued(m)' \in Nat
<1>1. /\ pubq[p] \in Seq(Pubs) /\ Len(pubq[p]) \in Nat \ {0}
      /\ DOMAIN pubq[p] = 1..Len(pubq[p])
  BY QueuesTyped, EmptySeq
<1>2. /\ pubq'[p] = Tail(pubq[p])
      /\ \A q \in Protos \ {p} : pubq'[q] = pubq[q]
      /\ DOMAIN pubq' = Protos
  BY DEF SendTypeOK
<1>3. /\ pubq'[p] \in Seq(Pubs) /\ Len(pubq'[p]) = Len(pubq[p]) - 1
      /\ DOMAIN pubq'[p] = 1..(Len(pubq[p]) - 1)
      /\ \A i \in 1..(Len(pubq[p]) - 1) : pubq'[p][i] = pubq[p][i + 1]
      /\ Head(pubq[p]) = pubq[p][1] /\ Head(pubq[p]) \in Pubs
  BY <1>1, <1>2, HeadTailProperties, LenProperties
<1>4. pubq' \in [Protos -> Seq(Pubs)]
  BY <1>3 DEF SendTypeOK
<1>5. \A q \in Protos : Len(pubq'[q]) <= PubMax
  BY <1>1, <1>2, <1>3, SendAssumption DEF SendTypeOK
<1>6. /\ MsgsIn(pubq'[p]) \subseteq MsgsIn(pubq[p])
      /\ Head(pubq[p]).msg \in MsgsIn(pubq[p])
  BY <1>1, <1>2, MsgsInProperties
<1>7. OwnQueue' /\ Proto(Head(pubq[p]).msg) = p
  BY <1>1, <1>2, <1>3 DEF OwnQueue, Proto
<1>8. ASSUME NEW m \in Msgs
      PROVE  /\ Queued(m) = Queued(m)' + (IF Head(pubq[p]).msg = m THEN 1 ELSE 0)
             /\ Queued(m)' \in Nat
  <2>1. At(pubq[p], m) = At(pubq'[p], m) + (IF Head(pubq[p]).msg = m THEN 1 ELSE 0)
    BY <1>1, <1>2, AtTail
  <2>2. \A q \in Protos \ {p} : At(pubq'[q], m) = At(pubq[q], m)
    BY <1>2
  <2>3. At(pubq'["v2"], m) \in Nat /\ At(pubq'["v3"], m) \in Nat
    BY <1>4, AtProperties DEF Protos
  <2> QED
    BY <2>1, <2>2, <2>3 DEF Queued, Protos
<1> QED
  BY <1>1, <1>2, <1>3, <1>4, <1>5, <1>6, <1>7, <1>8

LEMMA QueuePushHead ==
  ASSUME SendTypeOK, OwnQueue, NEW p \in Protos, NEW e \in Pubs,
         e = Again, Proto(e.msg) = p, Room(pubq[p]), BackAtHead(p)
  PROVE  /\ pubq' \in [Protos -> Seq(Pubs)]
         /\ \A q \in Protos : Len(pubq'[q]) <= PubMax
         /\ \A q \in Protos \ {p} : pubq'[q] = pubq[q]
         /\ DOMAIN pubq'[p] = 1..(Len(pubq[p]) + 1)
         /\ pubq'[p][1] = e
         /\ \A i \in 1..Len(pubq[p]) : pubq'[p][i + 1] = pubq[p][i]
         /\ MsgsIn(pubq'[p]) = MsgsIn(pubq[p]) \cup {e.msg}
         /\ OwnQueue'
         /\ \A m \in Msgs : Queued(m)' = Queued(m) + (IF e.msg = m THEN 1 ELSE 0)
<1>1. /\ pubq[p] \in Seq(Pubs) /\ Len(pubq[p]) \in Nat
      /\ DOMAIN pubq[p] = 1..Len(pubq[p])
  BY QueuesTyped
<1>2. /\ pubq'[p] = (<<e>> \o pubq[p])
      /\ \A q \in Protos \ {p} : pubq'[q] = pubq[q]
      /\ DOMAIN pubq' = Protos
  BY DEF SendTypeOK, BackAtHead
<1>3. /\ pubq'[p] \in Seq(Pubs) /\ Len(pubq'[p]) = Len(pubq[p]) + 1
      /\ DOMAIN pubq'[p] = 1..(Len(pubq[p]) + 1)
      /\ pubq'[p][1] = e
      /\ \A i \in 1..Len(pubq[p]) : pubq'[p][i + 1] = pubq[p][i]
  BY <1>1, <1>2, PushHeadProperties
<1>4. pubq' \in [Protos -> Seq(Pubs)]
  BY <1>3 DEF SendTypeOK, BackAtHead
<1>5. \A q \in Protos : Len(pubq'[q]) <= PubMax
  <2>1. Len(pubq'[p]) <= PubMax
    BY <1>1, <1>3, SendAssumption DEF Room
  <2>2. \A q \in Protos : Len(pubq[q]) <= PubMax
    BY DEF SendTypeOK
  <2> QED
    BY <1>2, <2>1, <2>2
<1>6. MsgsIn(pubq'[p]) = MsgsIn(pubq[p]) \cup {e.msg}
  BY <1>1, <1>2, MsgsInProperties
<1>7. OwnQueue'
  <2>1. ASSUME NEW i \in DOMAIN pubq'[p] PROVE Proto(pubq'[p][i].msg) = p
    <3>1. CASE i = 1
      BY <1>3, <3>1
    <3>2. CASE i # 1
      <4>1. i - 1 \in DOMAIN pubq[p] /\ (i - 1) + 1 = i
        BY <1>1, <1>3, <3>2
      <4>2. pubq'[p][i] = pubq[p][i - 1]
        BY <1>1, <1>3, <4>1
      <4> QED
        BY <4>1, <4>2 DEF OwnQueue
    <3> QED
      BY <3>1, <3>2
  <2> QED
    BY <1>2, <2>1 DEF OwnQueue, Proto
<1>8. ASSUME NEW m \in Msgs
      PROVE  Queued(m)' = Queued(m) + (IF e.msg = m THEN 1 ELSE 0)
  <2>1. At(pubq'[p], m) = At(pubq[p], m) + (IF e.msg = m THEN 1 ELSE 0)
    BY <1>1, <1>2, AtPushHead
  <2>2. \A q \in Protos \ {p} : At(pubq'[q], m) = At(pubq[q], m)
    BY <1>2
  <2>3. At(pubq["v2"], m) \in Nat /\ At(pubq["v3"], m) \in Nat
    BY Counts
  <2> QED
    BY <2>1, <2>2, <2>3 DEF Queued, Protos
<1> QED
  BY <1>2, <1>3, <1>4, <1>5, <1>6, <1>7, <1>8

\* A message with a copy in one place has none in another.
LEMMA Places ==
  ASSUME SendTypeOK, OnePlace, NEW m \in Msgs
  PROVE  /\ Queued(m) \in Nat /\ At(evq, m) \in Nat /\ Len(receipts[m]) \in Nat
         /\ Queued(m) = 0 <=> \A p \in Protos : m \notin MsgsIn(pubq[p])
         /\ Copies(m) = Queued(m) + At(evq, m) + Len(receipts[m])
              + (IF hand.msg = m THEN 1 ELSE 0)
              + (IF dropped[m] = "no" THEN 0 ELSE 1)
         /\ call[m] # "queued" =>
              /\ hand.msg # m /\ dropped[m] = "no"
              /\ \A p \in Protos : m \notin MsgsIn(pubq[p])
         /\ hand.msg = m =>
              /\ call[m] = "queued" /\ dropped[m] = "no"
              /\ \A p \in Protos : m \notin MsgsIn(pubq[p])
<1>1. /\ At(pubq["v2"], m) \in Nat /\ At(pubq["v3"], m) \in Nat
      /\ At(evq, m) \in Nat /\ Len(receipts[m]) \in Nat
      /\ At(pubq["v2"], m) = 0 <=> m \notin MsgsIn(pubq["v2"])
      /\ At(pubq["v3"], m) = 0 <=> m \notin MsgsIn(pubq["v3"])
  BY Counts
<1>2. /\ Queued(m) \in Nat
      /\ Queued(m) = 0 <=> \A p \in Protos : m \notin MsgsIn(pubq[p])
  BY <1>1 DEF Queued, Protos
<1>3. Copies(m) = Queued(m) + At(evq, m) + Len(receipts[m])
        + (IF hand.msg = m THEN 1 ELSE 0)
        + (IF dropped[m] = "no" THEN 0 ELSE 1)
  BY <1>1 DEF Copies, Queued
<1>4. Copies(m) = IF call[m] = "queued" THEN 1 ELSE 0
  BY DEF OnePlace
<1> QED
  BY <1>1, <1>2, <1>3, <1>4

\* The same sum in the state after a step.
LEMMA CopiesAfter ==
  ASSUME SendTypeOK', NEW m \in Msgs
  PROVE  /\ Queued(m)' \in Nat /\ At(evq', m) \in Nat /\ Len(receipts'[m]) \in Nat
         /\ Copies(m)' = Queued(m)' + At(evq', m) + Len(receipts'[m])
              + (IF hand'.msg = m THEN 1 ELSE 0)
              + (IF dropped'[m] = "no" THEN 0 ELSE 1)
<1>1. /\ pubq' \in [Protos -> Seq(Pubs)] /\ evq' \in Seq(Receipts)
      /\ receipts' \in [Msgs -> Seq(BOOLEAN)]
  BY DEF SendTypeOK
<1>2. /\ At(pubq'["v2"], m) \in Nat /\ At(pubq'["v3"], m) \in Nat
      /\ At(evq', m) \in Nat /\ Len(receipts'[m]) \in Nat
  BY <1>1, AtProperties, LenProperties DEF Protos
<1> QED
  BY <1>2 DEF Copies, Queued

\* kernel_send is refused, or the message takes its place in the queue.
LEMMA PushStep ==
  ASSUME SendInv, NEW m \in Msgs, kernel_send_push(m)
  PROVE  SendInv'
<1> DEFINE p == Proto(m)
           e == [msg |-> m, left |-> PublishMax]
           n == Len(accepted) + 1
<1>1. /\ SendTypeOK /\ InHand /\ OwnQueue /\ OnePlace /\ AcceptedOnce
      /\ AttemptsAddUp /\ HandAddsUp /\ WaitInOrder /\ InOrder
  BY DEF SendInv
<1>2. /\ call[m] = "checked" /\ attempts[m] = 0 /\ p \in Protos
      /\ UNCHANGED <<running, link, pc, hand, evq, attempts, receipts, dropped,
                     starts>>
  BY <1>1 DEF kernel_send_push, AcceptedOnce, Proto, Protos
<1>3. CASE /\ ~Room(pubq[p]) /\ call' = [call EXCEPT ![m] = "refused"]
           /\ UNCHANGED <<pubq, accepted>>
  <2>1. /\ call' \in [Msgs -> {"new", "checked", "queued", "refused"}]
        /\ \A k \in Msgs : call'[k] = "queued" <=> call[k] = "queued"
    BY <1>1, <1>2, <1>3 DEF SendTypeOK
  <2>2. SendTypeOK' /\ InHand'
    BY <1>1, <1>2, <1>3, <2>1 DEF SendTypeOK, InHand
  <2>3. AcceptedOnce'
    BY <1>1, <1>2, <1>3, <2>1, QueuesTyped DEF AcceptedOnce
  <2>4. OnePlace'
    BY <1>1, <1>2, <1>3, <2>1 DEF OnePlace, Copies
  <2> QED
    BY <1>2, <1>3, <2>2, <2>3, <2>4, TrafficUntouched DEF SendInv
<1>4. CASE /\ Room(pubq[p])
           /\ pubq' = [pubq EXCEPT ![p] = Append(@, e)]
           /\ accepted' = Append(accepted, m)
           /\ call' = [call EXCEPT ![m] = "queued"]
  <2>1. /\ Len(accepted) \in Nat /\ DOMAIN accepted = 1..Len(accepted)
        /\ \A i \in 1..Len(accepted) : accepted[i] \in Msgs
        /\ accepted \in Seq(Msgs)
    BY <1>1, QueuesTyped DEF SendTypeOK
  <2>2. /\ accepted' \in Seq(Msgs) /\ DOMAIN accepted' = 1..n
        /\ \A i \in 1..Len(accepted) : accepted'[i] = accepted[i]
        /\ accepted'[n] = m
    BY <1>4, <2>1, AppendProperties, LenProperties
  <2>3. /\ call' \in [Msgs -> {"new", "checked", "queued", "refused"}]
        /\ \A k \in Msgs \ {m} : call'[k] = call[k]
        /\ call'[m] = "queued"
    BY <1>1, <1>4 DEF SendTypeOK
  <2>4. \A i \in 1..Len(accepted) : accepted[i] # m
    BY <1>1, <1>2, <2>1 DEF AcceptedOnce
  <2>5. hand.msg # m /\ \A q \in Protos : m \notin MsgsIn(pubq[q])
    BY <1>1, <1>2, Places
  <2>6. e \in Pubs /\ e.msg = m /\ e.left = PublishMax /\ Proto(e.msg) = p
    BY SendAssumption DEF Pubs
  <2> HIDE DEF e
  <2>7. /\ pubq' \in [Protos -> Seq(Pubs)]
        /\ \A q \in Protos : Len(pubq'[q]) <= PubMax
        /\ \A q \in Protos \ {p} : pubq'[q] = pubq[q]
        /\ DOMAIN pubq'[p] = 1..(Len(pubq[p]) + 1)
        /\ \A i \in 1..Len(pubq[p]) : pubq'[p][i] = pubq[p][i]
        /\ pubq'[p][Len(pubq[p]) + 1] = e
        /\ MsgsIn(pubq'[p]) = MsgsIn(pubq[p]) \cup {e.msg}
        /\ OwnQueue'
        /\ \A k \in Msgs : Queued(k)' = Queued(k) + (IF e.msg = k THEN 1 ELSE 0)
    <3>1. /\ SendTypeOK /\ OwnQueue /\ p \in Protos /\ Room(pubq[p])
          /\ pubq' = [pubq EXCEPT ![p] = Append(@, e)]
      BY <1>1, <1>2, <1>4
    <3> HIDE DEF p
    <3> QED
      BY <2>6, <3>1, QueueAppend
  <2> HIDE DEF p
  <2>8. \A q \in Protos : /\ DOMAIN pubq[q] = 1..Len(pubq[q])
                          /\ Len(pubq[q]) \in Nat
                          /\ pubq[q] \in Seq(Pubs)
    BY <1>1, QueuesTyped
  <2>9. SendTypeOK'
    BY <1>1, <1>2, <2>2, <2>3, <2>7 DEF SendTypeOK
  <2>10. InHand' /\ HandAddsUp'
    BY <1>1, <1>2 DEF InHand, HandAddsUp
  <2>11. AcceptedOnce'
    BY <1>1, <1>2, <2>1, <2>2, <2>3, <2>4 DEF AcceptedOnce
  <2>12. AttemptsAddUp'
    <3>1. \A k \in Msgs : attempts'[k] <= PublishMax
      BY <1>1, <1>2 DEF AttemptsAddUp
    <3>2. ASSUME NEW q \in Protos, NEW i \in DOMAIN pubq'[q],
                 pubq'[q][i].msg # Bye
          PROVE  pubq'[q][i].left + attempts[pubq'[q][i].msg] = PublishMax
      <4>1. CASE q # p \/ i # Len(pubq[p]) + 1
        <5>1. i \in DOMAIN pubq[q] /\ pubq'[q][i] = pubq[q][i]
          BY <1>2, <2>7, <2>8, <3>2, <4>1
        <5> QED
          BY <1>1, <3>2, <5>1 DEF AttemptsAddUp
      <4>2. CASE q = p /\ i = Len(pubq[p]) + 1
        <5>1. pubq'[q][i] = e
          BY <2>7, <4>2
        <5> QED
          BY <1>2, <2>6, <5>1, SendAssumption
      <4> QED
        BY <4>1, <4>2
    <3> QED
      BY <1>2, <3>1, <3>2 DEF AttemptsAddUp
  <2>13. OnePlace'
    <3> SUFFICES ASSUME NEW k \in Msgs
                 PROVE  Copies(k)' = IF call'[k] = "queued" THEN 1 ELSE 0
      BY DEF OnePlace
    <3>1. Copies(k) = IF call[k] = "queued" THEN 1 ELSE 0
      BY <1>1 DEF OnePlace
    <3>2. Copies(k)' = Queued(k)' + At(evq, k) + Len(receipts[k])
               + (IF hand.msg = k THEN 1 ELSE 0)
               + (IF dropped[k] = "no" THEN 0 ELSE 1)
      BY <1>2, <2>9, CopiesAfter
    <3>3. /\ Queued(k) \in Nat /\ At(evq, k) \in Nat /\ Len(receipts[k]) \in Nat
          /\ Copies(k) = Queued(k) + At(evq, k) + Len(receipts[k])
               + (IF hand.msg = k THEN 1 ELSE 0)
               + (IF dropped[k] = "no" THEN 0 ELSE 1)
      BY <1>1, Places
    <3>4. Queued(k)' = Queued(k) + (IF k = m THEN 1 ELSE 0)
      BY <2>6, <2>7
    <3>5. call'[k] = "queued" <=> call[k] = "queued" \/ k = m
      BY <1>2, <2>3
    <3> QED
      BY <1>2, <3>1, <3>2, <3>3, <3>4, <3>5, SMTT(20)
  <2>14. ASSUME NEW x, NEW y, x # m, y = m \/ Before(accepted, x, y)
         PROVE  Before(accepted', x, y)
    BY <2>1, <2>2, <2>4, <2>14 DEF Before
  <2>15. WaitInOrder'
    <3>1. \A q \in Protos : \A i \in 1..Len(pubq[q]) : pubq[q][i].msg # m
      BY <2>5, <2>8, MsgsInProperties
    <3>2. \A q \in Protos : \A i \in DOMAIN pubq'[q] :
            \/ i \in 1..Len(pubq[q]) /\ pubq'[q][i] = pubq[q][i]
            \/ q = p /\ i = Len(pubq[q]) + 1 /\ pubq'[q][i].msg = m
      BY <1>2, <2>6, <2>7, <2>8
    <3>3. ASSUME NEW q \in Protos, NEW i \in DOMAIN pubq'[q],
                 NEW j \in DOMAIN pubq'[q], i < j
          PROVE  Before(accepted', pubq'[q][i].msg, pubq'[q][j].msg)
      <4>1. i \in 1..Len(pubq[q]) /\ pubq'[q][i] = pubq[q][i]
        BY <2>8, <3>2, <3>3
      <4>2. \/ j \in 1..Len(pubq[q]) /\ pubq'[q][j] = pubq[q][j]
            \/ pubq'[q][j].msg = m
        BY <3>2
      <4>3. pubq[q][i].msg # m
        BY <3>1, <4>1
      <4>4. \/ pubq'[q][j].msg = m
            \/ Before(accepted, pubq'[q][i].msg, pubq'[q][j].msg)
        BY <1>1, <2>8, <3>3, <4>1, <4>2 DEF WaitInOrder
      <4> QED
        BY <2>14, <4>1, <4>3, <4>4
    <3>4. ASSUME NEW q \in Protos, NEW i \in DOMAIN pubq'[q],
                 Proto(hand.msg) = q
          PROVE  Before(accepted', hand.msg, pubq'[q][i].msg)
      <4>1. \/ i \in 1..Len(pubq[q]) /\ pubq'[q][i] = pubq[q][i]
            \/ pubq'[q][i].msg = m
        BY <3>2
      <4>2. \/ pubq'[q][i].msg = m
            \/ Before(accepted, hand.msg, pubq'[q][i].msg)
        BY <1>1, <2>8, <3>4, <4>1 DEF WaitInOrder
      <4> QED
        BY <2>5, <2>14, <4>2
    <3> QED
      BY <1>2, <3>3, <3>4 DEF WaitInOrder
  <2>16. InOrder'
    <3>1. ASSUME NEW i \in 1..n, NEW j \in 1..n, i < j,
                 Proto(accepted'[i]) = Proto(accepted'[j]),
                 attempts[accepted'[j]] > 0
          PROVE  ~Waiting(accepted[i])'
      <4>1. i \in 1..Len(accepted) /\ j \in 1..Len(accepted)
        BY <1>2, <2>1, <2>2, <3>1
      <4>2. accepted'[i] = accepted[i] /\ accepted'[j] = accepted[j]
        BY <2>2, <4>1
      <4>3. ~Waiting(accepted[i]) /\ accepted[i] # m
        BY <1>1, <2>1, <2>4, <3>1, <4>1, <4>2 DEF InOrder
      <4>4. accepted[i] \notin MsgsIn(pubq'[Proto(accepted[i])])
        BY <2>6, <2>7, <4>3 DEF Proto, Protos, Waiting
      <4> QED
        BY <1>2, <4>2, <4>3, <4>4 DEF Waiting
    <3> QED
      BY <1>2, <2>2, <3>1 DEF InOrder
  <2> QED
    BY <2>7, <2>9, <2>10, <2>11, <2>12, <2>13, <2>15, <2>16 DEF SendInv
<1> QED
  BY <1>3, <1>4 DEF kernel_send_push

-----------------------------------------------------------------------------
(* The thread that drives the kernel *)

\* The next message is taken in hand, or the queue is empty.
LEMMA PopStep ==
  ASSUME SendInv, NEW p \in Protos, send_message_pop(p)
  PROVE  SendInv'
<1>1. /\ SendTypeOK /\ InHand /\ OwnQueue /\ OnePlace /\ AcceptedOnce
      /\ AttemptsAddUp /\ HandAddsUp /\ WaitInOrder /\ InOrder
  BY DEF SendInv
<1>2. /\ pc = p /\ hand = Idle
      /\ UNCHANGED <<running, link, evq, call, accepted, attempts, receipts,
                     dropped, starts>>
  BY <1>1 DEF send_message_pop, InHand, Publishing, Protos, history
<1>3. CASE pc' = Turn(p) /\ UNCHANGED <<pubq, hand>>
  <2>1. pc' \in {"v3", "user", "ended"}
    BY <1>3 DEF Turn, Left, Protos
  <2>2. SendTypeOK' /\ InHand' /\ AcceptedOnce' /\ OnePlace'
    BY <1>1, <1>2, <1>3, <2>1
    DEF SendTypeOK, InHand, AcceptedOnce, OnePlace, Copies, Publishing, Protos
  <2> QED
    BY <1>2, <1>3, <2>2, TrafficUntouched DEF SendInv
<1>4. CASE /\ pubq[p] # <<>> /\ hand' = Head(pubq[p])
           /\ pubq' = [pubq EXCEPT ![p] = Tail(@)] /\ pc' = Publishing(p)
  <2> DEFINE e == Head(pubq[p])
  <2>1. /\ Head(pubq[p]) = pubq[p][1] /\ Head(pubq[p]) \in Pubs
        /\ Len(pubq[p]) \in Nat \ {0}
        /\ pubq' \in [Protos -> Seq(Pubs)]
        /\ \A q \in Protos : Len(pubq'[q]) <= PubMax
        /\ \A q \in Protos \ {p} : pubq'[q] = pubq[q]
        /\ DOMAIN pubq'[p] = 1..(Len(pubq[p]) - 1)
        /\ \A i \in 1..(Len(pubq[p]) - 1) : pubq'[p][i] = pubq[p][i + 1]
        /\ MsgsIn(pubq'[p]) \subseteq MsgsIn(pubq[p])
        /\ Head(pubq[p]).msg \in MsgsIn(pubq[p])
        /\ OwnQueue' /\ Proto(Head(pubq[p]).msg) = p
        /\ \A m \in Msgs : Queued(m) =
             Queued(m)' + (IF Head(pubq[p]).msg = m THEN 1 ELSE 0)
    BY <1>1, <1>4, QueuePop
  <2>2. /\ e = pubq[p][1] /\ e \in Pubs /\ Proto(e.msg) = p
        /\ e.msg \in MsgsIn(pubq[p]) /\ hand' = e
    BY <1>4, <2>1
  <2> HIDE DEF e
  <2>3. \A q \in Protos : DOMAIN pubq[q] = 1..Len(pubq[q])
    BY <1>1, QueuesTyped
  <2>4. e.msg \in Msgs \cup {Bye} /\ e.msg # NoMsg
    BY <2>2, SendAssumption DEF Pubs
  <2>5. pc' \in {"publish_v2", "publish_v3"}
    BY <1>4 DEF Publishing
  <2>6. SendTypeOK'
    BY <1>1, <1>2, <2>1, <2>2, <2>5 DEF SendTypeOK
  <2>7. InHand'
    BY <1>4, <2>2, <2>4 DEF InHand, Publishing, Protos
  <2>8. AcceptedOnce'
    BY <1>1, <1>2 DEF AcceptedOnce
  \* A place in the queue after the step was one further back before.
  <2>9. \A q \in Protos : \A i \in DOMAIN pubq'[q] :
          \/ q # p /\ i \in DOMAIN pubq[q] /\ pubq'[q][i] = pubq[q][i]
          \/ q = p /\ i + 1 \in DOMAIN pubq[q] /\ pubq'[q][i] = pubq[q][i + 1]
    BY <2>1, <2>3
  <2>10. AttemptsAddUp'
    BY <1>1, <1>2, <2>9 DEF AttemptsAddUp
  <2>11. HandAddsUp'
    <3> SUFFICES ASSUME e.msg \in Msgs
                 PROVE  e.left + attempts[e.msg] = PublishMax
      BY <1>2, <2>2 DEF HandAddsUp
    <3>1. e.msg # Bye /\ 1 \in DOMAIN pubq[p]
      BY <2>1, <2>3, SendAssumption
    <3> QED
      BY <1>1, <2>2, <3>1 DEF AttemptsAddUp
  <2>12. OnePlace'
    <3> SUFFICES ASSUME NEW m \in Msgs
                 PROVE  Copies(m)' = Copies(m)
      BY <1>1, <1>2 DEF OnePlace
    <3>1. Queued(m) = Queued(m)' + (IF e.msg = m THEN 1 ELSE 0)
      BY <2>1 DEF e
    <3>2. hand.msg # m /\ hand'.msg = e.msg
      BY <1>2, <2>2, SendAssumption DEF Idle
    <3>3. Copies(m) = Queued(m) + At(evq, m) + Len(receipts[m])
            + (IF dropped[m] = "no" THEN 0 ELSE 1)
      BY <1>1, <3>2, Places
    <3>4. /\ Copies(m)' = Queued(m)' + At(evq, m) + Len(receipts[m])
               + (IF hand'.msg = m THEN 1 ELSE 0)
               + (IF dropped[m] = "no" THEN 0 ELSE 1)
          /\ Queued(m)' \in Nat /\ At(evq, m) \in Nat /\ Len(receipts[m]) \in Nat
      BY <1>2, <2>6, CopiesAfter
    <3> QED
      BY <3>1, <3>2, <3>3, <3>4
  <2>13. WaitInOrder'
    <3>1. ASSUME NEW q \in Protos, NEW i \in DOMAIN pubq'[q],
                 NEW j \in DOMAIN pubq'[q], i < j
          PROVE  Before(accepted, pubq'[q][i].msg, pubq'[q][j].msg)
      <4>1. i + 1 < j + 1
        BY <2>1, <2>3, <2>9, <3>1
      <4> QED
        BY <1>1, <2>9, <3>1, <4>1 DEF WaitInOrder
    <3>2. ASSUME NEW i \in DOMAIN pubq'[p]
          PROVE  Before(accepted, e.msg, pubq'[p][i].msg)
      <4>1. /\ i + 1 \in DOMAIN pubq[p] /\ pubq'[p][i] = pubq[p][i + 1]
            /\ 1 \in DOMAIN pubq[p] /\ 1 < i + 1
        BY <2>1, <2>3, <2>9
      <4> QED
        BY <1>1, <2>2, <4>1 DEF WaitInOrder
    <3> QED
      BY <1>2, <2>2, <3>1, <3>2 DEF WaitInOrder
  <2>14. InOrder'
    <3>1. ASSUME NEW m, Waiting(m)' PROVE Waiting(m)
      BY <2>1, <2>2, <3>1 DEF Waiting, Proto, Protos
    <3> QED
      BY <1>1, <1>2, <3>1 DEF InOrder
  <2> QED
    BY <2>1, <2>6, <2>7, <2>8, <2>10, <2>11, <2>12, <2>13, <2>14 DEF SendInv
<1> QED
  BY <1>3, <1>4 DEF send_message_pop

\* An attempt to publish what is in hand disturbs no other message.
LEMMA AttemptCounted ==
  ASSUME SendInv, NEW p \in Protos, pc = Publishing(p),
         Attempted \/ attempts' = attempts
  PROVE  /\ attempts' \in [Msgs \cup {Bye} -> Nat]
         /\ \A m \in Msgs : attempts'[m] <= PublishMax
         /\ \A m \in Msgs : call[m] # "queued" => attempts'[m] = 0
         /\ \A q \in Protos : \A i \in DOMAIN pubq[q] :
              pubq[q][i].msg # Bye =>
                pubq[q][i].left + attempts'[pubq[q][i].msg] = PublishMax
         /\ \A i, j \in DOMAIN accepted :
              /\ i < j /\ Proto(accepted[i]) = Proto(accepted[j])
              /\ attempts'[accepted[j]] > 0
              => ~Waiting(accepted[i])
<1>1. /\ SendTypeOK /\ InHand /\ OwnQueue /\ OnePlace /\ AcceptedOnce
      /\ AttemptsAddUp /\ HandAddsUp /\ WaitInOrder /\ InOrder
  BY DEF SendInv
<1>2. /\ hand \in Pubs /\ Proto(hand.msg) = p
      /\ hand.msg \in Msgs \cup {Bye} /\ hand.left \in 1..PublishMax
  BY <1>1 DEF SendTypeOK, InHand, Pubs, Idle
<1>3. /\ attempts' \in [Msgs \cup {Bye} -> Nat]
      /\ \A m \in Msgs \cup {Bye} : m # hand.msg => attempts'[m] = attempts[m]
      /\ attempts'[hand.msg] \in {attempts[hand.msg], attempts[hand.msg] + 1}
  <2>1. attempts \in [Msgs \cup {Bye} -> Nat] /\ attempts[hand.msg] + 1 \in Nat
    BY <1>1, <1>2 DEF SendTypeOK
  <2>2. \/ attempts' = attempts
        \/ attempts' = [attempts EXCEPT ![hand.msg] = attempts[hand.msg] + 1]
    BY DEF Attempted
  <2> HIDE DEF Msgs
  <2> QED
    BY <1>2, <2>1, <2>2
<1>4. \A m \in Msgs : m = hand.msg =>
        call[m] = "queued" /\ \A q \in Protos : m \notin MsgsIn(pubq[q])
  BY <1>1, Places
<1>5. \A m \in Msgs : attempts'[m] <= PublishMax
  <2> TAKE m \in Msgs
  <2>1. CASE m = hand.msg
    <3>1. hand.left + attempts[m] = PublishMax /\ attempts[m] \in Nat
      BY <1>1, <2>1 DEF HandAddsUp, SendTypeOK
    <3>2. attempts'[m] \in {attempts[m], attempts[m] + 1}
      BY <1>3, <2>1
    <3> QED
      BY <1>2, <3>1, <3>2, SendAssumption
  <2>2. CASE m # hand.msg
    BY <1>1, <1>3, <2>2 DEF AttemptsAddUp
  <2> QED
    BY <2>1, <2>2
<1>6. \A m \in Msgs : call[m] # "queued" => attempts'[m] = 0
  BY <1>1, <1>3, <1>4 DEF AcceptedOnce
<1>7. ASSUME NEW q \in Protos, NEW i \in DOMAIN pubq[q], pubq[q][i].msg # Bye
      PROVE  pubq[q][i].left + attempts'[pubq[q][i].msg] = PublishMax
  <2>1. pubq[q][i].msg \in Msgs /\ pubq[q][i].msg \in MsgsIn(pubq[q])
    BY <1>1, <1>7, QueuesTyped, MsgsInProperties DEF Pubs
  <2>2. pubq[q][i].msg # hand.msg
    BY <1>4, <2>1
  <2> QED
    BY <1>1, <1>3, <1>7, <2>1, <2>2 DEF AttemptsAddUp
<1>8. ASSUME NEW i \in DOMAIN accepted, NEW j \in DOMAIN accepted, i < j,
             Proto(accepted[i]) = Proto(accepted[j]),
             attempts'[accepted[j]] > 0
      PROVE  ~Waiting(accepted[i])
  <2>1. accepted[i] \in Msgs /\ accepted[j] \in Msgs /\ i \in Nat /\ j \in Nat
    BY <1>1, QueuesTyped
  <2>2. CASE accepted[j] # hand.msg
    BY <1>1, <1>3, <1>8, <2>1, <2>2 DEF InOrder
  <2>3. CASE accepted[j] = hand.msg
    <3>1. accepted[i] # hand.msg
      BY <1>1, <1>8, <2>1, <2>3 DEF AcceptedOnce
    <3>2. ASSUME NEW k \in DOMAIN pubq[p], pubq[p][k].msg = accepted[i]
          PROVE  FALSE
      <4>1. Before(accepted, hand.msg, accepted[i])
        BY <1>1, <1>2, <3>2 DEF WaitInOrder
      <4> QED
        BY <1>8, <2>1, <2>3, <4>1 DEF Before
    <3> QED
      BY <1>2, <1>8, <2>3, <3>1, <3>2 DEF Waiting, MsgsIn
  <2> QED
    BY <2>2, <2>3
<1> QED
  BY <1>3, <1>5, <1>6, <1>7, <1>8

\* PUBACK came, the message was rejected, or its last attempt failed: it
\* leaves the hand for a receipt under way, unless the event queue is full.
LEMMA ReceiptStep ==
  ASSUME SendInv, NEW p \in Protos,
         \/ send_message_ok(p) \/ send_message_rejected(p)
         \/ send_message_failed(p)
  PROVE  SendInv'
<1> DEFINE full == ~(Len(evq) < EvMax)
<1>1. /\ SendTypeOK /\ InHand /\ OwnQueue /\ OnePlace /\ AcceptedOnce
      /\ AttemptsAddUp /\ HandAddsUp /\ WaitInOrder /\ InOrder
  BY DEF SendInv
<1>2. /\ pc = Publishing(p) /\ hand' = Idle
      /\ UNCHANGED <<running, link, pubq, call, accepted, receipts, starts>>
  BY DEF send_message_ok, send_message_rejected, send_message_failed
<1>3. Attempted \/ attempts' = attempts
  BY DEF send_message_ok, send_message_rejected, send_message_failed
<1>4. pc' \in {"v3", "user", "ended"}
  BY DEF send_message_ok, send_message_rejected, send_message_failed, Turn,
         Left, Protos
<1>5. PICK ok \in BOOLEAN : Receipt(ok)
  BY DEF send_message_ok, send_message_rejected, send_message_failed
<1>6. /\ hand \in Pubs /\ hand.msg \in Msgs \cup {Bye} /\ hand.msg # NoMsg
      /\ [msg |-> hand.msg, ok |-> ok] \in Receipts
  BY <1>1, <1>2, SendAssumption
  DEF SendTypeOK, InHand, Pubs, Idle, Receipts
<1>7. /\ evq' \in Seq(Receipts) /\ Len(evq') <= EvMax
      /\ \A m : At(evq', m) = At(evq, m) + (IF hand.msg = m /\ ~full THEN 1 ELSE 0)
  BY <1>1, <1>5, <1>6, BroadcastCounts DEF Receipt
<1>8. dropped' = [m \in Msgs |->
        IF m = hand.msg /\ full THEN "unheard" ELSE dropped[m]]
  BY <1>5 DEF Receipt, Drop
<1>9. /\ attempts' \in [Msgs \cup {Bye} -> Nat]
      /\ \A m \in Msgs : attempts'[m] <= PublishMax
      /\ \A m \in Msgs : call[m] # "queued" => attempts'[m] = 0
      /\ \A q \in Protos : \A i \in DOMAIN pubq[q] :
           pubq[q][i].msg # Bye =>
             pubq[q][i].left + attempts'[pubq[q][i].msg] = PublishMax
      /\ \A i, j \in DOMAIN accepted :
           /\ i < j /\ Proto(accepted[i]) = Proto(accepted[j])
           /\ attempts'[accepted[j]] > 0
           => ~Waiting(accepted[i])
  BY <1>2, <1>3, AttemptCounted
<1>10. \A m \in Msgs : hand'.msg # m
  BY <1>2, SendAssumption DEF Idle
<1> HIDE DEF full
<1>11. SendTypeOK'
  <2>1. dropped' \in [Msgs -> {"no", "cleared", "no_room", "unheard"}]
    BY <1>1, <1>8 DEF SendTypeOK
  <2>2. evq' \in Seq(Receipts) /\ Len(evq') <= EvMax
    BY <1>7
  <2>3. attempts' \in [Msgs \cup {Bye} -> Nat]
    BY <1>9
  <2>4. SendTypeOK
    BY <1>1
  <2> QED
    BY <1>2, <1>4, <2>1, <2>2, <2>3, <2>4 DEF SendTypeOK, Protos
<1>12. InHand' /\ OwnQueue' /\ HandAddsUp'
  BY <1>1, <1>2, <1>4, <1>10 DEF InHand, OwnQueue, HandAddsUp, Publishing, Protos
<1>13. AcceptedOnce' /\ AttemptsAddUp'
  BY <1>1, <1>2, <1>9 DEF AcceptedOnce, AttemptsAddUp
<1>14. OnePlace'
  <2> SUFFICES ASSUME NEW m \in Msgs PROVE Copies(m)' = Copies(m)
    BY <1>1, <1>2 DEF OnePlace
  <2>1. /\ Queued(m) \in Nat /\ At(evq, m) \in Nat /\ Len(receipts[m]) \in Nat
        /\ Copies(m) = Queued(m) + At(evq, m) + Len(receipts[m])
             + (IF hand.msg = m THEN 1 ELSE 0)
             + (IF dropped[m] = "no" THEN 0 ELSE 1)
        /\ hand.msg = m => dropped[m] = "no"
    BY <1>1, Places
  <2>2. Copies(m)' = Queued(m)' + At(evq', m) + Len(receipts'[m])
          + (IF hand'.msg = m THEN 1 ELSE 0)
          + (IF dropped'[m] = "no" THEN 0 ELSE 1)
    BY <1>11, CopiesAfter
  <2>3. Queued(m)' = Queued(m) /\ Len(receipts'[m]) = Len(receipts[m])
    BY <1>2 DEF Queued
  <2>4. At(evq', m) = At(evq, m) + (IF hand.msg = m /\ ~full THEN 1 ELSE 0)
    BY <1>7
  <2>5. dropped'[m] = IF m = hand.msg /\ full THEN "unheard" ELSE dropped[m]
    BY <1>8
  <2> QED
    BY <1>10, <2>1, <2>2, <2>3, <2>4, <2>5
<1>15. WaitInOrder'
  <2>1. \A x : Before(accepted, Idle.msg, x)
    BY <1>1, <1>2, <1>10, QueuesTyped DEF Before
  <2> QED
    BY <1>1, <1>2, <2>1 DEF WaitInOrder
<1>16. InOrder'
  <2>1. ASSUME NEW m \in Msgs, Waiting(m)' PROVE Waiting(m)
    BY <1>2, <1>10, <2>1 DEF Waiting
  <2> QED
    BY <1>1, <1>2, <1>9, <2>1, QueuesTyped DEF InOrder
<1> QED
  BY <1>11, <1>12, <1>13, <1>14, <1>15, <1>16 DEF SendInv

\* An attempt failed that was not the last: the message is again the first
\* of its queue, ahead of all that was pushed meanwhile, or finds no room.
LEMMA AgainStep ==
  ASSUME SendInv, NEW p \in Protos, send_message_again(p)
  PROVE  SendInv'
<1>1. /\ SendTypeOK /\ InHand /\ OwnQueue /\ OnePlace /\ AcceptedOnce
      /\ AttemptsAddUp /\ HandAddsUp /\ WaitInOrder /\ InOrder
  BY DEF SendInv
<1>2. /\ pc = Publishing(p) /\ hand' = Idle /\ link' = "broken" /\ pc' = Left
      /\ Attempted /\ MayRetry /\ Broadcast(Other)
      /\ UNCHANGED <<running, call, accepted, receipts, starts>>
  BY DEF send_message_again
<1>3. pc' \in {"user", "ended"}
  BY <1>2 DEF Left
<1>4. /\ hand \in Pubs /\ hand.msg \in Msgs \cup {Bye} /\ Proto(hand.msg) = p
      /\ hand.left \in 1..PublishMax /\ hand.left > 1
  BY <1>1, <1>2, SendAssumption DEF SendTypeOK, InHand, Pubs, Idle, MayRetry
<1>5. /\ evq' \in Seq(Receipts) /\ Len(evq') <= EvMax
      /\ \A m \in Msgs : At(evq', m) = At(evq, m)
  BY <1>1, <1>2, BroadcastOther
<1>6. /\ attempts' \in [Msgs \cup {Bye} -> Nat]
      /\ \A m \in Msgs : attempts'[m] <= PublishMax
      /\ \A m \in Msgs : call[m] # "queued" => attempts'[m] = 0
      /\ \A q \in Protos : \A i \in DOMAIN pubq[q] :
           pubq[q][i].msg # Bye =>
             pubq[q][i].left + attempts'[pubq[q][i].msg] = PublishMax
      /\ \A i, j \in DOMAIN accepted :
           /\ i < j /\ Proto(accepted[i]) = Proto(accepted[j])
           /\ attempts'[accepted[j]] > 0
           => ~Waiting(accepted[i])
  BY <1>2, AttemptCounted
<1>7. \A m \in Msgs : hand'.msg # m
  BY <1>2, SendAssumption DEF Idle
<1>8. /\ Again \in Pubs /\ Again.msg = hand.msg /\ Again.left = hand.left - 1
  BY <1>4, SendAssumption DEF Again, Pubs
<1>9. InHand' /\ HandAddsUp'
  BY <1>2, <1>3, <1>7 DEF InHand, HandAddsUp, Publishing, Protos
<1>10. AcceptedOnce'
  BY <1>1, <1>2, <1>6 DEF AcceptedOnce
<1>11. \A x : Before(accepted, Idle.msg, x)
  BY <1>1, <1>2, <1>7, QueuesTyped DEF Before
<1>12. ASSUME NEW m \in Msgs
       PROVE  /\ Queued(m) \in Nat /\ At(evq, m) \in Nat
              /\ Len(receipts[m]) \in Nat
              /\ Copies(m) = Queued(m) + At(evq, m) + Len(receipts[m])
                   + (IF hand.msg = m THEN 1 ELSE 0)
                   + (IF dropped[m] = "no" THEN 0 ELSE 1)
              /\ hand.msg = m => dropped[m] = "no"
  BY <1>1, Places
<1>13. CASE Room(pubq[p]) /\ BackAtHead(p) /\ UNCHANGED dropped
  <2>1. /\ pubq' \in [Protos -> Seq(Pubs)]
        /\ \A q \in Protos : Len(pubq'[q]) <= PubMax
        /\ \A q \in Protos \ {p} : pubq'[q] = pubq[q]
        /\ DOMAIN pubq'[p] = 1..(Len(pubq[p]) + 1)
        /\ pubq'[p][1] = Again
        /\ \A i \in 1..Len(pubq[p]) : pubq'[p][i + 1] = pubq[p][i]
        /\ MsgsIn(pubq'[p]) = MsgsIn(pubq[p]) \cup {Again.msg}
        /\ OwnQueue'
        /\ \A m \in Msgs : Queued(m)' =
             Queued(m) + (IF Again.msg = m THEN 1 ELSE 0)
    <3> PICK e \in Pubs : e = Again
      BY <1>8
    <3>1. Proto(e.msg) = p
      BY <1>4, <1>8
    <3> QED
      BY <1>1, <1>13, <3>1, QueuePushHead
  <2>2. \A q \in Protos : DOMAIN pubq[q] = 1..Len(pubq[q]) /\ Len(pubq[q]) \in Nat
    BY <1>1, QueuesTyped
  \* A place in the queue after the step: the retry, or one further back.
  <2>3. \A q \in Protos : \A i \in DOMAIN pubq'[q] :
          \/ q # p /\ i \in DOMAIN pubq[q] /\ pubq'[q][i] = pubq[q][i]
          \/ /\ q = p /\ i > 1 /\ i - 1 \in DOMAIN pubq[q]
             /\ pubq'[q][i] = pubq[q][i - 1]
          \/ q = p /\ i = 1 /\ pubq'[q][i] = Again
    <3> TAKE q \in Protos
    <3> TAKE i \in DOMAIN pubq'[q]
    <3>1. CASE q # p
      BY <2>1, <2>2, <3>1
    <3>2. CASE q = p /\ i = 1
      BY <2>1, <3>2
    <3>3. CASE q = p /\ i # 1
      <4>1. i \in Nat /\ i > 1 /\ i - 1 \in 1..Len(pubq[p]) /\ (i - 1) + 1 = i
        BY <2>1, <2>2, <3>3
      <4>2. pubq'[p][(i - 1) + 1] = pubq[p][i - 1]
        BY <2>1, <4>1
      <4> QED
        BY <2>2, <3>3, <4>1, <4>2
    <3> QED
      BY <3>1, <3>2, <3>3
  <2>4. SendTypeOK'
    BY <1>1, <1>2, <1>3, <1>5, <1>6, <1>13, <2>1 DEF SendTypeOK
  <2>5. AttemptsAddUp'
    <3>1. hand.msg # Bye => Again.left + attempts'[hand.msg] = PublishMax
      <4> SUFFICES ASSUME hand.msg # Bye
                   PROVE  Again.left + attempts'[hand.msg] = PublishMax
        OBVIOUS
      <4>1. /\ hand.left + attempts[hand.msg] = PublishMax
            /\ attempts[hand.msg] \in Nat
        BY <1>1, <1>4 DEF HandAddsUp, SendTypeOK
      <4>2. attempts'[hand.msg] = attempts[hand.msg] + 1
        BY <1>1, <1>2, <1>4 DEF Attempted, SendTypeOK
      <4> QED
        BY <1>4, <1>8, <4>1, <4>2, SendAssumption
    <3>2. ASSUME NEW q \in Protos, NEW i \in DOMAIN pubq'[q],
                 pubq'[q][i].msg # Bye
          PROVE  pubq'[q][i].left + attempts'[pubq'[q][i].msg] = PublishMax
      BY <1>6, <1>8, <2>3, <3>1, <3>2
    <3> QED
      BY <1>6, <3>2 DEF AttemptsAddUp
  <2>6. OnePlace'
    <3> SUFFICES ASSUME NEW m \in Msgs PROVE Copies(m)' = Copies(m)
      BY <1>1, <1>2 DEF OnePlace
    <3>1. Copies(m)' = Queued(m)' + At(evq', m) + Len(receipts'[m])
            + (IF hand'.msg = m THEN 1 ELSE 0)
            + (IF dropped'[m] = "no" THEN 0 ELSE 1)
      BY <2>4, CopiesAfter
    <3>2. Queued(m)' = Queued(m) + (IF hand.msg = m THEN 1 ELSE 0)
      BY <1>8, <2>1
    <3>3. dropped'[m] = dropped[m] /\ Len(receipts'[m]) = Len(receipts[m])
      BY <1>2, <1>13
    <3> QED
      BY <1>5, <1>7, <1>12, <3>1, <3>2, <3>3
  <2>7. WaitInOrder'
    <3>1. ASSUME NEW q \in Protos, NEW i \in DOMAIN pubq'[q],
                 NEW j \in DOMAIN pubq'[q], i < j
          PROVE  Before(accepted, pubq'[q][i].msg, pubq'[q][j].msg)
      <4>1. CASE q # p
        BY <1>1, <2>3, <3>1, <4>1 DEF WaitInOrder
      <4>2. CASE q = p /\ i = 1
        <5>1. /\ pubq'[q][i].msg = hand.msg /\ j - 1 \in DOMAIN pubq[q]
              /\ pubq'[q][j] = pubq[q][j - 1]
          BY <1>8, <2>1, <2>2, <2>3, <3>1, <4>2
        <5> QED
          BY <1>1, <1>4, <4>2, <5>1 DEF WaitInOrder
      <4>3. CASE q = p /\ i # 1
        <5>1. /\ i - 1 \in DOMAIN pubq[q] /\ pubq'[q][i] = pubq[q][i - 1]
              /\ j - 1 \in DOMAIN pubq[q] /\ pubq'[q][j] = pubq[q][j - 1]
              /\ i - 1 < j - 1
          BY <2>1, <2>2, <2>3, <3>1, <4>3
        <5> QED
          BY <1>1, <5>1, SMTT(20) DEF WaitInOrder
      <4> QED
        BY <4>1, <4>2, <4>3
    <3> QED
      BY <1>2, <1>11, <3>1 DEF WaitInOrder
  <2>8. InOrder'
    <3>1. ASSUME NEW m \in Msgs, Waiting(m)' PROVE Waiting(m)
      BY <1>7, <1>8, <2>1, <3>1 DEF Waiting, Proto, Protos
    <3> QED
      BY <1>1, <1>2, <1>6, <3>1, QueuesTyped DEF InOrder
  <2> QED
    BY <1>9, <1>10, <2>1, <2>4, <2>5, <2>6, <2>7, <2>8 DEF SendInv
<1>14. CASE ~Room(pubq[p]) /\ Drop({hand.msg}, "no_room") /\ UNCHANGED pubq
  <2>1. dropped' = [m \in Msgs |->
          IF m = hand.msg THEN "no_room" ELSE dropped[m]]
    BY <1>14 DEF Drop
  <2>2. dropped' \in [Msgs -> {"no", "cleared", "no_room", "unheard"}]
    BY <1>1, <2>1 DEF SendTypeOK
  <2>3. SendTypeOK'
    BY <1>1, <1>2, <1>3, <1>5, <1>6, <1>14, <2>2 DEF SendTypeOK
  <2>4. OwnQueue' /\ AttemptsAddUp' /\ WaitInOrder'
    BY <1>1, <1>2, <1>6, <1>11, <1>14 DEF OwnQueue, AttemptsAddUp, WaitInOrder
  <2>5. OnePlace'
    <3> SUFFICES ASSUME NEW m \in Msgs PROVE Copies(m)' = Copies(m)
      BY <1>1, <1>2 DEF OnePlace
    <3>1. Copies(m)' = Queued(m)' + At(evq', m) + Len(receipts'[m])
            + (IF hand'.msg = m THEN 1 ELSE 0)
            + (IF dropped'[m] = "no" THEN 0 ELSE 1)
      BY <2>3, CopiesAfter
    <3>2. Queued(m)' = Queued(m)
      BY <1>14 DEF Queued
    <3>3. dropped'[m] = IF m = hand.msg THEN "no_room" ELSE dropped[m]
      BY <2>1
    <3> QED
      BY <1>2, <1>5, <1>7, <1>12, <3>1, <3>2, <3>3
  <2>6. InOrder'
    <3>1. ASSUME NEW m \in Msgs, Waiting(m)' PROVE Waiting(m)
      BY <1>7, <1>14, <3>1 DEF Waiting
    <3> QED
      BY <1>1, <1>2, <1>6, <3>1, QueuesTyped DEF InOrder
  <2> QED
    BY <1>9, <1>10, <2>3, <2>4, <2>5, <2>6 DEF SendInv
<1> QED
  BY <1>13, <1>14 DEF send_message_again

\* An event is delivered, and with it perhaps a receipt.
LEMMA UserStep ==
  ASSUME SendInv, kernel_yield_user
  PROVE  SendInv'
<1>1. /\ SendTypeOK /\ InHand /\ AcceptedOnce /\ OnePlace
      /\ pc = "user" /\ pc' = "out"
      /\ UNCHANGED <<running, link, pubq, hand, call, accepted, attempts, dropped,
                     starts>>
  BY DEF SendInv, kernel_yield_user
<1>2. InHand' /\ AcceptedOnce'
  BY <1>1 DEF InHand, AcceptedOnce, Publishing, Protos
<1>3. CASE UNCHANGED <<evq, receipts>>
  <2>1. SendTypeOK' /\ OnePlace'
    BY <1>1, <1>3 DEF SendTypeOK, OnePlace, Copies
  <2> QED
    BY <1>1, <1>2, <2>1, TrafficUntouched DEF SendInv
<1>4. CASE evq # <<>>
  <2> PICK e : e = Head(evq)
    OBVIOUS
  <2>1. /\ evq' = Tail(evq)
        /\ receipts' = [m \in Msgs |-> IF m = e.msg
                          THEN Append(receipts[m], e.ok)
                          ELSE receipts[m]]
    BY <1>4 DEF kernel_yield_user
  <2>2. /\ evq \in Seq(Receipts) /\ e \in Receipts
        /\ Tail(evq) \in Seq(Receipts) /\ Len(Tail(evq)) = Len(evq) - 1
        /\ Len(evq) \in Nat /\ Len(evq) <= EvMax
    BY <1>1, <1>4, HeadTailProperties, QueuesTyped DEF SendTypeOK
  <2>3. e.ok \in BOOLEAN
    BY <2>2 DEF Receipts
  <2>4. \A m \in Msgs : receipts[m] \in Seq(BOOLEAN)
    BY <1>1 DEF SendTypeOK
  <2>5. ASSUME NEW m \in Msgs PROVE receipts'[m] \in Seq(BOOLEAN)
    <3>1. Append(receipts[m], e.ok) \in Seq(BOOLEAN)
      BY <2>3, <2>4, AppendProperties
    <3> QED
      BY <2>1, <2>4, <3>1
  <2>6. ASSUME NEW m \in Msgs
         PROVE  /\ Len(receipts[m]) \in Nat
                /\ e.msg = m => Len(receipts'[m]) = Len(receipts[m]) + 1
                /\ e.msg # m => Len(receipts'[m]) = Len(receipts[m])
    <3>1. /\ Len(receipts[m]) \in Nat
          /\ Len(Append(receipts[m], e.ok)) = Len(receipts[m]) + 1
      BY <2>3, <2>4, AppendProperties, LenProperties
    <3>2. CASE e.msg = m
      <4>1. receipts'[m] = Append(receipts[m], e.ok)
        BY <2>1, <3>2
      <4> QED
        BY <3>1, <3>2, <4>1
    <3>3. CASE e.msg # m
      <4>1. receipts'[m] = receipts[m]
        BY <2>1, <3>3
      <4> QED
        BY <3>1, <3>3, <4>1
    <3> QED
      BY <3>2, <3>3
  <2>7. receipts' \in [Msgs -> Seq(BOOLEAN)]
    <3>1. receipts' = [m \in Msgs |-> receipts'[m]]
      BY <2>1
    <3> QED
      BY <2>5, <3>1
  <2>8. evq' \in Seq(Receipts) /\ Len(evq') <= EvMax
    BY <2>1, <2>2, SendAssumption
  <2>9. SendTypeOK'
    BY <1>1, <2>7, <2>8 DEF SendTypeOK
  <2>10. OnePlace'
    <3> SUFFICES ASSUME NEW m \in Msgs PROVE Copies(m)' = Copies(m)
      BY <1>1 DEF OnePlace
    <3>1. At(evq, m) = At(evq', m) + (IF e.msg = m THEN 1 ELSE 0)
      BY <1>4, <2>1, <2>2, AtTail
    <3>2. /\ Queued(m) \in Nat /\ Len(receipts[m]) \in Nat
          /\ Copies(m) = Queued(m) + At(evq, m) + Len(receipts[m])
               + (IF hand.msg = m THEN 1 ELSE 0)
               + (IF dropped[m] = "no" THEN 0 ELSE 1)
      BY <1>1, Places
    <3>3. /\ At(evq', m) \in Nat
          /\ Copies(m)' = Queued(m)' + At(evq', m) + Len(receipts'[m])
               + (IF hand'.msg = m THEN 1 ELSE 0)
               + (IF dropped'[m] = "no" THEN 0 ELSE 1)
      BY <2>9, CopiesAfter
    <3>4. Queued(m)' = Queued(m) /\ hand' = hand /\ dropped'[m] = dropped[m]
      BY <1>1 DEF Queued
    <3>5. CASE e.msg = m
      <4>1. Len(receipts'[m]) = Len(receipts[m]) + 1
        BY <2>6, <3>5
      <4> QED
        BY <3>1, <3>2, <3>3, <3>4, <3>5, <4>1
    <3>6. CASE e.msg # m
      <4>1. Len(receipts'[m]) = Len(receipts[m])
        BY <2>6, <3>6
      <4> QED
        BY <3>1, <3>2, <3>3, <3>4, <3>6, <4>1
    <3> QED
      BY <3>5, <3>6
  <2> QED
    BY <1>1, <1>2, <2>9, <2>10, TrafficUntouched DEF SendInv
<1> QED
  BY <1>3, <1>4 DEF kernel_yield_user

-----------------------------------------------------------------------------
(* Start, stop, uninitialise *)

\* What kernel_stop and kernel_fini_init have in common: the queues P are
\* emptied, perhaps evq too, and what was in them, ms, is dropped.
Clears(P, lost, ms) ==
  /\ P \subseteq Protos /\ lost \subseteq MsgsIn(evq) /\ evq' \in {evq, <<>>}
  /\ pubq' = [p \in Protos |-> IF p \in P THEN <<>> ELSE pubq[p]]
  /\ \A m \in Msgs : At(evq', m) = IF m \in lost THEN 0 ELSE At(evq, m)
  /\ \A m \in Msgs :
       m \in ms <=> m \in lost \/ \E p \in P : m \in MsgsIn(pubq[p])
  /\ Drop(ms, "cleared")
  /\ running' \in BOOLEAN /\ pc = "out" /\ pc' \in {"out", "bye"}
  /\ UNCHANGED <<link, hand, call, accepted, attempts, receipts, starts>>

LEMMA ClearStep ==
  ASSUME SendInv, NEW P, NEW lost, NEW ms, Clears(P, lost, ms)
  PROVE  SendInv'
<1>1. /\ SendTypeOK /\ InHand /\ OwnQueue /\ OnePlace /\ AcceptedOnce
      /\ AttemptsAddUp /\ HandAddsUp /\ WaitInOrder /\ InOrder
  BY DEF SendInv
<1>2. /\ UNCHANGED <<link, hand, call, accepted, attempts, receipts, starts>>
      /\ pc = "out" /\ pc' \in {"out", "bye"}
  BY DEF Clears
<1>3. \A q \in Protos : \/ q \in P /\ pubq'[q] = <<>>
                        \/ q \notin P /\ pubq'[q] = pubq[q]
  BY DEF Clears
<1>4. P \subseteq Protos
  BY DEF Clears
<1>5. \A q \in Protos : \A i \in DOMAIN pubq'[q] :
        pubq'[q] = pubq[q] /\ i \in DOMAIN pubq[q]
  BY <1>3
<1>6. SendTypeOK'
  <2>1. \A S : <<>> \in Seq(S) /\ Len(<<>>) = 0
    OBVIOUS
  <2>2. pubq' \in [Protos -> Seq(Pubs)]
    BY <1>1, <2>1 DEF SendTypeOK, Clears
  <2>3. \A q \in Protos : Len(pubq'[q]) <= PubMax
    <3>1. \A q \in Protos : Len(pubq[q]) <= PubMax
      BY <1>1 DEF SendTypeOK
    <3>2. \A q \in P : Len(pubq'[q]) = 0
      BY <1>3, <1>4, EmptySeq
    <3>3. 0 <= PubMax
      BY SendAssumption
    <3> TAKE q \in Protos
    <3>4. CASE q \in P
      BY <3>2, <3>3, <3>4
    <3>5. CASE q \notin P
      BY <1>3, <3>1, <3>5
    <3> QED
      BY <3>4, <3>5
  <2>4. evq' \in Seq(Receipts) /\ Len(evq') <= EvMax
    <3>1. evq \in Seq(Receipts) /\ Len(evq) <= EvMax
      BY <1>1 DEF SendTypeOK
    <3>2. evq' = evq \/ evq' = <<>>
      BY DEF Clears
    <3>3. 0 <= EvMax
      BY SendAssumption
    <3> QED
      BY <2>1, <3>1, <3>2, <3>3
  <2>5. dropped' \in [Msgs -> {"no", "cleared", "no_room", "unheard"}]
    BY <1>1 DEF SendTypeOK, Drop, Clears
  <2>6. running' \in BOOLEAN
    BY Zenon DEF Clears
  <2> QED
    BY <1>1, <1>2, <2>2, <2>3, <2>4, <2>5, <2>6 DEF SendTypeOK
<1>7. InHand' /\ OwnQueue' /\ AcceptedOnce' /\ HandAddsUp'
  BY <1>1, <1>5, <1>2
  DEF InHand, OwnQueue, AcceptedOnce, HandAddsUp, Publishing, Protos
<1>8. AttemptsAddUp' /\ WaitInOrder'
  BY <1>1, <1>5, <1>2 DEF AttemptsAddUp, WaitInOrder
<1>9. InOrder'
  <2>1. ASSUME NEW m \in Msgs, Waiting(m)' PROVE Waiting(m)
    <3>1. Proto(m) \in Protos
      BY DEF Proto, Protos
    <3> QED
      BY <1>5, <1>2, <2>1, <3>1 DEF Waiting, MsgsIn
  <2>2. accepted' = accepted /\ attempts' = attempts
    BY <1>2
  <2>3. ASSUME NEW i \in DOMAIN accepted, NEW j \in DOMAIN accepted, i < j,
               Proto(accepted[i]) = Proto(accepted[j]),
               attempts[accepted[j]] > 0
        PROVE  ~Waiting(accepted[i])'
    <3>1. accepted[i] \in Msgs /\ ~Waiting(accepted[i])
      BY <1>1, <2>3, QueuesTyped DEF InOrder
    <3> QED
      BY <2>1, <2>2, <3>1
  <2> QED
    BY <2>2, <2>3 DEF InOrder
<1>10. OnePlace'
  <2> SUFFICES ASSUME NEW m \in Msgs PROVE Copies(m)' = Copies(m)
    BY <1>1, <1>2 DEF OnePlace
  <2>1. /\ Queued(m) \in Nat /\ At(evq, m) \in Nat /\ Len(receipts[m]) \in Nat
        /\ Copies(m) = Queued(m) + At(evq, m) + Len(receipts[m])
             + (IF hand.msg = m THEN 1 ELSE 0)
             + (IF dropped[m] = "no" THEN 0 ELSE 1)
    BY <1>1, Places
  <2>2. Copies(m)' = Queued(m)' + At(evq', m) + Len(receipts[m])
          + (IF hand.msg = m THEN 1 ELSE 0)
          + (IF dropped'[m] = "no" THEN 0 ELSE 1)
    BY <1>6, <1>2, CopiesAfter
  <2>3. Copies(m) \in {0, 1}
    BY <1>1 DEF OnePlace
  <2> DEFINE a == At(pubq["v2"], m)
             b == At(pubq["v3"], m)
             c == At(evq, m)
             a1 == At(pubq'["v2"], m)
             b1 == At(pubq'["v3"], m)
             c1 == At(evq', m)
  <2>4. /\ a \in Nat /\ b \in Nat /\ c \in Nat
        /\ a = 0 <=> m \notin MsgsIn(pubq["v2"])
        /\ b = 0 <=> m \notin MsgsIn(pubq["v3"])
        /\ c = 0 <=> m \notin MsgsIn(evq)
    BY <1>1, Counts
  <2>5. /\ \/ "v2" \in P /\ a1 = 0
           \/ "v2" \notin P /\ a1 = a
        /\ \/ "v3" \in P /\ b1 = 0
           \/ "v3" \notin P /\ b1 = b
    BY <1>3, AtEmpty DEF Protos
  <2>6. \/ m \in lost /\ c1 = 0 /\ c # 0
        \/ m \notin lost /\ c1 = c
    BY <2>4 DEF Clears
  <2>7. dropped'[m] = IF m \in ms THEN "cleared" ELSE dropped[m]
    BY DEF Drop, Clears
  <2>8. m \in ms <=>
          \/ "v2" \in P /\ a # 0
          \/ "v3" \in P /\ b # 0
          \/ m \in lost
    <3>1. m \in ms <=> m \in lost \/ \E p \in P : m \in MsgsIn(pubq[p])
      BY DEF Clears
    <3>2. (\E p \in P : m \in MsgsIn(pubq[p])) <=>
            \/ "v2" \in P /\ m \in MsgsIn(pubq["v2"])
            \/ "v3" \in P /\ m \in MsgsIn(pubq["v3"])
      BY <1>4 DEF Protos
    <3>3. m \in ms <=>
            \/ "v2" \in P /\ m \in MsgsIn(pubq["v2"])
            \/ "v3" \in P /\ m \in MsgsIn(pubq["v3"])
            \/ m \in lost
      BY <3>1, <3>2
    <3>4. /\ a # 0 <=> m \in MsgsIn(pubq["v2"])
          /\ b # 0 <=> m \in MsgsIn(pubq["v3"])
      BY <2>4
    <3> QED
      BY <3>3, <3>4
  <2>9. Queued(m) = a + b /\ Queued(m)' = a1 + b1
    BY DEF Queued
  <2> HIDE DEF a, b, c, a1, b1, c1
  <2>10. CASE m \notin ms
    <3>1. a1 = a /\ b1 = b /\ c1 = c
      BY <2>5, <2>6, <2>8, <2>10
    <3> QED
      BY <2>1, <2>2, <2>7, <2>9, <2>10, <3>1 DEF c, c1
  <2>11. CASE m \in ms
    <3>1. \/ a > 0 /\ a1 = 0
          \/ b > 0 /\ b1 = 0
          \/ c > 0 /\ c1 = 0
      BY <2>4, <2>5, <2>6, <2>8, <2>11
    <3>2. /\ a + b + c = 1 /\ Len(receipts[m]) = 0
          /\ hand.msg # m /\ dropped[m] = "no" /\ Copies(m) = 1
      BY <2>1, <2>3, <2>4, <2>9, <3>1 DEF c
    <3>3. a1 = 0 /\ b1 = 0 /\ c1 = 0
      BY <2>4, <2>5, <2>6, <3>1, <3>2
    <3> QED
      BY <2>2, <2>7, <2>9, <2>11, <3>2, <3>3 DEF c1
  <2> QED
    BY <2>10, <2>11
<1> QED
  BY <1>6, <1>7, <1>8, <1>9, <1>10 DEF SendInv

\* The v2 queue is emptied.
LEMMA StopStep ==
  ASSUME SendInv, kernel_stop
  PROVE  SendInv'
<1>1. /\ Drop(MsgsIn(pubq["v2"]), "cleared") /\ evq' = evq /\ running' = FALSE
      /\ pc = "out" /\ pc' = "bye"
      /\ UNCHANGED <<link, hand, call, accepted, attempts, receipts, starts>>
  BY DEF kernel_stop
<1>2. pubq' = [p \in Protos |-> IF p \in {"v2"} THEN <<>> ELSE pubq[p]]
  BY DEF kernel_stop, SendInv, SendTypeOK, Protos
<1>3. /\ {"v2"} \subseteq Protos /\ {} \subseteq MsgsIn(evq)
      /\ evq' \in {evq, <<>>}
      /\ pc' \in {"out", "bye"}
  BY <1>1 DEF Protos
<1>4. \A m \in Msgs : m \in MsgsIn(pubq["v2"]) <=>
        m \in {} \/ \E p \in {"v2"} : m \in MsgsIn(pubq[p])
  OBVIOUS
<1>5. \A m \in Msgs : At(evq', m) = IF m \in {} THEN 0 ELSE At(evq, m)
  BY <1>1
<1>6. running' \in BOOLEAN
  BY <1>1, Zenon
<1>7. Clears({"v2"}, {}, MsgsIn(pubq["v2"]))
  BY <1>1, <1>2, <1>3, <1>4, <1>5, <1>6, Zenon DEF Clears
<1> QED
  BY <1>7, ClearStep

\* Every queue is emptied.
LEMMA FiniStep ==
  ASSUME SendInv, kernel_fini_init
  PROVE  SendInv'
<1> DEFINE ms == MsgsIn(pubq["v2"]) \cup MsgsIn(pubq["v3"]) \cup MsgsIn(evq)
<1>1. /\ Drop(ms, "cleared") /\ evq' = <<>> /\ running' = running
      /\ pc = "out" /\ pc' = "out"
      /\ UNCHANGED <<link, hand, call, accepted, attempts, receipts, starts>>
  BY DEF kernel_fini_init
<1>2. pubq' = [p \in Protos |-> IF p \in Protos THEN <<>> ELSE pubq[p]]
  BY DEF kernel_fini_init
<1>3. /\ Protos \subseteq Protos /\ MsgsIn(evq) \subseteq MsgsIn(evq)
      /\ evq' \in {evq, <<>>}
      /\ pc' \in {"out", "bye"}
  BY <1>1
<1>4. \A m \in Msgs : m \in ms <=>
        m \in MsgsIn(evq) \/ \E p \in Protos : m \in MsgsIn(pubq[p])
  BY DEF Protos
<1>5. \A m \in Msgs : At(evq', m) = IF m \in MsgsIn(evq) THEN 0 ELSE At(evq, m)
  <2> TAKE m \in Msgs
  <2>1. At(evq', m) = 0
    BY <1>1, AtEmpty
  <2>2. At(evq, m) = 0 <=> m \notin MsgsIn(evq)
    BY Counts DEF SendInv
  <2> QED
    BY <2>1, <2>2
<1> HIDE DEF ms
<1>6. running' \in BOOLEAN
  BY <1>1, Zenon DEF SendInv, SendTypeOK
<1>7. Clears(Protos, MsgsIn(evq), ms)
  BY <1>1, <1>2, <1>3, <1>4, <1>5, <1>6, Zenon DEF Clears
<1> QED
  BY <1>7, ClearStep

\* The offline message is pushed, if there is room; it is no caller's.
LEMMA OfflineStep ==
  ASSUME SendInv, kernel_stop_offline
  PROVE  SendInv'
<1> DEFINE e == [msg |-> Bye, left |-> 1]
<1>1. /\ SendTypeOK /\ InHand /\ OwnQueue /\ OnePlace /\ AcceptedOnce
      /\ AttemptsAddUp /\ HandAddsUp /\ WaitInOrder /\ InOrder
  BY DEF SendInv
<1>2. /\ pc = "bye" /\ pc' \in {"v2", "ended"}
      /\ UNCHANGED <<running, link, hand, evq, call, accepted, attempts,
                     receipts, dropped, starts>>
  BY DEF kernel_stop_offline, history
<1>3. InHand' /\ AcceptedOnce'
  BY <1>1, <1>2 DEF InHand, AcceptedOnce, Publishing, Protos
<1>4. CASE pubq' = pubq
  <2>1. SendTypeOK' /\ OnePlace'
    BY <1>1, <1>2, <1>4 DEF SendTypeOK, OnePlace, Copies, Protos
  <2> QED
    BY <1>2, <1>3, <1>4, <2>1, TrafficUntouched DEF SendInv
<1>5. CASE Room(pubq["v2"]) /\ pubq' = [pubq EXCEPT !["v2"] = Append(@, e)]
  <2>1. /\ e \in Pubs /\ e.msg = Bye /\ "v2" \in Protos /\ Proto(e.msg) = "v2"
        /\ Bye \notin Msgs
    BY SendAssumption DEF Pubs, Protos, Proto, Msgs
  <2> HIDE DEF e
  <2>2. /\ pubq' \in [Protos -> Seq(Pubs)]
        /\ \A q \in Protos : Len(pubq'[q]) <= PubMax
        /\ \A q \in Protos \ {"v2"} : pubq'[q] = pubq[q]
        /\ DOMAIN pubq'["v2"] = 1..(Len(pubq["v2"]) + 1)
        /\ \A i \in 1..Len(pubq["v2"]) : pubq'["v2"][i] = pubq["v2"][i]
        /\ pubq'["v2"][Len(pubq["v2"]) + 1] = e
        /\ MsgsIn(pubq'["v2"]) = MsgsIn(pubq["v2"]) \cup {e.msg}
        /\ OwnQueue'
        /\ \A m \in Msgs : Queued(m)' =
             Queued(m) + (IF e.msg = m THEN 1 ELSE 0)
    BY <1>1, <1>5, <2>1, QueueAppend
  <2>3. \A q \in Protos : DOMAIN pubq[q] = 1..Len(pubq[q]) /\ Len(pubq[q]) \in Nat
    BY <1>1, QueuesTyped
  <2>4. \A q \in Protos : \A i \in DOMAIN pubq'[q] :
          \/ i \in DOMAIN pubq[q] /\ pubq'[q][i] = pubq[q][i]
          \/ q = "v2" /\ i = Len(pubq[q]) + 1 /\ pubq'[q][i].msg = Bye
    BY <2>1, <2>2, <2>3
  <2>5. SendTypeOK'
    BY <1>1, <1>2, <2>2 DEF SendTypeOK, Protos
  <2>6. AttemptsAddUp' /\ HandAddsUp'
    BY <1>1, <1>2, <2>4 DEF AttemptsAddUp, HandAddsUp
  <2>7. OnePlace'
    <3> SUFFICES ASSUME NEW m \in Msgs PROVE Copies(m)' = Copies(m)
      BY <1>1, <1>2 DEF OnePlace
    <3>1. Queued(m)' = Queued(m)
      BY <1>1, <2>1, <2>2, Places
    <3> QED
      BY <1>1, <1>2, <2>5, <3>1, Places, CopiesAfter
  <2>8. \A x : Before(accepted, x, Bye)
    BY <1>1, <2>1, QueuesTyped DEF Before
  <2>9. WaitInOrder'
    <3>1. ASSUME NEW q \in Protos, NEW i \in DOMAIN pubq'[q],
                 NEW j \in DOMAIN pubq'[q], i < j
          PROVE  Before(accepted, pubq'[q][i].msg, pubq'[q][j].msg)
      <4>1. CASE j \in DOMAIN pubq[q] /\ pubq'[q][j] = pubq[q][j]
        <5>1. i \in DOMAIN pubq[q] /\ pubq'[q][i] = pubq[q][i]
          BY <2>2, <2>3, <2>4, <3>1, <4>1
        <5> QED
          BY <1>1, <3>1, <4>1, <5>1 DEF WaitInOrder
      <4>2. CASE pubq'[q][j].msg = Bye
        BY <2>8, <4>2
      <4> QED
        BY <2>4, <4>1, <4>2
    <3>2. ASSUME NEW q \in Protos, NEW i \in DOMAIN pubq'[q], Proto(hand.msg) = q
          PROVE  Before(accepted, hand.msg, pubq'[q][i].msg)
      BY <1>1, <2>4, <2>8, <3>2 DEF WaitInOrder
    <3> QED
      BY <1>2, <3>1, <3>2 DEF WaitInOrder
  <2>10. InOrder'
    <3>1. ASSUME NEW m \in Msgs, Waiting(m)' PROVE Waiting(m)
      BY <1>2, <2>1, <2>2, <3>1 DEF Waiting, Proto, Protos
    <3> QED
      BY <1>1, <1>2, <3>1, QueuesTyped DEF InOrder
  <2> QED
    BY <1>3, <2>2, <2>5, <2>6, <2>7, <2>9, <2>10 DEF SendInv
<1> QED
  BY <1>4, <1>5 DEF kernel_stop_offline

-----------------------------------------------------------------------------
(* The theorems *)

LEMMA SendInductive == SendInv /\ [Next]_vars => SendInv'
<1> SUFFICES ASSUME SendInv, [Next]_vars PROVE SendInv'
  OBVIOUS
<1>1. CASE Senders
  BY <1>1, CheckStep, PushStep DEF Senders
<1>2. CASE Yield
  BY <1>2, QuietStep, PopStep, ReceiptStep, AgainStep, UserStep
  DEF Yield, Send
<1>3. CASE Stopping
  BY <1>3, OfflineStep, QuietStep DEF Stopping
<1>4. CASE kernel_start \/ kernel_stop \/ kernel_fini_init
  BY <1>4, QuietStep, StopStep, FiniStep
<1>5. CASE UNCHANGED vars
  <2>1. /\ UNCHANGED <<running, link, pc, pubq, hand, evq, call, starts>>
        /\ UNCHANGED <<accepted, attempts, receipts, dropped>>
    BY <1>5 DEF vars, queues, history
  <2>2. SendTypeOK' /\ InHand' /\ AcceptedOnce' /\ OnePlace'
    BY <2>1 DEF SendInv, SendTypeOK, InHand, AcceptedOnce, OnePlace, Copies
  <2> QED
    BY <2>1, <2>2, TrafficUntouched DEF SendInv
<1> QED
  BY <1>1, <1>2, <1>3, <1>4, <1>5 DEF Next

\* The inductive invariant: every accepted message has one place, waits in
\* the order it was accepted, and its attempts add up.
THEOREM SendInvariant == Spec => []SendInv
  BY SendInit, SendInductive, PTL DEF Spec

\* The queues keep to their capacities and every variable to its type.
THEOREM SendTypes == Spec => []SendTypeOK
<1>1. SendInv => SendTypeOK
  BY DEF SendInv
<1> QED
  BY <1>1, SendInvariant, PTL

\* No message is sent from two places, none gets two receipts, none
\* vanishes: whatever the retries, full queues, stops and restarts.
THEOREM EveryMessageOnePlace == Spec => []OnePlace
<1>1. SendInv => OnePlace
  BY DEF SendInv
<1> QED
  BY <1>1, SendInvariant, PTL

\* Nothing is published more than ezdev_sdk_max_publish_count times, and no
\* attempt of a waiting message is lost or counted twice.
THEOREM AttemptsBounded == Spec => []AttemptsAddUp
<1>1. SendInv => AttemptsAddUp
  BY DEF SendInv
<1> QED
  BY <1>1, SendInvariant, PTL

\* Messages of one protocol version are published in the order they were
\* accepted, a retried one before all that were accepted after it.
THEOREM PublishedInOrder == Spec => []InOrder
<1>1. SendInv => InOrder
  BY DEF SendInv
<1> QED
  BY <1>1, SendInvariant, PTL
=============================================================================
