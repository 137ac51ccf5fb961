----------------------------- MODULE KernelSend -----------------------------
(***************************************************************************)
(* The way of a message from ezdev_sdk_kernel_send / _send_v3 to the       *)
(* platform and of its acknowledgement back to the caller                  *)
(* (src/microkernel/src: ezdev_sdk_kernel.c, das_transport.c, the queues   *)
(* of ezdev_sdk_kerne_queuel.h, ezdev_sdk_kernel_event.c and _extend.c).   *)
(*                                                                         *)
(* Any thread pushes onto two bounded queues, one per protocol version.    *)
(* The thread that drives the kernel alternates kernel_yield, which sends  *)
(* at most one message of each queue, and kernel_yield_user, which         *)
(* delivers one event.  A message taken off its queue is in hand, without  *)
(* any lock, while PUBACK is awaited.  Of the link only whether it is      *)
(* registered matters here; KernelAccess says how it gets there.           *)
(***************************************************************************)
EXTENDS Naturals, Sequences, FiniteSets

CONSTANTS Msgs2, Msgs3,  \* messages handed to kernel_send, kernel_send_v3
          Bye,           \* the offline message kernel_stop sends
          NoMsg,         \* nothing in hand; an event that is no receipt
          PubMax,        \* capacity of a publish queue (16)
          EvMax,         \* capacity of the event queue (64)
          PublishMax,    \* ezdev_sdk_max_publish_count (2)
          StartMax       \* bound: calls of kernel_start

Msgs == Msgs2 \cup Msgs3

ASSUME SendAssumption ==
  /\ Msgs2 \cap Msgs3 = {} /\ Bye \notin Msgs
  /\ NoMsg \notin Msgs \cup {Bye}
  /\ {PubMax, EvMax, PublishMax} \subseteq Nat \ {0} /\ StartMax \in Nat

VARIABLES running,   \* my_state is sdk_start
          link,      \* cnt_state: "up" is sdk_cnt_das_reged
          pc,        \* where the driving thread is
          pubq,      \* g_queue_pubmsg_exchange and its _v3
          hand,      \* ptr_pubmsg_exchange of send_message_to_das_v2 / _v3
          evq,       \* g_queue_inner_cb_notic
          call,      \* how far the sender of a message has come
          accepted,  \* messages pushed, in that order
          attempts,  \* how often MQTTPublish was called for a message
          receipts,  \* receipts delivered: TRUE is ezdev_sdk_kernel_succ
          dropped,   \* why a message will get no receipt
          starts

queues == <<pubq, hand, evq>>
history == <<accepted, attempts, receipts, dropped>>
vars == <<running, link, pc, queues, call, history, starts>>

Protos == {"v2", "v3"}
Proto(m) == IF m \in Msgs3 THEN "v3" ELSE "v2"
Pubs == [msg : Msgs \cup {Bye}, left : 1..PublishMax]
Idle == [msg |-> NoMsg, left |-> PublishMax]
Receipts == [msg : Msgs \cup {Bye, NoMsg}, ok : BOOLEAN]
Other == [msg |-> NoMsg, ok |-> FALSE]
Publishing(p) == IF p = "v2" THEN "publish_v2" ELSE "publish_v3"

SendTypeOK ==
  /\ running \in BOOLEAN /\ link \in {"up", "broken"}
  /\ pc \in {"out", "user", "bye", "ended", "publish_v2", "publish_v3"}
              \cup Protos
  /\ pubq \in [Protos -> Seq(Pubs)]
  /\ \A p \in Protos : Len(pubq[p]) <= PubMax
  /\ hand \in Pubs \cup {Idle}
  /\ evq \in Seq(Receipts) /\ Len(evq) <= EvMax
  /\ call \in [Msgs -> {"new", "checked", "queued", "refused"}]
  /\ accepted \in Seq(Msgs)
  /\ attempts \in [Msgs \cup {Bye} -> Nat]
  /\ receipts \in [Msgs -> Seq(BOOLEAN)]
  /\ dropped \in [Msgs -> {"no", "cleared", "no_room", "unheard"}]
  /\ starts \in 0..StartMax

Init ==
  /\ running = FALSE /\ link = "broken" /\ pc = "out"
  /\ pubq = [p \in Protos |-> <<>>] /\ hand = Idle /\ evq = <<>>
  /\ call = [m \in Msgs |-> "new"] /\ accepted = <<>>
  /\ attempts = [m \in Msgs \cup {Bye} |-> 0]
  /\ receipts = [m \in Msgs |-> <<>>] /\ dropped = [m \in Msgs |-> "no"]
  /\ starts = 0

Drop(ms, why) ==
  dropped' = [m \in Msgs |-> IF m \in ms THEN why ELSE dropped[m]]

MsgsIn(q) == {q[i].msg : i \in DOMAIN q}

-----------------------------------------------------------------------------
(* ezdev_sdk_kernel_send, from any thread: my_state is read without a lock *)

kernel_send_check(m) ==
  /\ call[m] = "new" /\ running
  /\ call' = [call EXCEPT ![m] = "checked"]
  /\ UNCHANGED <<running, link, pc, queues, history, starts>>

\* Fault: one message too many.
RoomOffByOne(q) == Len(q) <= PubMax

Room(q) == Len(q) < PubMax

kernel_send_push(m) ==
  /\ call[m] = "checked"
  /\ LET q == pubq[Proto(m)]
     IN  \/ /\ Room(q)
            /\ pubq' = [pubq EXCEPT ![Proto(m)] =
                          Append(q, [msg |-> m, left |-> PublishMax])]
            /\ accepted' = Append(accepted, m)
            /\ call' = [call EXCEPT ![m] = "queued"]
         \/ /\ ~Room(q)
            /\ call' = [call EXCEPT ![m] = "refused"]
            /\ UNCHANGED <<pubq, accepted>>
  /\ UNCHANGED <<running, link, pc, hand, evq, attempts, receipts, dropped>>
  /\ UNCHANGED starts

-----------------------------------------------------------------------------
(* das_yield: das_message_send tries one message of each queue *)

\* kernel_yield returns, or kernel_stop goes on to stop_yield.
Left == IF running THEN "user" ELSE "ended"

\* Fault: das_message_send stops at an empty v2 queue.
TurnOnce(p) == Left

\* v2 first, then v3 if v2 was empty or went well.
Turn(p) == IF p = "v2" THEN "v3" ELSE Left

\* push_event_to_queue: the thread that waits for room is the one that
\* would make it, so a full queue ends in a refusal after 51 tries.
Broadcast(e) == evq' = IF Len(evq) < EvMax THEN Append(evq, e) ELSE evq

das_yield_begin ==
  /\ pc = "out" /\ running /\ link = "up"
  /\ pc' = "v2"
  /\ UNCHANGED <<running, link, queues, call, history, starts>>

\* Socket error or heart beat timeout noticed before anything is sent.
das_yield_broken ==
  /\ pc = "v2"
  /\ link' = "broken" /\ pc' = Left
  /\ Broadcast(Other)
  /\ UNCHANGED <<running, pubq, hand, call, history, starts>>

send_message_pop(p) ==
  /\ pc = p
  /\ IF pubq[p] = <<>>
       THEN /\ pc' = Turn(p)
            /\ UNCHANGED <<pubq, hand>>
       ELSE /\ hand' = Head(pubq[p])
            /\ pubq' = [pubq EXCEPT ![p] = Tail(@)]
            /\ pc' = Publishing(p)
  /\ UNCHANGED <<running, link, evq, call, history, starts>>

\* broadcast_runtime_err with the receipt; whoever sent Bye wants none.
Receipt(ok) ==
  /\ Broadcast([msg |-> hand.msg, ok |-> ok])
  /\ Drop(IF Len(evq) < EvMax THEN {} ELSE {hand.msg}, "unheard")

Attempted == attempts' = [attempts EXCEPT ![hand.msg] = @ + 1]

\* Fault: the last attempt fails like the ones before it.
MayRetryAlways == TRUE

\* max_send_count-- > 1
MayRetry == hand.left > 1

\* PUBACK came in time.
send_message_ok(p) ==
  /\ pc = Publishing(p)
  /\ Attempted /\ Receipt(TRUE)
  /\ hand' = Idle /\ pc' = Turn(p)
  /\ UNCHANGED <<running, link, pubq, call, accepted, receipts, starts>>

\* Never published: its domain or command is under risk control, or there
\* is no memory to encrypt it.
send_message_rejected(p) ==
  /\ pc = Publishing(p)
  /\ Receipt(FALSE)
  /\ hand' = Idle /\ pc' = Left
  /\ UNCHANGED <<running, link, pubq, call, accepted, attempts, receipts, starts>>

Again == [hand EXCEPT !.left = @ - 1]

\* Fault: the message goes back to the end of the queue.
BackAtTail(p) == pubq' = [pubq EXCEPT ![p] = Append(@, Again)]

\* push_queue_head_pubmsg_exchange
BackAtHead(p) == pubq' = [pubq EXCEPT ![p] = <<Again>> \o @]

\* Fault: a missing return, the receipt is sent as well.
send_message_again_FallsThrough(p) ==
  /\ pc = Publishing(p) /\ MayRetry
  /\ Attempted /\ Room(pubq[p])
  /\ BackAtHead(p)
  /\ hand' = Idle
  /\ link' = "broken" /\ pc' = Left
  /\ Receipt(FALSE)
  /\ UNCHANGED <<running, call, accepted, receipts, starts>>

\* MQTTPublish failed, whether the platform got the message or not (a message
\* too long for the MQTT buffer fails this way too): back to the head of the
\* queue, which other threads may have filled meanwhile, and reconnect.
send_message_again(p) ==
  /\ pc = Publishing(p) /\ MayRetry
  /\ Attempted
  /\ \/ /\ Room(pubq[p])
        /\ BackAtHead(p)
        /\ UNCHANGED dropped
     \/ /\ ~Room(pubq[p])
        /\ Drop({hand.msg}, "no_room")
        /\ UNCHANGED pubq
  /\ hand' = Idle
  /\ link' = "broken" /\ pc' = Left
  /\ Broadcast(Other)
  /\ UNCHANGED <<running, call, accepted, receipts, starts>>

\* The last attempt failed: a receipt, and the link is left as it is.
send_message_failed(p) ==
  /\ pc = Publishing(p) /\ ~MayRetry
  /\ Attempted /\ Receipt(FALSE)
  /\ hand' = Idle /\ pc' = Left
  /\ UNCHANGED <<running, link, pubq, call, accepted, receipts, starts>>

\* kernel_yield while the link is not registered: an attempt that brings it
\* back, or one that does not, or the back-off timer.
kernel_yield_link ==
  /\ pc = "out" /\ running /\ link = "broken"
  /\ pc' = "user"
  /\ \/ link' = "up" /\ Broadcast(Other)
     \/ UNCHANGED <<link, evq>>
  /\ UNCHANGED <<running, pubq, hand, call, history, starts>>

-----------------------------------------------------------------------------
(* ezdev_sdk_kernel_yield_user: consume_extend_event, one event a call *)

kernel_yield_user ==
  /\ pc = "user" /\ pc' = "out"
  /\ IF evq = <<>>
       THEN UNCHANGED <<evq, receipts>>
       ELSE /\ evq' = Tail(evq)
            /\ receipts' = [m \in Msgs |-> IF m = Head(evq).msg
                              THEN Append(receipts[m], Head(evq).ok)
                              ELSE receipts[m]]
  /\ UNCHANGED <<running, link, pubq, hand, call, accepted, attempts>>
  /\ UNCHANGED <<dropped, starts>>

-----------------------------------------------------------------------------
(* Start, stop, uninitialise: ezdev_sdk_kernel.c *)

kernel_start ==
  /\ ~running /\ pc = "out" /\ starts < StartMax
  /\ running' = TRUE /\ starts' = starts + 1
  /\ Broadcast(Other)
  /\ UNCHANGED <<link, pc, pubq, hand, call, history>>

\* my_state and clear_queue_pubmsg_exchange; the v3 queue is left alone.
kernel_stop ==
  /\ running /\ pc = "out"
  /\ running' = FALSE /\ pc' = "bye"
  /\ pubq' = [pubq EXCEPT !["v2"] = <<>>]
  /\ Drop(MsgsIn(pubq["v2"]), "cleared")
  /\ UNCHANGED <<link, hand, evq, call, accepted, attempts, receipts, starts>>

\* send_offline_msg_to_platform, then one round if the link is registered.
kernel_stop_offline ==
  /\ pc = "bye"
  /\ pubq' = IF Room(pubq["v2"])
               THEN [pubq EXCEPT !["v2"] =
                       Append(@, [msg |-> Bye, left |-> 1])]
               ELSE pubq
  /\ pc' = IF link = "up" THEN "v2" ELSE "ended"
  /\ UNCHANGED <<running, link, hand, evq, call, history, starts>>

stop_yield ==
  /\ pc = "ended"
  /\ link' = "broken" /\ pc' = "out"
  /\ UNCHANGED <<running, queues, call, history, starts>>

\* fini_queue frees every queue.  The header says fini is not thread safe:
\* no call of kernel_send is under way.
kernel_fini_init ==
  /\ ~running /\ pc = "out" /\ starts > 0
  /\ \A m \in Msgs : call[m] # "checked"
  /\ pubq' = [p \in Protos |-> <<>>] /\ evq' = <<>>
  /\ Drop(MsgsIn(pubq["v2"]) \cup MsgsIn(pubq["v3"]) \cup MsgsIn(evq),
          "cleared")
  /\ UNCHANGED <<running, link, pc, hand, call, accepted, attempts>>
  /\ UNCHANGED <<receipts, starts>>

-----------------------------------------------------------------------------
Senders == \E m \in Msgs : kernel_send_check(m) \/ kernel_send_push(m)

Send(p) ==
  \/ send_message_pop(p) \/ send_message_ok(p) \/ send_message_rejected(p)
  \/ send_message_again(p) \/ send_message_failed(p)

Yield ==
  \/ das_yield_begin \/ das_yield_broken \/ kernel_yield_link
  \/ kernel_yield_user
  \/ \E p \in Protos : Send(p)

Stopping == kernel_stop_offline \/ stop_yield

Next ==
  \/ Senders \/ Yield \/ Stopping
  \/ kernel_start \/ kernel_stop \/ kernel_fini_init

Spec == Init /\ [][Next]_vars

(***************************************************************************)
(* Fairness: the driving thread and a thread inside kernel_send are        *)
(* scheduled, the link is not refused for ever and not lost for ever just  *)
(* before a message is taken.                                              *)
(***************************************************************************)
LiveSpec ==
  /\ Spec
  /\ WF_vars(Yield \/ Stopping)
  /\ WF_vars(\E m \in Msgs : kernel_send_push(m))
  /\ SF_vars(kernel_yield_link /\ link' = "up")
  /\ \A p \in Protos : SF_vars(send_message_pop(p))

-----------------------------------------------------------------------------
(* Properties *)

\* How often a message occurs in a queue, and in the program as a whole.
At(q, m) == Cardinality({i \in DOMAIN q : q[i].msg = m})

Copies(m) ==
  At(pubq["v2"], m) + At(pubq["v3"], m) + At(evq, m) + Len(receipts[m])
    + (IF hand.msg = m THEN 1 ELSE 0)
    + (IF dropped[m] = "no" THEN 0 ELSE 1)

\* An accepted message is in exactly one place: a queue, the hand of the
\* driving thread, a receipt under way or delivered, or dropped for a named
\* reason.  None is sent from two places, none gets two receipts, none
\* vanishes (das_transport.c, the frees after broadcast_runtime_err).
OnePlace ==
  \A m \in Msgs : Copies(m) = IF call[m] = "queued" THEN 1 ELSE 0

\* What is left of the attempts of a message and what was spent add up,
\* wherever retries, restarts and the queue have taken it: nothing is
\* published more than ezdev_sdk_max_publish_count times.
AttemptsAddUp ==
  /\ \A m \in Msgs : attempts[m] <= PublishMax
  /\ \A p \in Protos : \A i \in DOMAIN pubq[p] :
       LET pub == pubq[p][i]
       IN  pub.msg # Bye => pub.left + attempts[pub.msg] = PublishMax

Waiting(m) == hand.msg = m \/ m \in MsgsIn(pubq[Proto(m)])

\* Messages of one protocol version are first published in the order they
\* were accepted, and a retry is not overtaken: once a message has been
\* tried, no earlier one is still waiting (push_queue_head_pubmsg_exchange).
InOrder ==
  \A i, j \in DOMAIN accepted :
    /\ i < j /\ Proto(accepted[i]) = Proto(accepted[j])
    /\ attempts[accepted[j]] > 0
    => ~Waiting(accepted[i])

\* Every accepted message comes to an end while the kernel runs: neither the
\* other queue's traffic nor failing attempts hold it for ever.
Settled(m) == receipts[m] # <<>> \/ dropped[m] # "no"
Settles ==
  \A m \in Msgs : (call[m] = "queued") ~> (Settled(m) \/ ~running)

\* ezdev_sdk_kernel_struct.h:120 and :134: the sender's externel_ctx "is
\* brought back in the receipt of the message": while the kernel is not
\* stopped a message does not end without one.
ReceiptBrought == \A m \in Msgs : dropped[m] \in {"no", "cleared"}

-----------------------------------------------------------------------------
(* The inductive invariant behind OnePlace, AttemptsAddUp and InOrder *)

\* Something is in hand exactly while a publish call is under way, and each
\* queue and publish call has messages of its own protocol version only.
InHand ==
  /\ \A p \in Protos : pc = Publishing(p) =>
       hand.msg # NoMsg /\ Proto(hand.msg) = p
  /\ pc \notin {Publishing(p) : p \in Protos} => hand = Idle

OwnQueue == \A p \in Protos : \A i \in DOMAIN pubq[p] : Proto(pubq[p][i].msg) = p

\* A message is accepted once, and published only after it was accepted.
AcceptedOnce ==
  /\ \A i \in DOMAIN accepted : call[accepted[i]] = "queued"
  /\ \A i, j \in DOMAIN accepted : accepted[i] = accepted[j] => i = j
  /\ \A m \in Msgs : call[m] # "queued" => attempts[m] = 0

HandAddsUp ==
  hand.msg \in Msgs => hand.left + attempts[hand.msg] = PublishMax

\* In this order in a sequence, if both are.
Before(s, x, y) ==
  \A i, j \in DOMAIN s : s[i] = x /\ s[j] = y => i < j

\* Messages wait in the order they were accepted, the one in hand first.
WaitInOrder ==
  \A p \in Protos : \A i \in DOMAIN pubq[p] :
    /\ \A j \in DOMAIN pubq[p] :
         i < j => Before(accepted, pubq[p][i].msg, pubq[p][j].msg)
    /\ Proto(hand.msg) = p => Before(accepted, hand.msg, pubq[p][i].msg)

SendInv ==
  /\ SendTypeOK /\ InHand /\ OwnQueue /\ OnePlace
  /\ AcceptedOnce /\ AttemptsAddUp /\ HandAddsUp /\ WaitInOrder /\ InOrder
=============================================================================
