--------------------------- MODULE IotSessionProof ---------------------------
(***************************************************************************)
(* Theorems about IotSession, for every set of servers, queue capacity and *)
(* bound.  The kernel's own invariant is taken from KernelAccessProof: a   *)
(* session step is a kernel step, or one of the few that start and stop at *)
(* once or lose power.                                                     *)
(***************************************************************************)
EXTENDS IotSession, KernelAccessProof, SequenceTheorems

Notices == [kind : Kinds, srv : MaybeServer]

\* n events, none of which announces a switch of server.
Quiet(es, n) ==
  /\ es \in Seq(Notices) /\ Len(es) = n
  /\ \A k \in 1..n : es[k].kind # "switchover"

-----------------------------------------------------------------------------
(* Lists of events and the event queue *)

LEMMA QuietConcat ==
  ASSUME NEW m \in Nat, NEW n \in Nat, NEW a, NEW b, Quiet(a, m), Quiet(b, n)
  PROVE  Quiet(a \o b, m + n)
<1>1. /\ a \in Seq(Notices) /\ Len(a) = m /\ b \in Seq(Notices) /\ Len(b) = n
      /\ \A k \in 1..m : a[k].kind # "switchover"
      /\ \A k \in 1..n : b[k].kind # "switchover"
  BY DEF Quiet
<1>2. /\ a \o b \in Seq(Notices) /\ Len(a \o b) = m + n
      /\ \A k \in 1..(m + n) :
           (a \o b)[k] = IF k <= m THEN a[k] ELSE b[k - m]
  BY <1>1, ConcatProperties
<1>3. ASSUME NEW k \in 1..(m + n) PROVE (a \o b)[k].kind # "switchover"
  <2>1. CASE k <= m
    BY <1>1, <1>2, <2>1
  <2>2. CASE ~(k <= m)
    <3>1. k - m \in 1..n
      BY <2>2
    <3> QED
      BY <1>1, <1>2, <2>2, <3>1
  <2> QED
    BY <2>1, <2>2
<1> QED
  BY <1>2, <1>3 DEF Quiet

LEMMA QuietEvents ==
  /\ Quiet(<<>>, 0)
  /\ Quiet(<<Event("start")>>, 1) /\ Quiet(<<Event("online")>>, 1)
  /\ Quiet(<<Event("reconnect")>>, 1) /\ Quiet(Err, 1) /\ Quiet(Break, 1)
<1>1. ASSUME NEW k \in Kinds \ {"switchover"} PROVE Quiet(<<Event(k)>>, 1)
  <2>1. Event(k) \in Notices /\ Event(k).kind # "switchover"
    BY DEF Event, Notices, MaybeServer
  <2> HIDE DEF Event
  <2> QED
    BY <2>1 DEF Quiet
<1>2. {"start", "online", "reconnect", "err", "break"} \subseteq Kinds
  BY DEF Kinds, Events, OnlineEvents
<1> QED
  BY <1>1, <1>2 DEF Quiet, Err, Break

\* What a failed reconnection broadcasts: three events at most, more than
\* two only at the limit of retries or on a re-direction.
LEMMA QuietRetry ==
  ASSUME NEW err
  PROVE  \E n \in 1..3 :
           /\ Quiet(RetryEvents(err), n)
           /\ n > 1 => das_retry_times >= BreakRetryMax \/ err = "redirect"
           /\ n > 2 => das_retry_times >= BreakRetryMax
<1>1. Quiet(Err, 1) /\ Quiet(Break, 1) /\ Quiet(<<>>, 0)
  BY QuietEvents
<1>2. /\ Quiet(Err \o <<>>, 1) /\ Quiet(Err \o Break, 2)
  BY <1>1, QuietConcat
<1>3. /\ Quiet((Err \o <<>>) \o <<>>, 1) /\ Quiet((Err \o <<>>) \o Break, 2)
      /\ Quiet((Err \o Break) \o <<>>, 2) /\ Quiet((Err \o Break) \o Break, 3)
  BY <1>1, <1>2, QuietConcat
<1>4. CASE das_retry_times >= BreakRetryMax /\ err = "redirect"
  BY <1>3, <1>4 DEF RetryEvents
<1>5. CASE das_retry_times >= BreakRetryMax /\ err # "redirect"
  BY <1>3, <1>5 DEF RetryEvents
<1>6. CASE ~(das_retry_times >= BreakRetryMax) /\ err = "redirect"
  BY <1>3, <1>6 DEF RetryEvents
<1>7. CASE ~(das_retry_times >= BreakRetryMax) /\ err # "redirect"
  BY <1>3, <1>7 DEF RetryEvents
<1> QED
  BY <1>4, <1>5, <1>6, <1>7

\* What is in the queue after a broadcast was in it or in the list, and the
\* list comes last.
LEMMA BroadcastProperties ==
  ASSUME evq \in Seq(Notices), NEW es, es \in Seq(Notices), Broadcast(es)
  PROVE  /\ evq' \in Seq(Notices)
         /\ Len(evq') \in Nat /\ Len(evq') <= Len(evq) + Len(es)
         /\ \A i \in DOMAIN evq' :
              \/ i \in DOMAIN evq /\ evq'[i] = evq[i]
              \/ i - Len(evq) \in DOMAIN es /\ evq'[i] = es[i - Len(evq)]
         /\ Len(evq) <= EvMax =>
              \A i \in DOMAIN evq : i \in DOMAIN evq' /\ evq'[i] = evq[i]
         /\ Len(evq) + Len(es) <= EvMax => evq' = evq \o es
<1> DEFINE q == evq \o es
<1>1. /\ Len(evq) \in Nat /\ DOMAIN evq = 1..Len(evq)
      /\ Len(es) \in Nat /\ DOMAIN es = 1..Len(es)
  BY LenProperties
<1>2. /\ q \in Seq(Notices) /\ Len(q) = Len(evq) + Len(es)
      /\ \A i \in 1..Len(evq) : q[i] = evq[i]
      /\ \A i \in 1..(Len(evq) + Len(es)) :
           i > Len(evq) => q[i] = es[i - Len(evq)]
  BY <1>1, ConcatProperties
<1>3. evq' = IF Len(q) <= EvMax THEN q ELSE SubSeq(q, 1, EvMax)
  BY DEF Broadcast
<1>4. EvMax \in Nat
  BY SessionAssumption
<1> HIDE DEF q
<1>5. /\ evq' \in Seq(Notices) /\ Len(evq') \in Nat
      /\ Len(evq') = IF Len(q) <= EvMax THEN Len(q) ELSE EvMax
      /\ DOMAIN evq' = 1..Len(evq')
      /\ \A i \in DOMAIN evq' : evq'[i] = q[i]
  <2>1. CASE Len(q) <= EvMax
    BY <1>1, <1>2, <1>3, <2>1, LenProperties
  <2>2. CASE ~(Len(q) <= EvMax)
    <3>1. evq' = SubSeq(q, 1, EvMax) /\ EvMax \in 0..Len(q)
      BY <1>1, <1>2, <1>3, <1>4, <2>2
    <3>2. /\ SubSeq(q, 1, EvMax) \in Seq(Notices)
          /\ Len(SubSeq(q, 1, EvMax)) = EvMax
          /\ \A i \in 1..EvMax : SubSeq(q, 1, EvMax)[i] = q[i]
      BY <1>1, <1>2, <1>4, <3>1, SubSeqProperties
    <3> QED
      BY <1>4, <2>2, <3>1, <3>2, LenProperties
  <2> QED
    BY <2>1, <2>2
<1>6. ASSUME NEW i \in DOMAIN evq'
      PROVE  \/ i \in DOMAIN evq /\ evq'[i] = evq[i]
             \/ i - Len(evq) \in DOMAIN es /\ evq'[i] = es[i - Len(evq)]
  BY <1>1, <1>2, <1>4, <1>5, <1>6
<1>7. ASSUME Len(evq) <= EvMax, NEW i \in DOMAIN evq
      PROVE  i \in DOMAIN evq' /\ evq'[i] = evq[i]
  BY <1>1, <1>2, <1>4, <1>5, <1>7
<1>8. Len(evq) + Len(es) <= EvMax => evq' = evq \o es
  BY <1>2, <1>3 DEF q
<1> QED
  BY <1>1, <1>2, <1>4, <1>5, <1>6, <1>7, <1>8

\* No queue holds more for a name in it to be lost or be made up.
LEMMA NamedKept ==
  ASSUME evq \in Seq(Notices), NEW es, es \in Seq(Notices), Broadcast(es),
         Named, my_state' \notin {"idle0", "idle"}, server_name' \in Servers,
         \A k \in DOMAIN es : es[k].kind = "switchover" => es[k].srv \in Servers
  PROVE  Named'
  BY BroadcastProperties DEF Named

\* Types of the queue, and what the conjuncts of the invariant say.
LEMMA SessionFacts ==
  ASSUME SessionInv
  PROVE  /\ AccessInv /\ SessionTypeOK /\ SingleDriver /\ Named /\ KeyInStore
         /\ Backlog /\ TypeOK /\ ControlInv
         /\ evq \in Seq(Notices) /\ Len(evq) \in Nat /\ starts \in Nat
  BY LenProperties DEF SessionInv, SessionTypeOK, AccessInv, Notices

\* A broadcast without a switch of server.
LEMMA QuietBroadcast ==
  ASSUME SessionInv, NEW n \in Nat, NEW es, Quiet(es, n), Broadcast(es)
  PROVE  /\ evq' \in Seq(Notices) /\ Len(evq') \in Nat
         /\ Len(evq') <= Len(evq) + n
         /\ /\ my_state' \notin {"idle0", "idle"}
            /\ server_name' = server_name \/ server_name' \in Servers
            /\ my_state # "idle0"
            => Named'
<1>1. /\ es \in Seq(Notices) /\ Len(es) = n /\ DOMAIN es = 1..n
      /\ \A k \in 1..n : es[k].kind # "switchover"
  BY LenProperties DEF Quiet
<1>2. evq \in Seq(Notices) /\ Named
  BY SessionFacts
<1>3. /\ evq' \in Seq(Notices) /\ Len(evq') \in Nat
      /\ Len(evq') <= Len(evq) + n
  BY <1>1, <1>2, BroadcastProperties
<1>4. ASSUME my_state' \notin {"idle0", "idle"}, my_state # "idle0",
             server_name' = server_name \/ server_name' \in Servers
      PROVE  Named'
  <2>1. server_name' \in Servers
    BY <1>2, <1>4 DEF Named
  <2> QED
    BY <1>1, <1>2, <1>4, <2>1, NamedKept
<1> QED
  BY <1>3, <1>4

LEMMA SessionInit == SInit => SessionInv
<1> SUFFICES ASSUME SInit PROVE SessionInv
  OBVIOUS
<1>1. AccessInv
  BY AccessInit DEF SInit
<1>2. <<>> \in Seq(Notices) /\ Len(<<>>) = 0 /\ DOMAIN <<>> = {}
  OBVIOUS
<1>3. SessionTypeOK
  <2>1. TypeOK /\ g_running \in BOOLEAN /\ app_id \in BOOLEAN
    BY <1>1, Zenon DEF AccessInv, SInit
  <2> QED
    BY <1>2, <2>1 DEF SessionTypeOK, SInit, Notices, Events, MaybeServer
<1>4. SingleDriver /\ KeyInStore
  BY DEF SInit, Init, SingleDriver, KeyInStore
<1>5. Named
  BY <1>2 DEF SInit, Init, Named
<1>6. Backlog
  BY <1>2, SessionAssumption DEF SInit, Init, Backlog, Allowed
<1> QED
  BY <1>1, <1>3, <1>4, <1>5, <1>6 DEF SessionInv

-----------------------------------------------------------------------------
(* The application's calls *)

LEMMA InitStep ==
  ASSUME SessionInv, ez_iot_init
  PROVE  SessionInv'
<1>1. /\ SessionInv /\ kernel_init(app_name, app_id, kv_key)
      /\ status' = "init" /\ starts' = 0
      /\ UNCHANGED <<app, thread, g_running, heard, evq, stored, crashes>>
  BY DEF ez_iot_init
<1>2. /\ app_name \in Servers /\ app_id \in BOOLEAN /\ kv_key \in MaybeServer
  BY SessionFacts DEF SessionTypeOK
<1>3. AccessInv'
  BY <1>1, <1>2, SessionFacts, CallerStep DEF Caller
<1>4. /\ my_state = "idle0" /\ my_state' = "idle" /\ pc' = pc
      /\ server_name' = app_name /\ master_key' = kv_key
  BY <1>1 DEF kernel_init
<1>5. SessionTypeOK'
  BY <1>1, <1>3, SessionFacts DEF SessionTypeOK, AccessInv, stored
<1>6. SingleDriver'
  BY <1>1, <1>4, SessionFacts DEF SingleDriver
<1>7. evq = <<>> /\ evq' = <<>>
  BY <1>1, <1>4, SessionFacts DEF Named
<1>8. Named'
  BY <1>2, <1>4, <1>7 DEF Named
<1>9. KeyInStore'
  BY <1>1, <1>4 DEF KeyInStore, stored
<1>10. Backlog'
  BY <1>1, <1>7, SessionAssumption DEF Backlog, Allowed
<1> QED
  BY <1>3, <1>5, <1>6, <1>8, <1>9, <1>10 DEF SessionInv

\* kernel_start with or without the thread: one more event, one more start.
LEMMA StartStep ==
  ASSUME SessionInv, ez_iot_start
  PROVE  SessionInv'
<1>1. /\ kernel_start /\ Broadcast(<<Event("start")>>)
      /\ thread' = "yield" /\ app' = "starting" /\ heard' = "none"
      /\ starts < StartMax /\ starts' = starts + 1
      /\ UNCHANGED <<status, stored, crashes>>
  BY DEF ez_iot_start
<1>2. AccessInv'
  BY <1>1, SessionFacts, CallerStep DEF Caller
<1>3. /\ my_state \in {"idle", "stop"} /\ my_state' = "start" /\ pc = "out"
      /\ UNCHANGED <<pc, cnt_state, access_risk, server_name, master_key>>
  BY <1>1 DEF kernel_start, credVars
<1>4. Quiet(<<Event("start")>>, 1)
  BY QuietEvents
<1>5. /\ evq' \in Seq(Notices) /\ Len(evq') \in Nat /\ Len(evq') <= Len(evq) + 1
      /\ Named'
  BY <1>1, <1>3, <1>4, QuietBroadcast
<1>6. SessionTypeOK'
  <2>1. g_running' \in BOOLEAN
    BY Zenon DEF ez_iot_start
  <2> QED
    BY <1>1, <1>2, <1>5, <2>1, SessionFacts
    DEF SessionTypeOK, AccessInv, stored, Notices, Events
<1>7. SingleDriver'
  BY <1>1, <1>3 DEF SingleDriver
<1>8. KeyInStore'
  BY <1>1, <1>3, SessionFacts DEF KeyInStore, stored
<1>9. Backlog'
  <2>1. thread # "user"
    BY <1>3, SessionFacts DEF SingleDriver
  <2> QED
    BY <1>1, <1>3, <1>5, <2>1, SessionFacts, SessionAssumption DEF Backlog, Allowed
<1> QED
  BY <1>2, <1>5, <1>6, <1>7, <1>8, <1>9 DEF SessionInv

\* The kernel is stopped at once, unless it is blacklisted.
LEMMA StartNoThreadStep ==
  ASSUME SessionInv, ez_iot_start_no_thread
  PROVE  SessionInv'
<1>1. /\ Broadcast(<<Event("start")>>)
      /\ app = "idle" /\ app' = "idle" /\ status' = "ready" /\ thread' = "none"
      /\ heard' = "none" /\ starts < StartMax /\ starts' = starts + 1
      /\ UNCHANGED <<stored, crashes>>
  BY DEF ez_iot_start_no_thread, Calls
<1>2. /\ my_state \in {"idle", "stop"} /\ pc = "out" /\ told' = "start"
      /\ \/ /\ my_state' = "stop" /\ cnt_state' = "unredirect"
            /\ logged' = NoServer
         \/ my_state' = "start" /\ UNCHANGED <<cnt_state, logged>>
      /\ UNCHANGED <<pc, entr_state, access_risk, counters, credVars, handler>>
      /\ UNCHANGED opt
  BY DEF ez_iot_start_no_thread
<1>3. AccessInv'
  <2>1. UNCHANGED <<das_retry_times, lbs_failed, server_name, dev_id>>
        /\ UNCHANGED <<master_key, session>>
    BY <1>2 DEF counters, credVars
  <2>2. cnt_state \in {"unredirect", "das_break"}
    BY <1>2, SessionFacts DEF ControlInv
  <2>3. TypeOK'
    BY <1>2, <2>1, SessionFacts DEF TypeOK, Events, MaybeServer
  <2>4. /\ ControlInv' /\ RegedMeansLoggedIn' /\ CredentialsMatch'
        /\ RegistersWithFreshSession' /\ UserWasTold'
    BY <1>2, <2>1, <2>2, SessionFacts
    DEF AccessInv, ControlInv, RegedMeansLoggedIn, CredentialsMatch,
        RegistersWithFreshSession, UserWasTold
  <2> QED
    BY <2>3, <2>4 DEF AccessInv
<1>4. /\ evq' \in Seq(Notices) /\ Len(evq') \in Nat /\ Len(evq') <= Len(evq) + 1
      /\ Named'
  BY <1>1, <1>2, QuietEvents, QuietBroadcast DEF credVars
<1>5. SessionTypeOK'
  <2>1. g_running' \in BOOLEAN
    BY Zenon DEF ez_iot_start_no_thread
  <2> QED
    BY <1>1, <1>3, <1>4, <2>1, SessionFacts
    DEF SessionTypeOK, AccessInv, stored, Notices, Events
<1>6. SingleDriver'
  BY <1>1, <1>2 DEF SingleDriver
<1>7. KeyInStore'
  BY <1>1, <1>2, SessionFacts DEF KeyInStore, stored, credVars
<1>8. Backlog'
  <2>1. thread # "user"
    BY <1>2, SessionFacts DEF SingleDriver
  <2>2. /\ Allowed \in {1, 2, 3} /\ Allowed' \in {1, 2, 3}
        /\ Allowed <= Allowed'
    BY <1>1, <1>2, <2>1, SessionFacts DEF Allowed, ControlInv
  <2> QED
    BY <1>1, <1>4, <2>2, SessionFacts, SessionAssumption DEF Backlog
<1> QED
  BY <1>3, <1>4, <1>5, <1>6, <1>7, <1>8 DEF SessionInv

\* Steps of the session alone: the kernel, the queue and the store rest, and
\* the thread ends or goes on where it was.
LEMMA SessionAlone ==
  ASSUME SessionInv, UNCHANGED <<vars, evq, stored, starts, crashes, heard>>,
         status' \in {status, "uninit", "init", "ready"},
         g_running' \in {g_running, FALSE},
         thread' = thread \/ (thread' = "none" /\ thread # "user"),
         pc \in {"subscribing", "working"} => thread' = thread,
         app' \in {"idle", "joining"} \/ app' = app,
         app = "stopping" => app' = app
  PROVE  SessionInv'
<1>1. AccessInv'
  BY SessionFacts, AccessStutter
<1>2. UNCHANGED <<my_state, pc, cnt_state, access_risk, server_name, master_key>>
  BY DEF vars, lifeVars, linkVars, credVars
<1>3. SessionTypeOK'
  <2>1. g_running' \in BOOLEAN
    BY SessionFacts, Zenon DEF SessionTypeOK
  <2> QED
    BY <1>1, <2>1, SessionFacts DEF SessionTypeOK, AccessInv, stored
<1>4. SingleDriver' /\ Named' /\ KeyInStore'
  BY <1>2, SessionFacts DEF SingleDriver, Named, KeyInStore, stored
<1>5. Backlog'
  BY <1>2, SessionFacts DEF Backlog, Allowed
<1> QED
  BY <1>1, <1>3, <1>4, <1>5 DEF SessionInv

LEMMA StartReadyStep ==
  ASSUME SessionInv, ez_iot_start_ready
  PROVE  SessionInv'
  BY SessionAlone DEF ez_iot_start_ready

LEMMA StopJoinStep ==
  ASSUME SessionInv, ez_iot_stop_join
  PROVE  SessionInv'
  BY SessionAlone DEF ez_iot_stop_join, Calls

LEMMA StopRefusedStep ==
  ASSUME SessionInv, ez_iot_stop_refused
  PROVE  SessionInv'
<1>1. pc \notin {"subscribing", "working"}
  BY SessionFacts DEF ez_iot_stop_refused, Joined, SingleDriver
<1> QED
  BY <1>1, SessionAlone DEF ez_iot_stop_refused, Joined

\* The thread has been joined: nobody else is in the kernel.
LEMMA StopKernelStep ==
  ASSUME SessionInv, ez_iot_stop_kernel
  PROVE  SessionInv'
<1>1. /\ kernel_stop /\ app = "joining" /\ thread \in {"none", "exited"}
      /\ thread' = "none" /\ app' = "stopping"
      /\ UNCHANGED <<status, g_running, heard, starts, evq, stored, crashes>>
  BY DEF ez_iot_stop_kernel, Joined
<1>2. AccessInv'
  BY <1>1, SessionFacts, CallerStep DEF Caller
<1>3. /\ my_state = "start" /\ pc = "out" /\ my_state' = "stop"
      /\ pc' = IF cnt_state = "das_reged" THEN "last_round" ELSE "unregistering"
      /\ UNCHANGED <<cnt_state, access_risk, server_name, master_key>>
  BY <1>1 DEF kernel_stop, linkVars, credVars
<1>4. SessionTypeOK'
  BY <1>1, <1>2, SessionFacts DEF SessionTypeOK, AccessInv, stored
<1>5. SingleDriver' /\ Named' /\ KeyInStore'
  BY <1>1, <1>3, SessionFacts DEF SingleDriver, Named, KeyInStore, stored
<1>6. Backlog'
  <2>1. ~access_risk
    BY <1>1 DEF kernel_stop
  <2>2. Allowed \in Nat /\ Allowed' \in Nat /\ Allowed <= Allowed'
    BY <1>1, <1>3, <2>1, SessionFacts DEF Allowed
  <2> QED
    BY <1>1, <2>2, SessionFacts, SessionAssumption DEF Backlog
<1> QED
  BY <1>2, <1>4, <1>5, <1>6 DEF SessionInv

LEMMA StopRoundStep ==
  ASSUME SessionInv, ez_iot_stop_round
  PROVE  SessionInv'
<1> PICK ok \in BOOLEAN :
      /\ kernel_stop_round(ok)
      /\ Broadcast(IF ok THEN <<>> ELSE <<Event("err")>>)
  BY DEF ez_iot_stop_round
<1>1. /\ app = "stopping"
      /\ UNCHANGED <<status, app, thread, g_running, heard, starts>>
      /\ UNCHANGED <<stored, crashes>>
  BY DEF ez_iot_stop_round, ezVars
<1>2. AccessInv'
  BY SessionFacts, StopStep DEF StopSteps
<1>3. /\ pc = "last_round" /\ pc' = "unregistering" /\ my_state = "stop"
      /\ my_state' = "stop"
      /\ UNCHANGED <<access_risk, server_name, master_key>>
  BY SessionFacts DEF kernel_stop_round, credVars, ControlInv
<1>4. /\ evq' \in Seq(Notices) /\ Len(evq') \in Nat /\ Len(evq') <= Len(evq) + 1
      /\ Named'
  <2>1. CASE ok
    <3>1. Broadcast(<<>>) /\ Quiet(<<>>, 0)
      BY <2>1, QuietEvents
    <3> QED
      BY <1>3, <3>1, SessionFacts, QuietBroadcast
  <2>2. CASE ~ok
    <3>1. Broadcast(<<Event("err")>>) /\ Quiet(<<Event("err")>>, 1)
      BY <2>2, QuietEvents DEF Err
    <3> QED
      BY <1>3, <3>1, QuietBroadcast
  <2> QED
    BY <2>1, <2>2
<1>5. SessionTypeOK'
  BY <1>1, <1>2, <1>4, SessionFacts DEF SessionTypeOK, AccessInv, stored, Notices
<1>6. SingleDriver' /\ KeyInStore'
  BY <1>1, <1>3, SessionFacts DEF SingleDriver, KeyInStore, stored
<1>7. Backlog'
  <2>1. thread # "user"
    BY <1>3, SessionFacts DEF SingleDriver
  <2>2. /\ Allowed \in {1, 2} /\ Allowed' \in {2, 3} /\ Allowed + 1 = Allowed'
    BY <1>1, <1>3, <2>1, SessionFacts DEF Allowed
  <2> QED
    BY <1>1, <1>4, <2>2, SessionFacts, SessionAssumption DEF Backlog
<1> QED
  BY <1>2, <1>4, <1>5, <1>6, <1>7 DEF SessionInv

LEMMA StopDoneStep ==
  ASSUME SessionInv, ez_iot_stop_done
  PROVE  SessionInv'
<1>1. /\ stop_yield /\ app = "stopping" /\ status' = "init" /\ app' = "idle"
      /\ UNCHANGED <<thread, g_running, heard, starts, evq, stored, crashes>>
  BY DEF ez_iot_stop_done
<1>2. AccessInv'
  BY <1>1, SessionFacts, StopStep DEF StopSteps
<1>3. /\ pc = "unregistering" /\ pc' = "out" /\ cnt_state' = "unredirect"
      /\ my_state = "stop"
      /\ UNCHANGED <<my_state, access_risk, server_name, master_key>>
  BY <1>1, SessionFacts DEF stop_yield, credVars, ControlInv
<1>4. SessionTypeOK'
  BY <1>1, <1>2, SessionFacts DEF SessionTypeOK, AccessInv, stored
<1>5. SingleDriver' /\ Named' /\ KeyInStore'
  BY <1>1, <1>3, SessionFacts DEF SingleDriver, Named, KeyInStore, stored
<1>6. Backlog'
  BY <1>1, <1>3, SessionFacts DEF Backlog, Allowed, SingleDriver
<1> QED
  BY <1>2, <1>4, <1>5, <1>6 DEF SessionInv

\* kernel_fini does its work, or is refused.
LEMMA FiniStep ==
  ASSUME SessionInv, ez_iot_fini
  PROVE  SessionInv'
<1>1. /\ status' = "uninit"
      /\ UNCHANGED <<app, thread, g_running, heard, starts, stored, crashes>>
      /\ \/ kernel_fini /\ evq' = <<>>
         \/ UNCHANGED <<vars, evq>>
  BY DEF ez_iot_fini
<1>2. CASE UNCHANGED <<vars, evq>>
  BY <1>1, <1>2, SessionAlone
<1>3. CASE kernel_fini /\ evq' = <<>>
  <2>1. AccessInv'
    BY <1>3, SessionFacts, CallerStep DEF Caller
  <2>2. /\ my_state \in {"idle", "stop"} /\ pc = "out" /\ my_state' = "idle0"
        /\ pc' = pc /\ master_key' = NoServer
    BY <1>3 DEF kernel_fini, ZeroedCredentials
  <2>3. evq' \in Seq(Notices) /\ Len(evq') = 0 /\ DOMAIN evq' = {}
    BY <1>3
  <2>4. SessionTypeOK'
    BY <1>1, <2>1, <2>3, SessionFacts DEF SessionTypeOK, AccessInv, stored, Notices
  <2>5. SingleDriver' /\ Named' /\ KeyInStore'
    BY <1>1, <1>3, <2>2, <2>3, SessionFacts DEF SingleDriver, Named, KeyInStore
  <2>6. Backlog'
    BY <1>1, <2>3, SessionFacts DEF Backlog, Allowed
  <2> QED
    BY <2>1, <2>4, <2>5, <2>6 DEF SessionInv
<1> QED
  BY <1>1, <1>2, <1>3

-----------------------------------------------------------------------------
(* The yield thread inside kernel_yield *)

\* What the session adds to a step of the kernel that broadcasts es.
Yielded(es) ==
  /\ thread = "yield" /\ Broadcast(es)
  /\ thread' = IF pc' = "out" THEN "user" ELSE "yield"
  /\ UNCHANGED <<status, app, g_running, heard, starts, crashes>>

StoredOK == kv_key \in MaybeServer /\ app_id \in BOOLEAN /\ app_name \in Servers

LEMMA YieldFrame ==
  ASSUME kernel_yield
  PROVE  /\ UNCHANGED <<server_name, my_state>>
         /\ pc' \in {"out", "subscribing", "working"}
<1> USE DEF lifeVars, linkVars, credVars
<1>1. CASE LbsRound
  BY <1>1 DEF LbsRound, cnt_lbs_redirect_ok, cnt_lbs_redirect_fail, Yields
<1>2. CASE DasRound
  BY <1>2 DEF DasRound, cnt_das_reg_login, cnt_das_reg_refused,
     cnt_das_reg_done, cnt_das_reg_unsubscribed, cnt_das_work_begin,
     cnt_das_work_do, cnt_das_retry_ok, cnt_das_retry_fail, Yields
<1> QED
  BY <1>1, <1>2 DEF kernel_yield

\* Such a step keeps the invariant if the store and the queue are as they
\* have to be.
LEMMA YieldKeeps ==
  ASSUME SessionInv, kernel_yield, NEW es, Yielded(es), StoredOK', KeyInStore',
         evq' \in Seq(Notices), Named', Len(evq') <= starts + Allowed'
  PROVE  SessionInv'
<1>1. AccessInv'
  BY SessionFacts, YieldStep
<1>2. /\ thread = "yield" /\ thread' = IF pc' = "out" THEN "user" ELSE "yield"
      /\ UNCHANGED <<status, app, g_running, heard, starts, crashes>>
  BY DEF Yielded
<1>3. /\ UNCHANGED <<server_name, my_state>>
      /\ pc' \in {"out", "subscribing", "working"} /\ my_state = "start"
      /\ app # "stopping"
  BY <1>2, YieldFrame, SessionFacts DEF SingleDriver
<1>4. SessionTypeOK'
  <2>1. kv_key' \in MaybeServer /\ app_name' \in Servers
    BY DEF StoredOK
  <2>2. app_id' \in BOOLEAN
    BY Zenon DEF StoredOK
  <2> QED
    BY <1>1, <1>2, <2>1, <2>2, SessionFacts DEF SessionTypeOK, AccessInv, Notices
<1>5. SingleDriver'
  BY <1>2, <1>3 DEF SingleDriver
<1>6. Backlog'
  BY <1>2, SessionFacts DEF Backlog
<1> QED
  BY <1>1, <1>4, <1>5, <1>6 DEF SessionInv

\* No switch is announced, and the store is not written.
LEMMA QuietYield ==
  ASSUME SessionInv, kernel_yield, NEW n \in Nat, NEW es, Quiet(es, n),
         Yielded(es), UNCHANGED stored, master_key' \in {master_key, NoServer},
         Len(evq) + n <= starts + Allowed'
  PROVE  SessionInv'
<1>1. my_state = "start" /\ UNCHANGED <<server_name, my_state>>
  BY YieldFrame, SessionFacts DEF Yielded, SingleDriver
<1>2. /\ evq' \in Seq(Notices) /\ Len(evq') \in Nat /\ Len(evq') <= Len(evq) + n
      /\ Named'
  BY <1>1, QuietBroadcast DEF Yielded
<1>3. Allowed' \in Nat
  BY DEF Allowed
<1>4. Len(evq') <= starts + Allowed'
  BY <1>2, <1>3, SessionFacts
<1>5. StoredOK'
  <2>1. kv_key' = kv_key /\ app_id' = app_id /\ app_name' = app_name
    BY DEF stored
  <2> QED
    BY <2>1, SessionFacts DEF StoredOK, SessionTypeOK
<1>6. KeyInStore'
  BY SessionFacts DEF KeyInStore, stored
<1> QED
  BY <1>2, <1>4, <1>5, <1>6, YieldKeeps

\* How long the queue can be when the thread enters kernel_yield.
LEMMA YieldBacklog ==
  ASSUME SessionInv, thread = "yield"
  PROVE  /\ Len(evq) \in Nat /\ starts \in Nat
         /\ pc = "out" /\ access_risk # TRUE =>
              Len(evq) <= starts + (IF cnt_state = "unredirect" THEN 2 ELSE 1)
         /\ pc \in {"subscribing", "working"} =>
              Len(evq) <= starts + (IF access_risk THEN 2 ELSE 1)
  BY SessionFacts DEF Backlog, Allowed

LEMMA AllowedAfter ==
  /\ thread' = "user" => Allowed' \in {2, 3}
  /\ thread' = "user" /\ cnt_state' = "unredirect" => Allowed' = 3
  /\ thread' = "user" /\ access_risk' => Allowed' = 3
  /\ thread' = "yield" /\ pc' \in {"subscribing", "working"} /\ access_risk' =>
       Allowed' = 2
  /\ thread' = "yield" /\ pc' \in {"subscribing", "working"} => Allowed' \in {1, 2}
  BY DEF Allowed

\* When a wait is over there is room for one event more.
LEMMA WaitOver ==
  ASSUME SessionInv, thread = "yield", thread' = "user",
         pc \in {"subscribing", "working"}, UNCHANGED access_risk
  PROVE  Len(evq) + 1 <= starts + Allowed'
<1>1. /\ Len(evq) <= starts + (IF access_risk THEN 2 ELSE 1)
      /\ Len(evq) \in Nat /\ starts \in Nat
  BY YieldBacklog
<1>2. CASE access_risk
  BY <1>1, <1>2, AllowedAfter
<1>3. CASE ~access_risk
  BY <1>1, <1>3, AllowedAfter
<1> QED
  BY <1>2, <1>3

\* The key that was negotiated is the one in the store.
LEMMA YieldLbsOkStep ==
  ASSUME SessionInv, yield_lbs_ok
  PROVE  SessionInv'
<1>1. /\ cnt_lbs_redirect_ok /\ Yielded(<<>>) /\ app_name' = app_name
      /\ kv_key' = IF dev_id /\ master_key # NoServer THEN kv_key
                   ELSE server_name
  BY DEF yield_lbs_ok, Yielding, Yielded
<1>2. kernel_yield
  BY <1>1 DEF kernel_yield, LbsRound
<1>3. /\ my_state = "start" /\ pc = "out" /\ access_risk # TRUE
      /\ cnt_state = "unredirect" /\ pc' = "out"
      /\ dev_id => master_key \in {NoServer, server_name}
      /\ master_key' = server_name /\ server_name' = server_name
      /\ my_state' = my_state
  BY <1>1 DEF cnt_lbs_redirect_ok, Yields, lifeVars
<1>4. server_name \in Servers
  BY <1>3, SessionFacts DEF Named
<1>5. /\ evq' \in Seq(Notices) /\ Len(evq') \in Nat /\ Len(evq') <= Len(evq) + 0
      /\ Named'
  BY <1>1, <1>3, QuietEvents, QuietBroadcast DEF Yielded
<1>6. StoredOK'
  <2>1. app_id' \in BOOLEAN
    BY SessionFacts, Zenon DEF yield_lbs_ok, SessionTypeOK
  <2>2. kv_key' \in MaybeServer
    BY <1>1, <1>4, SessionFacts DEF SessionTypeOK, MaybeServer
  <2> QED
    BY <1>1, <2>1, <2>2, SessionFacts, Zenon DEF StoredOK, SessionTypeOK
<1>7. KeyInStore'
  BY <1>1, <1>3, SessionFacts DEF KeyInStore
<1>8. Len(evq') <= starts + Allowed'
  <2>1. thread = "yield" /\ thread' = "user"
    BY <1>1, <1>3 DEF Yielded
  <2>2. Len(evq) <= starts + 2
    BY <1>3, <2>1, YieldBacklog
  <2> QED
    BY <1>5, <2>1, <2>2, AllowedAfter, SessionFacts
<1> QED
  BY <1>1, <1>2, <1>5, <1>6, <1>7, <1>8, YieldKeeps

LEMMA YieldLbsFailStep ==
  ASSUME SessionInv, NEW err \in LbsErrors, yield_lbs_fail(err)
  PROVE  SessionInv'
<1>1. cnt_lbs_redirect_fail(err) /\ Yielded(Err) /\ UNCHANGED stored
  BY DEF yield_lbs_fail, Yielding, Yielded
<1>2. kernel_yield
  BY <1>1 DEF kernel_yield, LbsRound
<1>3. /\ pc = "out" /\ access_risk # TRUE /\ cnt_state = "unredirect"
      /\ pc' = "out" /\ cnt_state' = "unredirect"
      /\ master_key' \in {master_key, NoServer}
  BY <1>1 DEF cnt_lbs_redirect_fail, Yields, lifeVars
<1>4. thread = "yield" /\ thread' = "user"
  BY <1>1, <1>3 DEF Yielded
<1>5. Len(evq) + 1 <= starts + Allowed'
  BY <1>3, <1>4, YieldBacklog, AllowedAfter
<1> QED
  BY <1>1, <1>2, <1>3, <1>5, QuietEvents, QuietYield

LEMMA YieldRegLoginStep ==
  ASSUME SessionInv, yield_reg_login
  PROVE  SessionInv'
<1>1. cnt_das_reg_login /\ Yielded(<<>>) /\ UNCHANGED stored
  BY DEF yield_reg_login, Yielding, Yielded
<1>2. kernel_yield
  BY <1>1 DEF kernel_yield, DasRound
<1>3. /\ pc = "out" /\ access_risk # TRUE /\ cnt_state = "redirected"
      /\ pc' = "subscribing" /\ master_key' = master_key
  BY <1>1 DEF cnt_das_reg_login, Yields, credVars
<1>4. thread = "yield" /\ thread' = "yield"
  BY <1>1, <1>3 DEF Yielded
<1>5. Len(evq) + 0 <= starts + Allowed'
  BY <1>3, <1>4, YieldBacklog, AllowedAfter
<1> QED
  BY <1>1, <1>2, <1>3, <1>5, QuietEvents, QuietYield

LEMMA YieldRegRefusedStep ==
  ASSUME SessionInv, NEW err \in MqttErrors, yield_reg_refused(err)
  PROVE  SessionInv'
<1>1. cnt_das_reg_refused(err) /\ UNCHANGED stored /\ thread = "yield"
      /\ thread' = IF pc' = "out" THEN "user" ELSE "yield"
  BY DEF yield_reg_refused, Yielding
<1>2. kernel_yield
  BY <1>1 DEF kernel_yield, DasRound
<1>3. /\ pc = "out" /\ access_risk # TRUE /\ cnt_state = "redirected"
      /\ pc' = "out" /\ master_key' = master_key
      /\ err = "redirect" => cnt_state' = "unredirect"
  BY <1>1 DEF cnt_das_reg_refused, Yields, lifeVars, credVars, BackToLbs
<1>4. thread = "yield" /\ thread' = "user"
  BY <1>1, <1>3
<1>5. /\ Len(evq) <= starts + 1 /\ Len(evq) \in Nat /\ starts \in Nat
      /\ Allowed' \in {2, 3}
      /\ cnt_state' = "unredirect" => Allowed' = 3
  BY <1>3, <1>4, YieldBacklog, AllowedAfter
<1>6. CASE err = "redirect"
  <2>1. Yielded(Err \o Break)
    BY <1>6 DEF yield_reg_refused, Yielding, Yielded
  <2>2. Quiet(Err \o Break, 1 + 1)
    BY QuietEvents, QuietConcat
  <2>3. Len(evq) + (1 + 1) <= starts + Allowed'
    BY <1>3, <1>5, <1>6
  <2> QED
    BY <1>1, <1>2, <1>3, <2>1, <2>2, <2>3, QuietYield
<1>7. CASE err # "redirect"
  <2>1. Quiet(Err, 1) /\ Yielded(Err)
    BY <1>7, QuietEvents DEF yield_reg_refused, Yielding, Yielded
  <2>2. Len(evq) + 1 <= starts + Allowed'
    BY <1>5
  <2> QED
    BY <1>1, <1>2, <1>3, <2>1, <2>2, QuietYield
<1> QED
  BY <1>6, <1>7

\* The registration is announced, perhaps with the server it is with.
LEMMA YieldRegDoneStep ==
  ASSUME SessionInv, yield_reg_done
  PROVE  SessionInv'
<1>1. cnt_das_reg_done /\ UNCHANGED stored
  BY DEF yield_reg_done, Yielding
<1>2. kernel_yield
  BY <1>1 DEF kernel_yield, DasRound
<1>3. /\ pc = "subscribing" /\ pc' = "out" /\ UNCHANGED access_risk
      /\ master_key' = master_key /\ server_name' = server_name
      /\ my_state' = my_state
  BY <1>1 DEF cnt_das_reg_done, credVars
<1>4. thread = "yield" /\ thread' = "user"
  BY <1>3 DEF yield_reg_done, Yielding
<1>5. Len(evq) + 1 <= starts + Allowed'
  BY <1>3, <1>4, WaitOver
<1>6. CASE entr_state # "switchover"
  <2>1. Yielded(<<Event("online")>>)
    BY <1>6 DEF yield_reg_done, Yielding, Yielded
  <2> QED
    BY <1>1, <1>2, <1>3, <1>5, <2>1, QuietEvents, QuietYield
<1>7. CASE entr_state = "switchover"
  <2> DEFINE e == [kind |-> "switchover", srv |-> server_name]
  <2>1. Yielded(<<e>>)
    BY <1>7 DEF yield_reg_done, Yielding, Yielded
  <2>2. /\ my_state' = "start" /\ server_name \in Servers
        /\ e \in Notices /\ e.srv = server_name
    BY <1>3, SessionFacts
    DEF ControlInv, Named, Notices, Kinds, Events, OnlineEvents, MaybeServer
  <2> HIDE DEF e
  <2>3. <<e>> \in Seq(Notices) /\ Len(<<e>>) = 1
        /\ \A k \in DOMAIN <<e>> : <<e>>[k].srv \in Servers
    BY <2>2
  <2>4. evq' \in Seq(Notices) /\ Len(evq') \in Nat /\ Len(evq') <= Len(evq) + 1
    BY <2>1, <2>3, SessionFacts, BroadcastProperties DEF Yielded
  <2>5. Named'
    BY <1>3, <2>1, <2>2, <2>3, SessionFacts, NamedKept DEF Yielded
  <2>6. StoredOK' /\ KeyInStore'
    BY <1>1, <1>3, SessionFacts, Zenon
    DEF StoredOK, SessionTypeOK, KeyInStore, stored
  <2>7. Len(evq') <= starts + Allowed'
    BY <1>4, <1>5, <2>4, SessionFacts, AllowedAfter
  <2> QED
    BY <1>2, <2>1, <2>4, <2>5, <2>6, <2>7, YieldKeeps
<1> QED
  BY <1>6, <1>7

LEMMA YieldRegUnsubscribedStep ==
  ASSUME SessionInv, yield_reg_unsubscribed
  PROVE  SessionInv'
<1>1. cnt_das_reg_unsubscribed /\ Yielded(Err) /\ UNCHANGED stored
  BY DEF yield_reg_unsubscribed, Yielding, Yielded
<1>2. kernel_yield
  BY <1>1 DEF kernel_yield, DasRound
<1>3. /\ pc = "subscribing" /\ pc' = "out" /\ UNCHANGED access_risk
      /\ master_key' = master_key
  BY <1>1 DEF cnt_das_reg_unsubscribed, credVars
<1>4. thread = "yield" /\ thread' = "user"
  BY <1>1, <1>3 DEF Yielded
<1>5. Len(evq) + 1 <= starts + Allowed'
  BY <1>3, <1>4, WaitOver
<1> QED
  BY <1>1, <1>2, <1>3, <1>5, QuietEvents, QuietYield

LEMMA YieldWorkStep ==
  ASSUME SessionInv, yield_work
  PROVE  SessionInv'
<1>1. UNCHANGED stored
  BY DEF yield_work
<1>2. CASE Yielding(cnt_das_work_begin, <<>>)
  <2>1. cnt_das_work_begin /\ Yielded(<<>>)
    BY <1>2 DEF Yielding, Yielded
  <2>2. kernel_yield
    BY <2>1 DEF kernel_yield, DasRound
  <2>3. /\ pc = "out" /\ access_risk # TRUE /\ cnt_state = "das_reged"
        /\ pc' = "working" /\ master_key' = master_key
    BY <2>1 DEF cnt_das_work_begin, Yields, credVars
  <2>4. thread = "yield" /\ thread' = "yield"
    BY <2>1, <2>3 DEF Yielded
  <2>5. Len(evq) + 0 <= starts + Allowed'
    BY <2>3, <2>4, YieldBacklog, AllowedAfter
  <2> QED
    BY <1>1, <2>1, <2>2, <2>3, <2>5, QuietEvents, QuietYield
<1>3. ASSUME NEW ok \in BOOLEAN, NEW n \in {0, 1}, NEW es, Quiet(es, n),
             Yielding(cnt_das_work_do(ok), es)
      PROVE  SessionInv'
  <2>1. cnt_das_work_do(ok) /\ Yielded(es)
    BY <1>3 DEF Yielding, Yielded
  <2>2. kernel_yield
    BY <2>1 DEF kernel_yield, DasRound
  <2>3. /\ pc = "working" /\ pc' = "out" /\ UNCHANGED access_risk
        /\ master_key' = master_key
    BY <2>1 DEF cnt_das_work_do, credVars
  <2>4. thread = "yield" /\ thread' = "user"
    BY <2>1, <2>3 DEF Yielded
  <2>5. Len(evq) + n <= starts + Allowed' /\ n \in Nat
    BY <2>3, <2>4, WaitOver, SessionFacts, AllowedAfter
  <2> QED
    BY <1>1, <1>3, <2>1, <2>2, <2>3, <2>5, QuietYield
<1>4. Quiet(<<>>, 0) /\ Quiet(Err, 1)
  BY QuietEvents
<1> QED
  BY <1>2, <1>3, <1>4 DEF yield_work

LEMMA YieldRetryOkStep ==
  ASSUME SessionInv, yield_retry_ok
  PROVE  SessionInv'
<1>1. /\ cnt_das_retry_ok /\ Yielded(<<Event("reconnect")>>)
      /\ UNCHANGED stored
  BY DEF yield_retry_ok, Yielding, Yielded
<1>2. kernel_yield
  BY <1>1 DEF kernel_yield, DasRound
<1>3. /\ pc = "out" /\ access_risk # TRUE /\ cnt_state = "das_break"
      /\ pc' = "out" /\ master_key' = master_key
  BY <1>1 DEF cnt_das_retry_ok, Yields, lifeVars, credVars
<1>4. thread = "yield" /\ thread' = "user"
  BY <1>1, <1>3 DEF Yielded
<1>5. Len(evq) + 1 <= starts + Allowed'
  BY <1>3, <1>4, YieldBacklog, AllowedAfter
<1> QED
  BY <1>1, <1>2, <1>3, <1>5, QuietEvents, QuietYield

\* Three events at once: but the thread has waited since the last failure.
LEMMA YieldRetryFailStep ==
  ASSUME SessionInv, NEW err \in MqttErrors, yield_retry_fail(err)
  PROVE  SessionInv'
<1>1. cnt_das_retry_fail(err) /\ Yielded(RetryEvents(err)) /\ UNCHANGED stored
  BY DEF yield_retry_fail, Yielding, Yielded
<1>2. kernel_yield
  BY <1>1 DEF kernel_yield, DasRound
<1>3. /\ pc = "out" /\ access_risk # TRUE /\ cnt_state = "das_break"
      /\ pc' = "out" /\ master_key' = master_key
  BY <1>1 DEF cnt_das_retry_fail, Yields, lifeVars, credVars
<1>4. thread = "yield" /\ thread' = "user"
  BY <1>1, <1>3 DEF Yielded
<1>5. das_retry_times \in Nat /\ BreakRetryMax \in Nat \ {0}
  BY SessionFacts, RetryAssumption, SessionAssumption DEF TypeOK, RetryTimes
<1>6. PICK n \in 1..3 :
        /\ Quiet(RetryEvents(err), n)
        /\ n > 1 => das_retry_times >= BreakRetryMax \/ err = "redirect"
        /\ n > 2 => das_retry_times >= BreakRetryMax
  BY QuietRetry
<1>7. n > 1 => cnt_state' = "unredirect"
  BY <1>1, <1>5, <1>6
  DEF cnt_das_retry_fail, CountBreakFailure, BackToLbs
<1>8. das_retry_times > 0 => Len(evq) = 0
  BY <1>3, EmptySeq DEF yield_retry_fail, Yielding, BackingOff
<1>9. /\ Len(evq) <= starts + 1 /\ Len(evq) \in Nat /\ starts \in Nat
      /\ Allowed' \in {2, 3}
      /\ cnt_state' = "unredirect" => Allowed' = 3
  BY <1>3, <1>4, YieldBacklog, AllowedAfter
<1>10. Len(evq) + n <= starts + Allowed'
  <2>1. CASE das_retry_times > 0
    <3>1. Len(evq) + n = n
      BY <1>6, <1>8, <2>1
    <3>2. n <= Allowed'
      BY <1>6, <1>7, <1>9
    <3> QED
      BY <1>6, <1>9, <3>1, <3>2
  <2>2. CASE das_retry_times = 0
    BY <1>5, <1>6, <1>7, <1>9, <2>2
  <2> QED
    BY <1>5, <2>1, <2>2
<1> QED
  BY <1>1, <1>2, <1>3, <1>6, <1>10, QuietYield

-----------------------------------------------------------------------------
(* The yield thread outside kernel_yield, the platform, power loss *)

LEMMA YieldReturnsStep ==
  ASSUME SessionInv, yield_backoff \/ yield_force_offline
  PROVE  SessionInv'
<1>1. /\ thread = "yield" /\ thread' \in {"user", "exited"} /\ pc = "out"
      /\ UNCHANGED <<vars, status, app, g_running, heard, starts>>
      /\ UNCHANGED <<evq, stored, crashes>>
  BY DEF yield_backoff, yield_force_offline
<1>2. AccessInv'
  BY <1>1, SessionFacts, AccessStutter
<1>3. UNCHANGED <<my_state, pc, cnt_state, access_risk, server_name, master_key>>
  BY <1>1 DEF vars, lifeVars, linkVars, credVars
<1>4. SessionTypeOK'
  BY <1>1, <1>2, SessionFacts DEF SessionTypeOK, AccessInv, stored
<1>5. SingleDriver' /\ Named' /\ KeyInStore'
  BY <1>1, <1>3, SessionFacts DEF SingleDriver, Named, KeyInStore, stored
<1>6. Backlog'
  <2>1. CASE yield_backoff
    BY <1>1, <1>3, <2>1, SessionFacts DEF Backlog, Allowed, yield_backoff
  <2>2. CASE yield_force_offline
    BY <1>1, <1>3, <2>2, SessionFacts DEF Backlog, Allowed, yield_force_offline
  <2> QED
    BY <2>1, <2>2
<1> QED
  BY <1>2, <1>4, <1>5, <1>6 DEF SessionInv

\* One event is delivered and leaves the queue.
LEMMA YieldUserStep ==
  ASSUME SessionInv, yield_user
  PROVE  SessionInv'
<1>1. /\ thread = "user" /\ thread' \in {"yield", "exited"}
      /\ UNCHANGED <<vars, app, g_running, starts, kv_key, app_id, crashes>>
  BY DEF yield_user
<1>2. AccessInv'
  BY <1>1, SessionFacts, AccessStutter
<1>3. UNCHANGED <<my_state, pc, cnt_state, access_risk, server_name, master_key>>
  BY <1>1 DEF vars, lifeVars, linkVars, credVars
<1>4. pc = "out" /\ my_state = "start" /\ app # "stopping"
  BY <1>1, SessionFacts DEF SingleDriver, TypeOK, Waits
<1>5. SingleDriver' /\ KeyInStore'
  BY <1>1, <1>3, <1>4, SessionFacts DEF SingleDriver, KeyInStore
<1>6. /\ status \in {"uninit", "init", "ready", "online", "disconnect"}
      /\ heard \in Events /\ app_name \in Servers
  BY SessionFacts DEF SessionTypeOK
<1>7. /\ evq' \in Seq(Notices) /\ Len(evq') \in Nat
      /\ Len(evq') = 0 \/ Len(evq') = Len(evq) - 1
      /\ \A i \in DOMAIN evq' : \E j \in DOMAIN evq : evq'[i] = evq[j]
      /\ status' \in {"uninit", "init", "ready", "online", "disconnect"}
      /\ heard' \in Events /\ app_name' \in Servers
  <2>1. CASE evq = <<>>
    BY <1>6, <2>1, SessionFacts DEF yield_user
  <2>2. CASE evq # <<>>
    <3>1. /\ evq' = Tail(evq) /\ ez_kernel_event_notice(Head(evq))
      BY <2>2 DEF yield_user
    <3>2. /\ evq' \in Seq(Notices) /\ Len(evq') = Len(evq) - 1
          /\ Len(evq') \in Nat /\ DOMAIN evq' = 1..Len(evq')
          /\ \A i \in 1..Len(evq') : evq'[i] = evq[i + 1]
          /\ DOMAIN evq = 1..Len(evq)
      BY <2>2, <3>1, SessionFacts, HeadTailProperties, LenProperties
    <3>3. \A i \in DOMAIN evq' : \E j \in DOMAIN evq : evq'[i] = evq[j]
      <4> TAKE i \in DOMAIN evq'
      <4>1. i + 1 \in DOMAIN evq
        BY <3>2, SessionFacts
      <4> QED
        BY <3>2, <4>1
    <3>4. PICK e : e = Head(evq)
      OBVIOUS
    <3>5. /\ e \in Notices /\ e.kind \in Kinds
          /\ e.kind = "switchover" => e.srv \in Servers
      <4>1. 1 \in DOMAIN evq /\ Head(evq) = evq[1] /\ Head(evq) \in Notices
        BY <2>2, <3>2, SessionFacts, HeadTailProperties
      <4> QED
        BY <3>4, <4>1, SessionFacts DEF Named, Notices
    <3>6. /\ status' \in {status, "online", "disconnect"}
          /\ heard' = IF e.kind \in {"start", "err"} THEN heard ELSE e.kind
          /\ app_name' = IF e.kind = "switchover" THEN e.srv ELSE app_name
      BY <3>1, <3>4 DEF ez_kernel_event_notice
    <3>7. heard' \in Events
      BY <1>6, <3>5, <3>6 DEF Kinds
    <3> QED
      BY <1>6, <3>2, <3>3, <3>5, <3>6, <3>7
  <2> QED
    BY <2>1, <2>2
<1>8. Named'
  BY <1>3, <1>4, <1>7, SessionFacts DEF Named
<1>9. SessionTypeOK'
  BY <1>1, <1>2, <1>7, SessionFacts DEF SessionTypeOK, AccessInv, Notices
<1>10. Backlog'
  BY <1>1, <1>3, <1>4, <1>7, SessionFacts, SessionAssumption DEF Backlog, Allowed
<1> QED
  BY <1>2, <1>5, <1>8, <1>9, <1>10 DEF SessionInv

LEMMA PlatformRedirectStep ==
  ASSUME SessionInv, platform_redirect
  PROVE  SessionInv'
<1> PICK srv \in Servers : bus_handle_dev_redirect(srv)
  BY DEF platform_redirect
<1>1. /\ UNCHANGED <<status, app, thread, g_running, heard, starts>>
      /\ UNCHANGED <<evq, stored, crashes>>
  BY DEF platform_redirect, ezVars
<1>2. AccessInv'
  BY SessionFacts, PlatformStep DEF Platform
<1>3. /\ pc \in Waits /\ server_name' = srv /\ master_key' = NoServer
      /\ UNCHANGED <<my_state, pc, access_risk>>
  BY DEF bus_handle_dev_redirect, Dispatches, lifeVars
<1>4. thread # "user" /\ my_state \notin {"idle0", "idle"}
  BY <1>3, SessionFacts DEF SingleDriver, ControlInv, Waits
<1>5. SessionTypeOK'
  BY <1>1, <1>2, SessionFacts DEF SessionTypeOK, AccessInv, stored
<1>6. SingleDriver' /\ Named' /\ KeyInStore'
  BY <1>1, <1>3, <1>4, SessionFacts DEF SingleDriver, Named, KeyInStore
<1>7. Backlog'
  BY <1>1, <1>3, <1>4, SessionFacts DEF Backlog, Allowed, Waits
<1> QED
  BY <1>2, <1>5, <1>6, <1>7 DEF SessionInv

LEMMA PlatformForceOfflineStep ==
  ASSUME SessionInv, platform_force_offline
  PROVE  SessionInv'
<1>1. /\ bus_handle_force_offline /\ Broadcast(Err)
      /\ UNCHANGED <<status, app, thread, g_running, heard, starts>>
      /\ UNCHANGED <<stored, crashes>>
  BY DEF platform_force_offline, ezVars
<1>2. AccessInv'
  BY <1>1, SessionFacts, PlatformStep DEF Platform
<1>3. /\ pc \in Waits
      /\ UNCHANGED <<my_state, pc, server_name, master_key>>
  BY <1>1 DEF bus_handle_force_offline, Dispatches, lifeVars, credVars
<1>4. thread # "user" /\ my_state \in {"start", "stop"}
  BY <1>3, SessionFacts DEF SingleDriver, ControlInv, Waits
<1>5. /\ evq' \in Seq(Notices) /\ Len(evq') \in Nat /\ Len(evq') <= Len(evq) + 1
      /\ Named'
  BY <1>1, <1>3, <1>4, QuietEvents, QuietBroadcast
<1>6. SessionTypeOK'
  BY <1>1, <1>2, <1>5, SessionFacts DEF SessionTypeOK, AccessInv, stored, Notices
<1>7. SingleDriver' /\ KeyInStore'
  BY <1>1, <1>3, SessionFacts DEF SingleDriver, KeyInStore, stored
<1>8. Backlog'
  <2>1. ~access_risk /\ access_risk'
    BY <1>1 DEF platform_force_offline, bus_handle_force_offline
  <2>2. Allowed \in {1, 2} /\ Allowed' = Allowed + 1
    BY <1>1, <1>3, <1>4, <2>1 DEF Allowed, Waits
  <2> QED
    BY <1>1, <1>5, <2>2, SessionFacts, SessionAssumption DEF Backlog
<1> QED
  BY <1>2, <1>5, <1>6, <1>7, <1>8 DEF SessionInv

\* What is in flash stays, and is all that stays.
LEMMA PowerLossStep ==
  ASSUME SessionInv, PowerLoss
  PROVE  SessionInv'
<1>1. /\ my_state' = "idle0" /\ pc' = "out" /\ Zeroed /\ ZeroedCredentials
      /\ status' = "uninit" /\ app' = "idle" /\ thread' = "none"
      /\ evq' = <<>> /\ heard' = "none" /\ starts' = 0
      /\ crashes' = crashes + 1
      /\ kv_key' = kv_key /\ app_name' = app_name
  BY DEF PowerLoss
<1>2. AccessInv'
  <2>1. Init'
    BY DEF PowerLoss, Zeroed, ZeroedCredentials, Uncounted, Init
  <2> QED
    BY <2>1, AccessInit, PTL
<1>3. evq' \in Seq(Notices) /\ Len(evq') = 0 /\ DOMAIN evq' = {}
  BY <1>1
<1>4. SessionTypeOK'
  <2>1. g_running' \in BOOLEAN /\ app_id' \in BOOLEAN
    BY SessionFacts, Zenon DEF PowerLoss, SessionTypeOK
  <2> QED
    BY <1>1, <1>2, <1>3, <2>1, SessionFacts
    DEF SessionTypeOK, AccessInv, Notices, Events
<1>5. SingleDriver' /\ KeyInStore' /\ Named'
  BY <1>1, <1>3
  DEF SingleDriver, KeyInStore, Named, ZeroedCredentials
<1>6. Backlog'
  BY <1>1, <1>3, SessionAssumption DEF Backlog, Allowed
<1> QED
  BY <1>2, <1>4, <1>5, <1>6 DEF SessionInv

LEMMA SessionStutter ==
  ASSUME SessionInv, UNCHANGED svars
  PROVE  SessionInv'
<1>1. UNCHANGED <<vars, status, app, thread, g_running, heard, starts>>
      /\ UNCHANGED <<evq, stored, crashes>>
  BY DEF svars, ezVars
<1> QED
  BY <1>1, SessionAlone

LEMMA SessionInductive == SessionInv /\ [SNext]_svars => SessionInv'
<1> SUFFICES ASSUME SessionInv, [SNext]_svars PROVE SessionInv'
  OBVIOUS
<1>1. CASE App
  BY <1>1, InitStep, StartStep, StartNoThreadStep, StopJoinStep, FiniStep
  DEF App
<1>2. CASE AppCompletes
  BY <1>2, StartReadyStep, StopKernelStep, StopRefusedStep, StopRoundStep,
     StopDoneStep
  DEF AppCompletes
<1>3. CASE Thread
  BY <1>3, YieldLbsOkStep, YieldLbsFailStep, YieldRegLoginStep,
     YieldRegRefusedStep, YieldRegDoneStep, YieldRegUnsubscribedStep,
     YieldWorkStep, YieldRetryOkStep, YieldRetryFailStep, YieldReturnsStep,
     YieldUserStep
  DEF Thread
<1>4. CASE platform_redirect \/ platform_force_offline \/ PowerLoss
  BY <1>4, PlatformRedirectStep, PlatformForceOfflineStep, PowerLossStep
<1>5. CASE UNCHANGED svars
  BY <1>5, SessionStutter
<1> QED
  BY <1>1, <1>2, <1>3, <1>4, <1>5 DEF SNext

\* SessionInv holds in every reachable state.
THEOREM SessionInvariant == SSpec => []SessionInv
  BY SessionInit, SessionInductive, PTL DEF SSpec

\* Kernel, session, queue and store keep their types.
THEOREM SessionTypes == SSpec => []SessionTypeOK
<1>1. SessionInv => SessionTypeOK
  BY DEF SessionInv
<1> QED
  BY <1>1, SessionInvariant, PTL

\* One thread at a time drives the kernel: the join of ez_iot_stop and the
\* states kernel_start and kernel_fini insist on are enough.
THEOREM OneDriver == SSpec => []SingleDriver
<1>1. SessionInv => SingleDriver
  BY DEF SessionInv
<1> QED
  BY <1>1, SessionInvariant, PTL

\* The event queue never holds more than three events and one for each
\* ez_iot_start since ez_iot_init, for any limit of retries but zero.
THEOREM BacklogStaysShort == SSpec => []BacklogBounded
<1>1. SessionInv => BacklogBounded
  <2> SUFFICES ASSUME SessionInv PROVE BacklogBounded
    OBVIOUS
  <2>1. Len(evq) \in Nat /\ starts \in Nat /\ Len(evq) <= starts + Allowed
    BY SessionFacts DEF Backlog
  <2>2. Allowed \in {1, 2, 3}
    BY DEF Allowed
  <2> QED
    BY <2>1, <2>2 DEF BacklogBounded
<1> QED
  BY <1>1, SessionInvariant, PTL

\* A master key in use can be found in the key store after a restart.
THEOREM KeysPersist == SSpec => []KeyPersisted
<1>1. SessionInv => KeyPersisted
  BY DEF SessionInv, KeyInStore, KeyPersisted
<1> QED
  BY <1>1, SessionInvariant, PTL

-----------------------------------------------------------------------------
(* The name of the server.  It can only be relied on while no event is lost *)
(* to a full queue, that is for as many restarts as the queue has room for. *)

QueueRoom == StartMax + 3 <= EvMax

\* So there is room for every event that is broadcast.
LEMMA RoomLeft ==
  ASSUME SessionInv, QueueRoom
  PROVE  /\ Len(evq) <= EvMax
         /\ thread # "user" /\ pc \in {"subscribing", "working"} =>
              Len(evq) + 1 <= EvMax
<1>1. /\ Len(evq) \in Nat /\ starts \in Nat /\ starts <= StartMax
      /\ Len(evq) <= starts + Allowed
  BY SessionFacts DEF Backlog
<1>2. /\ Allowed \in {1, 2, 3}
      /\ thread # "user" /\ pc \in {"subscribing", "working"} =>
           Allowed \in {1, 2}
  BY DEF Allowed
<1> QED
  BY <1>1, <1>2, SessionAssumption DEF QueueRoom

LEMMA NameSame ==
  ASSUME NameKept, UNCHANGED <<evq, server_name, app_name>>,
         my_state = "idle0" => my_state' = "idle0", entr_state' = entr_state
  PROVE  NameKept'
  BY DEF NameKept, Switch

\* Events of another kind behind the last switch leave it the last.
LEMMA NameQuiet ==
  ASSUME SessionInv, NameKept, QueueRoom, NEW n \in Nat, NEW es, Quiet(es, n),
         Broadcast(es), UNCHANGED <<server_name, app_name>>,
         my_state # "idle0", entr_state' = "normal" => entr_state = "normal"
  PROVE  NameKept'
<1>1. /\ es \in Seq(Notices) /\ DOMAIN es = 1..n
      /\ \A k \in DOMAIN es : es[k].kind # "switchover"
  BY LenProperties DEF Quiet
<1>2. /\ \A i \in DOMAIN evq' :
           \/ i \in DOMAIN evq /\ evq'[i] = evq[i]
           \/ evq'[i].kind # "switchover"
      /\ \A i \in DOMAIN evq : i \in DOMAIN evq' /\ evq'[i] = evq[i]
  BY <1>1, SessionFacts, RoomLeft, BroadcastProperties
<1>3. SUFFICES ASSUME my_state' # "idle0", entr_state' = "normal"
      PROVE  \/ /\ server_name' = app_name'
                /\ \A i \in DOMAIN evq' : evq'[i].kind # "switchover"
             \/ \E i \in DOMAIN evq' :
                  /\ evq'[i].kind = "switchover" /\ evq'[i].srv = server_name'
                  /\ \A j \in DOMAIN evq' : j > i => evq'[j].kind # "switchover"
  BY DEF NameKept, Switch
<1>4. CASE server_name = app_name /\ \A i \in DOMAIN evq : ~Switch(i)
  BY <1>2, <1>4 DEF Switch
<1>5. CASE \E i \in DOMAIN evq :
             /\ Switch(i) /\ evq[i].srv = server_name
             /\ \A j \in DOMAIN evq : j > i => ~Switch(j)
  <2> PICK i \in DOMAIN evq :
             /\ evq[i].kind = "switchover" /\ evq[i].srv = server_name
             /\ \A j \in DOMAIN evq : j > i => evq[j].kind # "switchover"
    BY <1>5 DEF Switch
  <2>1. /\ i \in DOMAIN evq' /\ evq'[i].kind = "switchover"
        /\ evq'[i].srv = server_name'
    BY <1>2
  <2>2. \A j \in DOMAIN evq' : j > i => evq'[j].kind # "switchover"
    BY <1>2
  <2> QED
    BY <2>1, <2>2
<1> QED
  BY <1>3, <1>4, <1>5 DEF NameKept

\* A registration after a re-direction announces the server in use.
LEMMA NameAnnounced ==
  ASSUME SessionInv, QueueRoom, yield_reg_done, entr_state = "switchover"
  PROVE  NameKept'
<1> DEFINE e == [kind |-> "switchover", srv |-> server_name]
           n == Len(evq) + 1
<1>1. /\ Broadcast(<<e>>) /\ cnt_das_reg_done /\ thread = "yield"
  BY DEF yield_reg_done, Yielding
<1>2. pc = "subscribing" /\ server_name' = server_name
  BY <1>1 DEF cnt_das_reg_done, credVars
<1>3. e \in Notices /\ e.kind = "switchover" /\ e.srv = server_name
  <2>1. server_name \in Servers
    BY <1>2, SessionFacts DEF ControlInv, Named
  <2> QED
    BY <2>1 DEF Notices, Kinds, Events, OnlineEvents, MaybeServer
<1>4. Len(evq) + 1 <= EvMax /\ evq \in Seq(Notices) /\ Len(evq) \in Nat
  BY <1>1, <1>2, RoomLeft, SessionFacts
<1> HIDE DEF e
<1>5. <<e>> \in Seq(Notices) /\ Len(<<e>>) = 1 /\ <<e>>[1] = e
  BY <1>3
<1>6. evq' = evq \o <<e>>
  BY <1>1, <1>4, <1>5, BroadcastProperties
<1>7. /\ Len(evq') = n /\ evq'[n] = e /\ DOMAIN evq' = 1..n
  BY <1>4, <1>5, <1>6, ConcatProperties, LenProperties
<1>8. /\ n \in DOMAIN evq' /\ evq'[n].kind = "switchover"
      /\ evq'[n].srv = server_name'
      /\ \A j \in DOMAIN evq' : j > n => evq'[j].kind # "switchover"
  BY <1>2, <1>3, <1>4, <1>7
<1> HIDE DEF n
<1> QED
  BY <1>8 DEF NameKept, Switch

\* The application saves the last name once its event is delivered.
LEMMA NameDelivered ==
  ASSUME SessionInv, NameKept, yield_user
  PROVE  NameKept'
<1>1. UNCHANGED <<my_state, entr_state, server_name>>
  BY DEF yield_user, vars, lifeVars, linkVars, credVars
<1>2. CASE evq = <<>>
  BY <1>1, <1>2, NameSame DEF yield_user
<1>3. CASE evq # <<>>
  <2>1. /\ evq' = Tail(evq) /\ evq \in Seq(Notices)
        /\ app_name' = IF Head(evq).kind = "switchover" THEN Head(evq).srv
                       ELSE app_name
    BY <1>3, SessionFacts DEF yield_user, ez_kernel_event_notice
  <2>2. /\ Len(evq) \in Nat /\ Len(evq) >= 1 /\ DOMAIN evq = 1..Len(evq)
        /\ DOMAIN evq' = 1..(Len(evq) - 1) /\ Head(evq) = evq[1]
        /\ \A i \in 1..(Len(evq) - 1) : evq'[i] = evq[i + 1]
    BY <1>3, <2>1, HeadTailProperties, LenProperties, EmptySeq
  <2>3. app_name' = IF evq[1].kind = "switchover" THEN evq[1].srv ELSE app_name
    BY <2>1, <2>2
  <2>4. SUFFICES ASSUME my_state # "idle0", entr_state = "normal"
        PROVE  \/ /\ server_name = app_name'
                  /\ \A i \in DOMAIN evq' : evq'[i].kind # "switchover"
               \/ \E i \in DOMAIN evq' :
                    /\ evq'[i].kind = "switchover" /\ evq'[i].srv = server_name
                    /\ \A j \in DOMAIN evq' : j > i => evq'[j].kind # "switchover"
    BY <1>1 DEF NameKept, Switch
  <2>5. CASE server_name = app_name /\ \A i \in DOMAIN evq : ~Switch(i)
    <3>1. evq[1].kind # "switchover"
      BY <2>2, <2>5 DEF Switch
    <3>2. \A i \in DOMAIN evq' : evq'[i].kind # "switchover"
      BY <2>2, <2>5 DEF Switch
    <3> QED
      BY <2>3, <2>5, <3>1, <3>2
  <2>6. CASE \E i \in DOMAIN evq :
               /\ Switch(i) /\ evq[i].srv = server_name
               /\ \A j \in DOMAIN evq : j > i => ~Switch(j)
    <3> PICK i \in DOMAIN evq :
               /\ evq[i].kind = "switchover" /\ evq[i].srv = server_name
               /\ \A j \in DOMAIN evq : j > i => evq[j].kind # "switchover"
      BY <2>6 DEF Switch
    <3>1. \A j \in DOMAIN evq' : j + 1 > i => evq'[j].kind # "switchover"
      BY <2>2
    <3>2. CASE i = 1
      <4>1. app_name' = server_name
        BY <2>3, <3>2
      <4>2. \A j \in DOMAIN evq' : evq'[j].kind # "switchover"
        BY <2>2, <3>1, <3>2
      <4> QED
        BY <4>1, <4>2
    <3>3. CASE i # 1
      <4>1. i - 1 \in DOMAIN evq' /\ evq'[i - 1] = evq[i]
        BY <2>2, <3>3
      <4>2. \A j \in DOMAIN evq' : j > i - 1 => evq'[j].kind # "switchover"
        BY <2>2, <3>1
      <4> QED
        BY <4>1, <4>2
    <3> QED
      BY <3>2, <3>3
  <2> QED
    BY <2>4, <2>5, <2>6 DEF NameKept
<1> QED
  BY <1>2, <1>3

\* Every other step of the thread inside kernel_yield announces no switch.
LEMMA NameYield ==
  ASSUME SessionInv, NameKept, QueueRoom, kernel_yield, NEW n \in Nat, NEW es,
         Quiet(es, n), Yielded(es), app_name' = app_name,
         entr_state' = entr_state
  PROVE  NameKept'
<1>1. my_state = "start" /\ UNCHANGED server_name
  BY YieldFrame, SessionFacts DEF Yielded, SingleDriver
<1> QED
  BY <1>1, NameQuiet DEF Yielded

LEMMA NameThread ==
  ASSUME SessionInv, NameKept, QueueRoom, Thread
  PROVE  NameKept'
<1> USE DEF Yielding, Yielded, kernel_yield, LbsRound, DasRound, stored
<1>1. CASE yield_lbs_ok
  BY <1>1, QuietEvents, NameYield DEF yield_lbs_ok, cnt_lbs_redirect_ok
<1>2. ASSUME NEW err \in LbsErrors, yield_lbs_fail(err) PROVE NameKept'
  BY <1>2, QuietEvents, NameYield DEF yield_lbs_fail, cnt_lbs_redirect_fail
<1>3. CASE yield_reg_login
  BY <1>3, QuietEvents, NameYield
  DEF yield_reg_login, cnt_das_reg_login, linkVars
<1>4. ASSUME NEW err \in MqttErrors, yield_reg_refused(err) PROVE NameKept'
  <2>1. cnt_das_reg_refused(err) /\ UNCHANGED <<app_name, entr_state>>
    BY <1>4 DEF yield_reg_refused, cnt_das_reg_refused
  <2>2. Yielded(Err \o Break) \/ Yielded(Err)
    BY <1>4 DEF yield_reg_refused
  <2>3. Quiet(Err, 1) /\ Quiet(Err \o Break, 1 + 1)
    BY QuietEvents, QuietConcat
  <2> QED
    BY <2>1, <2>2, <2>3, NameYield
<1>5. CASE yield_reg_done
  <2>1. CASE entr_state = "switchover"
    BY <1>5, <2>1, NameAnnounced
  <2>2. CASE entr_state # "switchover"
    <3>1. /\ cnt_das_reg_done /\ Yielded(<<Event("online")>>)
          /\ app_name' = app_name
      BY <1>5, <2>2 DEF yield_reg_done
    <3>2. entr_state' = entr_state
      BY <2>2, <3>1, SessionFacts DEF cnt_das_reg_done, TypeOK
    <3> QED
      BY <3>1, <3>2, QuietEvents, NameYield
  <2> QED
    BY <2>1, <2>2
<1>6. CASE yield_reg_unsubscribed
  BY <1>6, QuietEvents, NameYield
  DEF yield_reg_unsubscribed, cnt_das_reg_unsubscribed
<1>7. CASE yield_work
  <2>1. app_name' = app_name
    BY <1>7 DEF yield_work
  <2>2. CASE Yielding(cnt_das_work_begin, <<>>)
    BY <2>1, <2>2, QuietEvents, NameYield DEF cnt_das_work_begin, linkVars
  <2>3. CASE Yielding(cnt_das_work_do(TRUE), <<>>)
    BY <2>1, <2>3, QuietEvents, NameYield DEF cnt_das_work_do
  <2>4. CASE Yielding(cnt_das_work_do(FALSE), Err)
    BY <2>1, <2>4, QuietEvents, NameYield DEF cnt_das_work_do
  <2> QED
    BY <1>7, <2>2, <2>3, <2>4 DEF yield_work
<1>8. CASE yield_retry_ok
  BY <1>8, QuietEvents, NameYield DEF yield_retry_ok, cnt_das_retry_ok
<1>9. ASSUME NEW err \in MqttErrors, yield_retry_fail(err) PROVE NameKept'
  <2>1. /\ cnt_das_retry_fail(err) /\ Yielded(RetryEvents(err))
        /\ UNCHANGED <<app_name, entr_state>>
    BY <1>9 DEF yield_retry_fail, cnt_das_retry_fail
  <2>2. PICK n \in 1..3 : Quiet(RetryEvents(err), n)
    BY QuietRetry
  <2> QED
    BY <2>1, <2>2, NameYield
<1>10. CASE yield_backoff \/ yield_force_offline
  <2>1. UNCHANGED <<evq, server_name, app_name, my_state, entr_state>>
    BY <1>10
    DEF yield_backoff, yield_force_offline, vars, lifeVars, linkVars, credVars
  <2> QED
    BY <2>1, NameSame
<1>11. CASE yield_user
  BY <1>11, NameDelivered
<1> QED
  BY <1>1, <1>2, <1>3, <1>4, <1>5, <1>6, <1>7, <1>8, <1>9, <1>10, <1>11
  DEF Thread

LEMMA NameOthers ==
  ASSUME SessionInv, NameKept, QueueRoom,
         \/ App \/ AppCompletes \/ PowerLoss
         \/ platform_redirect \/ platform_force_offline \/ UNCHANGED svars
  PROVE  NameKept'
<1> USE DEF lifeVars, linkVars, credVars, stored
<1>1. CASE ez_iot_init
  <2>1. my_state = "idle0" /\ server_name' = app_name /\ evq' = evq
        /\ app_name' = app_name
    BY <1>1 DEF ez_iot_init, kernel_init
  <2>2. evq' = <<>>
    BY <2>1, SessionFacts DEF Named
  <2> QED
    BY <2>1, <2>2 DEF NameKept
<1>2. CASE ez_iot_start \/ ez_iot_start_no_thread
  <2>1. /\ Broadcast(<<Event("start")>>) /\ my_state \in {"idle", "stop"}
        /\ UNCHANGED <<server_name, app_name, entr_state>>
    BY <1>2 DEF ez_iot_start, ez_iot_start_no_thread, kernel_start
  <2> QED
    BY <2>1, QuietEvents, NameQuiet
<1>3. CASE ez_iot_stop_round
  <2> PICK ok \in BOOLEAN :
        /\ kernel_stop_round(ok)
        /\ Broadcast(IF ok THEN <<>> ELSE <<Event("err")>>)
    BY <1>3 DEF ez_iot_stop_round
  <2>1. Broadcast(<<>>) \/ Broadcast(Err)
    BY DEF Err
  <2>2. /\ my_state = "stop" /\ UNCHANGED <<server_name, app_name, entr_state>>
    BY <1>3, SessionFacts DEF ez_iot_stop_round, kernel_stop_round, ControlInv
  <2> QED
    BY <2>1, <2>2, QuietEvents, NameQuiet
<1>4. CASE platform_force_offline
  <2>1. /\ Broadcast(Err) /\ pc \in Waits
        /\ UNCHANGED <<server_name, app_name, entr_state>>
    BY <1>4
    DEF platform_force_offline, bus_handle_force_offline, Dispatches
  <2>2. my_state # "idle0"
    BY <2>1, SessionFacts DEF ControlInv, Waits
  <2> QED
    BY <2>1, <2>2, QuietEvents, NameQuiet
<1>5. CASE platform_redirect
  BY <1>5 DEF platform_redirect, bus_handle_dev_redirect, NameKept
<1>6. CASE PowerLoss
  BY <1>6 DEF PowerLoss, NameKept
<1>7. CASE ez_iot_fini
  <2>1. CASE kernel_fini
    BY <2>1 DEF kernel_fini, NameKept
  <2>2. CASE UNCHANGED <<vars, evq>>
    BY <1>7, <2>2, NameSame DEF ez_iot_fini, vars
  <2> QED
    BY <1>7, <2>1, <2>2 DEF ez_iot_fini
<1>8. CASE \/ ez_iot_start_ready \/ ez_iot_stop_join \/ ez_iot_stop_kernel
           \/ ez_iot_stop_refused \/ ez_iot_stop_done \/ UNCHANGED svars
  <2>1. /\ UNCHANGED <<evq, server_name, app_name, entr_state>>
        /\ my_state = "idle0" => my_state' = "idle0"
    BY <1>8
    DEF ez_iot_start_ready, ez_iot_stop_join, ez_iot_stop_kernel, kernel_stop,
        ez_iot_stop_refused, ez_iot_stop_done, stop_yield, vars, svars
  <2> QED
    BY <2>1, NameSame
<1> QED
  BY <1>1, <1>2, <1>3, <1>4, <1>5, <1>6, <1>7, <1>8 DEF App, AppCompletes

\* A server name the platform assigned is saved in the end or still on its
\* way to the application, while the device is not restarted more often than
\* its event queue has room for (61 times between ez_iot_init and _fini).
THEOREM NamesAreSaved == QueueRoom => (SSpec => []NameWillBeSaved)
<1> SUFFICES ASSUME QueueRoom PROVE SSpec => []NameWillBeSaved
  OBVIOUS
<1>1. SInit => NameKept
  BY DEF SInit, Init, NameKept
<1>2. SessionInv /\ NameKept /\ [SNext]_svars => NameKept'
  BY NameThread, NameOthers DEF SNext
<1>3. SessionInv /\ NameKept => NameWillBeSaved
  <2> SUFFICES ASSUME SessionInv, NameKept PROVE NameWillBeSaved
    OBVIOUS
  <2>1. DOMAIN evq = 1..Len(evq) /\ entr_state \in {"normal", "switchover"}
    BY SessionFacts, LenProperties DEF TypeOK
  <2> QED
    BY <2>1 DEF NameKept, Switch, NameWillBeSaved
<1> QED
  BY <1>1, <1>2, <1>3, SessionInvariant, PTL DEF SSpec

-----------------------------------------------------------------------------
(* The session drives the kernel: what is proved of KernelAccess holds of  *)
(* the device, whatever the two threads do and whenever power is lost.     *)

LEMMA ThreadDrivesKernel ==
  ASSUME Thread PROVE kernel_yield \/ UNCHANGED vars
<1>1. ASSUME NEW err \in LbsErrors, yield_lbs_fail(err) PROVE kernel_yield
  BY <1>1 DEF yield_lbs_fail, Yielding, kernel_yield, LbsRound
<1>2. ASSUME NEW err \in MqttErrors,
             yield_reg_refused(err) \/ yield_retry_fail(err)
      PROVE  kernel_yield
  BY <1>2 DEF yield_reg_refused, yield_retry_fail, Yielding, kernel_yield, DasRound
<1>3. CASE yield_lbs_ok \/ yield_reg_login \/ yield_reg_done
  BY <1>3 DEF yield_lbs_ok, yield_reg_login, yield_reg_done, Yielding,
              kernel_yield, LbsRound, DasRound
<1>4. CASE yield_reg_unsubscribed \/ yield_work \/ yield_retry_ok
  BY <1>4 DEF yield_reg_unsubscribed, yield_work, yield_retry_ok, Yielding,
              kernel_yield, DasRound
<1>5. CASE yield_backoff \/ yield_force_offline \/ yield_user
  BY <1>5 DEF yield_backoff, yield_force_offline, yield_user
<1> QED
  BY <1>1, <1>2, <1>3, <1>4, <1>5 DEF Thread

LEMMA ApplicationDrivesKernel ==
  ASSUME SessionInv, App \/ AppCompletes
  PROVE  Caller \/ StopSteps \/ UNCHANGED vars \/ ez_iot_start_no_thread
<1>1. CASE ez_iot_init
  <2>1. app_name \in Servers /\ app_id \in BOOLEAN /\ kv_key \in MaybeServer
    BY SessionFacts DEF SessionTypeOK
  <2> QED
    BY <1>1, <2>1 DEF ez_iot_init, Caller
<1>2. CASE ez_iot_start \/ ez_iot_stop_kernel \/ ez_iot_fini
  BY <1>2 DEF ez_iot_start, ez_iot_stop_kernel, ez_iot_fini, Caller
<1>3. CASE ez_iot_stop_round \/ ez_iot_stop_done
  BY <1>3 DEF ez_iot_stop_round, ez_iot_stop_done, StopSteps
<1>4. CASE ez_iot_stop_join \/ ez_iot_start_ready \/ ez_iot_stop_refused
  BY <1>4 DEF ez_iot_stop_join, ez_iot_start_ready, ez_iot_stop_refused
<1> QED
  BY <1>1, <1>2, <1>3, <1>4 DEF App, AppCompletes

\* A step of the session is a step of the kernel, unless it takes a start
\* back or power is lost.
LEMMA SessionDrivesKernel ==
  ASSUME SessionInv, [SNext]_svars
  PROVE  [Next]_vars \/ ez_iot_start_no_thread \/ PowerLoss
<1>1. CASE App \/ AppCompletes
  BY <1>1, ApplicationDrivesKernel DEF Next
<1>2. CASE Thread
  BY <1>2, ThreadDrivesKernel DEF Next
<1>3. CASE platform_redirect \/ platform_force_offline
  BY <1>3 DEF platform_redirect, platform_force_offline, Platform, Next
<1>4. CASE UNCHANGED svars
  BY <1>4 DEF svars
<1> QED
  BY <1>1, <1>2, <1>3, <1>4 DEF SNext

\* The safety of the kernel survives its use: registered means logged in,
\* credentials are of one server and the user was told, whatever key, device
\* id and server name flash held at the last ez_iot_init.
THEOREM KernelStaysSafe ==
  SSpec => [](/\ RegedMeansLoggedIn /\ RegistersWithFreshSession
              /\ CredentialsMatch /\ UserWasTold)
<1>1. SessionInv => /\ RegedMeansLoggedIn /\ RegistersWithFreshSession
                    /\ CredentialsMatch /\ UserWasTold
  BY DEF SessionInv, AccessInv
<1> QED
  BY <1>1, SessionInvariant, PTL

\* A banned device does not log in through any sequence of ez_iot calls
\* either, not even when a start is taken back.
THEOREM BannedStaysOut == SSpec => BannedNeverLogsIn
<1> DEFINE NoLogin == access_risk => logged' \in {logged, NoServer}
<1>1. SessionInv /\ [SNext]_svars => [NoLogin]_vars
  <2> SUFFICES ASSUME SessionInv, [SNext]_svars PROVE NoLogin
    OBVIOUS
  <2>1. CASE ez_iot_start_no_thread
    BY <2>1 DEF ez_iot_start_no_thread
  <2>2. CASE PowerLoss
    BY <2>2 DEF PowerLoss, Zeroed
  <2> QED
    BY <2>1, <2>2, SessionDrivesKernel, NoLoginWhenBanned
<1> QED
  BY <1>1, SessionInvariant, PTL DEF SSpec, BannedNeverLogsIn

\* The device as the application sees it keeps the contract of the link: an
\* event announces each change but a break, also across failed starts, and
\* a loss of power only takes the link down.
THEOREM DeviceKeepsContract == SSpec => Contract!DeviceSpec
<1>1. SInit => Contract!LInit
  BY ContractInit DEF SInit
<1>2. SessionInv /\ [SNext]_svars => [Contract!DeviceNext]_(Contract!lvars)
  <2> SUFFICES ASSUME SessionInv, [SNext]_svars
               PROVE  [Contract!DeviceNext]_(Contract!lvars)
    OBVIOUS
  <2>1. CASE [Next]_vars
    BY <2>1, SessionFacts, ContractStep DEF Contract!DeviceNext
  <2>2. CASE ez_iot_start_no_thread
    <3>1. CASE access_risk
      BY <2>2, <3>1, Zenon DEF ez_iot_start_no_thread, LinkOf,
         Contract!Start, Contract!LNext, Contract!DeviceNext
    <3>2. CASE ~access_risk
      BY <2>2, <3>2 DEF ez_iot_start_no_thread, LinkOf,
         Contract!StartUndone, Contract!DeviceNext
    <3> QED
      BY <3>1, <3>2
  <2>3. CASE PowerLoss
    BY <2>3 DEF PowerLoss, Zeroed, LinkOf,
       Contract!PowerLoss, Contract!DeviceNext
  <2> QED
    BY <2>1, <2>2, <2>3, SessionDrivesKernel
<1> QED
  BY <1>1, <1>2, SessionInvariant, PTL DEF SSpec, Contract!DeviceSpec
=============================================================================
