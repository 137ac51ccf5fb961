----------------------------- MODULE IotSession -----------------------------
(***************************************************************************)
(* The ez_iot API on top of the kernel (src/ez_iot_sdk/src: ez_iot.c,      *)
(* ez_iot_yeild.c, ez_iot_ctx.c, with ezdev_sdk_kernel_event.c and the     *)
(* event queue of ezdev_sdk_kerne_queuel.c).                               *)
(*                                                                         *)
(* The application's thread calls ez_iot_init / start / stop / fini; the   *)
(* thread ez_iot_start creates alternates kernel_yield, which broadcasts   *)
(* events into a bounded queue, and kernel_yield_user, which delivers one. *)
(* The device may lose power at any point: g_ez_iot_ctx and the kernel are *)
(* lost, the key store and what the application saved remain.              *)
(*                                                                         *)
(* hal_thread_destroy is the POSIX one, which joins the thread.            *)
(***************************************************************************)
EXTENDS KernelAccess, Sequences

CONSTANTS EvMax,      \* capacity of the event queue (64)
          StartMax,   \* bound: ez_iot_start calls per ez_iot_init
          CrashMax    \* bound: power losses

ASSUME SessionAssumption ==
  /\ EvMax \in Nat /\ StartMax \in Nat /\ CrashMax \in Nat
  /\ BreakRetryMax # 0

VARIABLES status,     \* g_ez_iot_ctx.status
          app,        \* what the application's thread is doing
          thread,     \* where ez_kernel_yeild_thread is
          g_running,
          evq,        \* the kernel's inner event queue
          heard,      \* last connectivity event delivered since ez_iot_start
          starts,     \* ez_iot_start calls since ez_iot_init
          kv_key,     \* EZ_BASIC_KEY_MASTERKEY in the key store
          app_id,     \* the application saved a device id
          app_name,   \* server name in the application's configuration
          crashes

ezVars == <<status, app, thread, g_running, heard, starts>>
stored == <<kv_key, app_id, app_name>>
svars == <<vars, ezVars, evq, stored, crashes>>

Kinds == (Events \ {"none"}) \cup {"err"}
Event(kind) == [kind |-> kind, srv |-> NoServer]

SessionTypeOK ==
  /\ TypeOK
  /\ status \in {"uninit", "init", "ready", "online", "disconnect"}
  /\ app \in {"idle", "starting", "joining", "stopping"}
  /\ thread \in {"none", "yield", "user", "exited"}
  /\ g_running \in BOOLEAN
  /\ evq \in Seq([kind : Kinds, srv : MaybeServer])
  /\ heard \in Events
  /\ starts \in Nat /\ crashes \in Nat
  /\ kv_key \in MaybeServer /\ app_id \in BOOLEAN /\ app_name \in Servers

SInit ==
  /\ Init
  /\ status = "uninit" /\ app = "idle" /\ thread = "none"
  /\ g_running = FALSE /\ evq = <<>> /\ heard = "none" /\ starts = 0
  /\ kv_key = NoServer /\ app_id = FALSE /\ app_name \in Servers
  /\ crashes = 0

-----------------------------------------------------------------------------
(* The event queue: push_event_to_queue gives up on a full queue *)

Broadcast(es) ==
  LET q == evq \o es
  IN  evq' = IF Len(q) <= EvMax THEN q ELSE SubSeq(q, 1, EvMax)

-----------------------------------------------------------------------------
(* The application's calls: ez_iot.c *)

Calls == app = "idle"

\* dev_id comes from the caller, the master key from the key store.
ez_iot_init ==
  /\ Calls /\ status = "uninit"
  /\ kernel_init(app_name, app_id, kv_key)
  /\ status' = "init" /\ starts' = 0
  /\ UNCHANGED <<app, thread, g_running, heard, evq, stored, crashes>>

ez_iot_start ==
  /\ Calls /\ status # "uninit" /\ starts < StartMax
  /\ kernel_start
  /\ Broadcast(<<Event("start")>>)
  /\ g_running' = TRUE /\ thread' = "yield" /\ app' = "starting"
  /\ heard' = "none" /\ starts' = starts + 1
  /\ UNCHANGED <<status, stored, crashes>>

\* The last statement of ez_iot_start, with the new thread already running.
ez_iot_start_ready ==
  /\ app = "starting"
  /\ status' = "ready" /\ app' = "idle"
  /\ UNCHANGED <<vars, thread, g_running, heard, starts, evq, stored, crashes>>

\* hal_thread_create failed: kernel_stop at once, which a blacklisted kernel
\* refuses, but status_ready is set.
ez_iot_start_no_thread ==
  /\ Calls /\ status # "uninit" /\ starts < StartMax
  /\ my_state \in {"idle", "stop"} /\ pc = "out"
  /\ told' = "start"
  /\ \/ /\ ~access_risk /\ my_state' = "stop"
        /\ cnt_state' = "unredirect" /\ logged' = NoServer
     \/ /\ access_risk /\ my_state' = "start"
        /\ UNCHANGED <<cnt_state, logged>>
  /\ Broadcast(<<Event("start")>>)
  /\ status' = "ready" /\ thread' = "none" /\ g_running' = FALSE
  /\ heard' = "none" /\ starts' = starts + 1
  /\ UNCHANGED <<pc, entr_state, access_risk, counters, credVars>>
  /\ UNCHANGED <<handler, opt, app, stored, crashes>>

\* ez_iot_stop up to hal_thread_destroy, which waits for the thread.
ez_iot_stop_join ==
  /\ Calls /\ status \notin {"uninit", "init"}
  /\ g_running' = FALSE /\ app' = "joining"
  /\ UNCHANGED <<vars, status, thread, heard, starts, evq, stored, crashes>>

\* Fault: hal_thread_destroy returns before the thread has ended.
JoinedAtOnce == thread = thread

Joined == thread \in {"none", "exited"}

ez_iot_stop_kernel ==
  /\ app = "joining" /\ Joined
  /\ kernel_stop
  /\ thread' = "none" /\ app' = "stopping"
  /\ UNCHANGED <<status, g_running, heard, starts, evq, stored, crashes>>

\* kernel_stop refused: ez_iot_stop returns the error, status untouched.
ez_iot_stop_refused ==
  /\ app = "joining" /\ Joined
  /\ ~(my_state = "start" /\ ~access_risk)
  /\ thread' = "none" /\ app' = "idle"
  /\ UNCHANGED <<vars, status, g_running, heard, starts, evq, stored, crashes>>

ez_iot_stop_round ==
  /\ app = "stopping"
  /\ \E ok \in BOOLEAN :
       /\ kernel_stop_round(ok)
       /\ Broadcast(IF ok THEN <<>> ELSE <<Event("err")>>)
  /\ UNCHANGED <<ezVars, stored, crashes>>

ez_iot_stop_done ==
  /\ app = "stopping"
  /\ stop_yield
  /\ status' = "init" /\ app' = "idle"
  /\ UNCHANGED <<thread, g_running, heard, starts, evq, stored, crashes>>

\* Any time; the result of kernel_fini is not looked at.
ez_iot_fini ==
  /\ Calls /\ status # "uninit"
  /\ status' = "uninit"
  /\ IF my_state \in {"idle", "stop"}
       THEN kernel_fini /\ evq' = <<>>
       ELSE UNCHANGED <<vars, evq>>
  /\ UNCHANGED <<app, thread, g_running, heard, starts, stored, crashes>>

-----------------------------------------------------------------------------
(* ez_kernel_yeild_thread: kernel_yield, kernel_yield_user, loop *)

\* kernel_yield waits for its back-off timer before the next attempt.
BackingOff ==
  \/ cnt_state = "unredirect" /\ lbs_failed
  \/ cnt_state \in {"redirected", "das_break"} /\ das_retry_times > 0

\* A step of kernel_yield that broadcasts es; when the call returns (pc is
\* "out" again) the thread goes on to kernel_yield_user.  A back-off lasts a
\* second or more, a hundred rounds of the thread at least: it has emptied
\* the queue of 64 events when the attempt is made.
Yielding(step, es) ==
  /\ thread = "yield"
  /\ pc = "out" /\ BackingOff => evq = <<>>
  /\ step
  /\ Broadcast(es)
  /\ thread' = IF pc' = "out" THEN "user" ELSE "yield"
  /\ UNCHANGED <<status, app, g_running, heard, starts, crashes>>

Err == <<Event("err")>>
Break == <<Event("break")>>

\* Fault: only the master key of a new device is saved.
yield_lbs_ok_SavesOnce ==
  /\ Yielding(cnt_lbs_redirect_ok, <<>>)
  /\ app_id' = (app_id \/ ~dev_id)
  /\ kv_key' = IF dev_id THEN kv_key ELSE server_name
  /\ UNCHANGED app_name

\* lbs_redirect_*: with_auth variants save_key_value the device id (the
\* application is told and saves it) and the master key.
yield_lbs_ok ==
  /\ Yielding(cnt_lbs_redirect_ok, <<>>)
  /\ app_id' = (app_id \/ ~dev_id)
  /\ kv_key' = IF dev_id /\ master_key # NoServer THEN kv_key ELSE server_name
  /\ UNCHANGED app_name

RetryEvents(err) ==
  Err \o (IF das_retry_times >= BreakRetryMax THEN Break ELSE <<>>)
      \o (IF err = "redirect" THEN Break ELSE <<>>)

yield_lbs_fail(err) ==
  Yielding(cnt_lbs_redirect_fail(err), Err) /\ UNCHANGED stored

yield_reg_login == Yielding(cnt_das_reg_login, <<>>) /\ UNCHANGED stored

yield_reg_refused(err) ==
  /\ Yielding(cnt_das_reg_refused(err),
              IF err = "redirect" THEN Err \o Break ELSE Err)
  /\ UNCHANGED stored

\* Fault: a registration is announced as any other after a switch.
yield_reg_done_AsOnline ==
  Yielding(cnt_das_reg_done, <<Event("online")>>) /\ UNCHANGED stored

yield_reg_done ==
  /\ Yielding(cnt_das_reg_done,
              IF entr_state = "switchover"
                THEN <<[kind |-> "switchover", srv |-> server_name]>>
                ELSE <<Event("online")>>)
  /\ UNCHANGED stored

yield_reg_unsubscribed ==
  Yielding(cnt_das_reg_unsubscribed, Err) /\ UNCHANGED stored

yield_work ==
  /\ \/ Yielding(cnt_das_work_begin, <<>>)
     \/ Yielding(cnt_das_work_do(TRUE), <<>>)
     \/ Yielding(cnt_das_work_do(FALSE), Err)
  /\ UNCHANGED stored

yield_retry_ok ==
  Yielding(cnt_das_retry_ok, <<Event("reconnect")>>) /\ UNCHANGED stored

yield_retry_fail(err) ==
  Yielding(cnt_das_retry_fail(err), RetryEvents(err)) /\ UNCHANGED stored

\* The back-off timer has not expired: kernel_yield does nothing.
yield_backoff ==
  /\ thread = "yield" /\ pc = "out" /\ ~access_risk
  /\ BackingOff
  /\ thread' = "user"
  /\ UNCHANGED <<vars, status, app, g_running, heard, starts>>
  /\ UNCHANGED <<evq, stored, crashes>>

\* das_force_offline breaks the loop: events still queued stay there.
yield_force_offline ==
  /\ thread = "yield" /\ pc = "out" /\ access_risk
  /\ thread' = "exited"
  /\ UNCHANGED <<vars, status, app, g_running, heard, starts>>
  /\ UNCHANGED <<evq, stored, crashes>>

\* Fault: the name is taken from whatever event arrives.
ez_kernel_event_notice_AnyName(e) ==
  /\ status' = CASE e.kind \in OnlineEvents -> "online"
                 [] e.kind = "break" -> "disconnect"
                 [] OTHER -> status
  /\ heard' = IF e.kind \in {"start", "err"} THEN heard ELSE e.kind
  /\ app_name' = e.srv

\* ez_kernel_event_notice for one event: status, callback, saved name.
ez_kernel_event_notice(e) ==
  /\ status' = CASE e.kind \in OnlineEvents -> "online"
                 [] e.kind = "break" -> "disconnect"
                 [] OTHER -> status
  /\ heard' = IF e.kind \in {"start", "err"} THEN heard ELSE e.kind
  /\ app_name' = IF e.kind = "switchover" THEN e.srv ELSE app_name

\* Fault: an event is delivered and left in the queue.
yield_user_LeavesEvent ==
  /\ thread = "user"
  /\ IF evq = <<>>
       THEN UNCHANGED <<status, heard, app_name>>
       ELSE ez_kernel_event_notice(Head(evq))
  /\ thread' = IF g_running THEN "yield" ELSE "exited"
  /\ UNCHANGED <<vars, app, evq, g_running, starts, kv_key, app_id, crashes>>

\* Fault: the loop does not look at g_running.
yield_user_NeverEnds ==
  /\ thread = "user"
  /\ IF evq = <<>>
       THEN UNCHANGED <<status, heard, app_name, evq>>
       ELSE ez_kernel_event_notice(Head(evq)) /\ evq' = Tail(evq)
  /\ thread' = "yield"
  /\ UNCHANGED <<vars, app, g_running, starts, kv_key, app_id, crashes>>

yield_user ==
  /\ thread = "user"
  /\ IF evq = <<>>
       THEN UNCHANGED <<status, heard, app_name, evq>>
       ELSE ez_kernel_event_notice(Head(evq)) /\ evq' = Tail(evq)
  /\ thread' = IF g_running THEN "yield" ELSE "exited"
  /\ UNCHANGED <<vars, app, g_running, starts, kv_key, app_id, crashes>>

platform_redirect ==
  /\ \E srv \in Servers : bus_handle_dev_redirect(srv)
  /\ UNCHANGED <<ezVars, evq, stored, crashes>>

\* Bound: the platform sends the command once to a device.
platform_force_offline ==
  /\ ~access_risk
  /\ bus_handle_force_offline
  /\ Broadcast(Err)
  /\ UNCHANGED <<ezVars, stored, crashes>>

-----------------------------------------------------------------------------
(* Power loss: everything but flash is gone.  The second form hits between *)
(* the two writes of save_key_value.                                       *)

PowerLoss ==
  /\ crashes < CrashMax /\ crashes' = crashes + 1
  /\ my_state' = "idle0" /\ pc' = "out" /\ opt' = FALSE
  /\ Zeroed /\ ZeroedCredentials
  /\ status' = "uninit" /\ app' = "idle" /\ thread' = "none"
  /\ g_running' = FALSE /\ evq' = <<>> /\ heard' = "none" /\ starts' = 0
  /\ UNCHANGED <<kv_key, app_name>>
  /\ \/ UNCHANGED app_id
     \/ thread = "yield" /\ Yields("unredirect") /\ app_id' = TRUE

-----------------------------------------------------------------------------
App ==
  \/ ez_iot_init \/ ez_iot_start \/ ez_iot_start_no_thread
  \/ ez_iot_stop_join \/ ez_iot_fini

AppCompletes ==
  \/ ez_iot_start_ready \/ ez_iot_stop_kernel \/ ez_iot_stop_refused
  \/ ez_iot_stop_round \/ ez_iot_stop_done

Thread ==
  \/ yield_lbs_ok \/ yield_reg_login \/ yield_reg_done
  \/ yield_reg_unsubscribed \/ yield_work \/ yield_retry_ok
  \/ \E err \in LbsErrors : yield_lbs_fail(err)
  \/ \E err \in MqttErrors : yield_reg_refused(err) \/ yield_retry_fail(err)
  \/ yield_backoff \/ yield_force_offline \/ yield_user

SNext ==
  \/ App \/ AppCompletes \/ Thread
  \/ platform_redirect \/ platform_force_offline \/ PowerLoss

SSpec == SInit /\ [][SNext]_svars

\* The operating system runs both threads.
SLiveSpec == SSpec /\ WF_svars(AppCompletes) /\ WF_svars(Thread)

\* Moreover no step of going online is refused for ever.
SNetFairness ==
  /\ SF_svars(yield_lbs_ok)
  /\ SF_svars(yield_lbs_fail("masterkey_invalid"))
  /\ SF_svars(yield_reg_login)
  /\ SF_svars(yield_reg_done)

-----------------------------------------------------------------------------
(* Properties *)

\* The kernel is driven by one thread at a time: while the yield thread is
\* inside kernel_yield or kernel_yield_user the kernel is started and the
\* application is not past the join of ez_iot_stop (hal_thread_destroy).
SingleDriver ==
  /\ thread \in {"yield", "user"} => my_state = "start" /\ app # "stopping"
  /\ pc \in {"subscribing", "working"} => thread = "yield"
  /\ pc \in {"last_round", "unregistering"} => app = "stopping"

\* Alternating with kernel_yield_user keeps the event queue short: it holds
\* a few events plus one per restart since ez_iot_init (extend_yield pops
\* one per round, nothing drains the queue in kernel_stop).
BacklogBounded == Len(evq) <= 3 + starts

\* The master key in use is in the key store (save_key_value), so that the
\* next ez_iot_init finds it, whatever re-directions and crashes happened.
KeyPersisted ==
  session # NoServer /\ master_key # NoServer => kv_key = master_key

\* A server name the platform assigned is not forgotten: until the user has
\* been told of it, the switch is pending or its event is still queued.
NameWillBeSaved ==
  my_state \in {"start", "stop"} /\ server_name # app_name =>
    \/ entr_state = "switchover"
    \/ \E i \in 1..Len(evq) :
         evq[i].kind = "switchover" /\ evq[i].srv = server_name

\* ez_iot_stop returns: neither the join nor the drain of kernel_stop hangs.
StopReturns == app \in {"joining", "stopping"} ~> app = "idle"

\* A started device that is not banned, stopped or powered off gets online
\* and the application hears of it, whatever keys and names flash held.
OnlineHeard ==
  SNetFairness =>
    (thread \in {"yield", "user"} ~>
       (heard \in OnlineEvents \/ access_risk \/ ~g_running))

\* The access document, step 3: after ez_iot_start, "receiving the callback
\* ez_iot_event_online means the device is connected to the cloud".
OnlineMeansConnected ==
  my_state = "start" /\ told = "start" => heard \notin OnlineEvents

-----------------------------------------------------------------------------
(* The inductive invariant behind BacklogBounded, KeyPersisted and          *)
(* NameWillBeSaved; that of KernelAccess is a part of it.                   *)

\* An initialised kernel has a server name and announces no other than a
\* proper one; the event queue is empty until the first kernel_start.
Named ==
  /\ my_state # "idle0" => server_name \in Servers
  /\ my_state \in {"idle0", "idle"} => evq = <<>>
  /\ \A i \in DOMAIN evq : evq[i].kind = "switchover" => evq[i].srv \in Servers

KeyInStore == master_key # NoServer => kv_key = master_key

\* How many events may be queued, beyond one for each ez_iot_start, at each
\* place of the two threads.  A ban brings one more, and is the last.
Allowed ==
  IF thread = "user"
    THEN IF cnt_state = "unredirect" \/ access_risk THEN 3 ELSE 2
  ELSE IF pc = "out"
    THEN IF access_risk THEN 3 ELSE IF cnt_state = "unredirect" THEN 2 ELSE 1
  ELSE IF pc = "unregistering"
    THEN IF access_risk THEN 3 ELSE 2
  ELSE IF access_risk THEN 2 ELSE 1

Backlog == Len(evq) <= starts + Allowed /\ starts <= StartMax

SessionInv ==
  /\ AccessInv /\ SessionTypeOK /\ SingleDriver /\ Named /\ KeyInStore
  /\ Backlog

\* The last switch announced, if its event is still queued, is to the server
\* in use; otherwise that is the one the application has saved.
Switch(i) == evq[i].kind = "switchover"

NameKept ==
  my_state # "idle0" /\ entr_state = "normal" =>
    \/ server_name = app_name /\ \A i \in DOMAIN evq : ~Switch(i)
    \/ \E i \in DOMAIN evq :
         /\ Switch(i) /\ evq[i].srv = server_name
         /\ \A j \in DOMAIN evq : j > i => ~Switch(j)
=============================================================================
