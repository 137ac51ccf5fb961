---------------------------- MODULE KernelAccess ----------------------------
(***************************************************************************)
(* The access state machine of the micro kernel (src/microkernel/src):     *)
(* ezdev_sdk_kernel.c (life cycle), ezdev_sdk_kernel_access.c (cnt_state), *)
(* the login part of das_transport.c and MQTTClient.c, and the platform    *)
(* commands of access_domain_bus.c that rewrite the same state.            *)
(*                                                                         *)
(* One thread drives kernel_init / start / yield / stop / fini.  While it  *)
(* waits for a packet (pc # "out") the MQTT client may hand it a platform  *)
(* command, whose handler runs re-entrantly and assigns cnt_state under    *)
(* the feet of the function that is waiting.  Any other thread may call    *)
(* ezdev_sdk_kernel_set_net_option(3), an unlocked check-then-store.       *)
(*                                                                         *)
(* Time is abstracted: a yield whose back-off timer has not expired        *)
(* returns with nothing changed, a stuttering step, and of                 *)
(* lbs_redirect_times, which only scales the back-off, the model keeps     *)
(* whether it is zero.                                                     *)
(***************************************************************************)
EXTENDS Naturals

CONSTANTS Servers,        \* LBS names a device can be sent to
          NoServer,       \* an empty name, key or session
          RegRetryMax,    \* the 5 of cnt_das_reg_do
          BreakRetryMax   \* the 3 of cnt_das_retry_do

ASSUME NoServerAssumption == NoServer \notin Servers
ASSUME RetryAssumption == RegRetryMax \in Nat /\ BreakRetryMax \in Nat

VARIABLES my_state,         \* sdk_idle0, sdk_idle, sdk_start, sdk_stop
          cnt_state,        \* sdk_cnt_unredirect .. sdk_cnt_das_break
          entr_state,       \* sdk_entrance_normal, sdk_entrance_switchover
          access_risk,      \* sdk_risk_control is set
          das_retry_times,
          lbs_failed,       \* lbs_redirect_times is not zero
          server_name,      \* server_info.server_name
          dev_id,           \* dev_id is not the empty string
          master_key,       \* the LBS master_key was negotiated with
          session,          \* the LBS that issued session_key and DAS address
          logged,           \* the session MQTT isconnected was reached with
          handler,          \* das_message_receive is in messageHandlers
          pc,               \* where the driving thread waits for packets
          opt,              \* a set_net_option(3) passed its check
          told              \* the last connectivity event broadcast

lifeVars == <<my_state, pc>>
counters == <<das_retry_times, lbs_failed>>
linkVars == <<cnt_state, entr_state, access_risk, counters, told>>
credVars == <<server_name, dev_id, master_key, session>>
mqttVars == <<logged, handler>>
vars == <<lifeVars, linkVars, credVars, mqttVars, opt>>

MaybeServer == Servers \cup {NoServer}
OnlineEvents == {"online", "switchover", "reconnect"}
Events == OnlineEvents \cup {"none", "start", "break"}

(***************************************************************************)
(* Where cycle() reads packets: waiting for SUBACK in das_reg, inside      *)
(* das_yield (MQTTYield, or PUBACK of a message), inside the one das_yield *)
(* of kernel_stop, and waiting for UNSUBACK in stop_yield.                 *)
(***************************************************************************)
Waits == {"subscribing", "working", "last_round", "unregistering"}

\* No back-off is longer than the last one before giving up.
RetryTimes == {n \in Nat : n <= RegRetryMax \/ n <= BreakRetryMax}

TypeOK ==
  /\ my_state \in {"idle0", "idle", "start", "stop"}
  /\ cnt_state \in {"unredirect", "redirected", "das_reged", "das_break"}
  /\ entr_state \in {"normal", "switchover"}
  /\ access_risk \in BOOLEAN
  /\ das_retry_times \in RetryTimes /\ lbs_failed \in BOOLEAN
  /\ server_name \in MaybeServer
  /\ dev_id \in BOOLEAN
  /\ master_key \in MaybeServer
  /\ session \in MaybeServer
  /\ logged \in MaybeServer
  /\ handler \in BOOLEAN
  /\ pc \in Waits \cup {"out"}
  /\ opt \in BOOLEAN
  /\ told \in Events

Init ==
  /\ my_state = "idle0" /\ pc = "out"
  /\ cnt_state = "unredirect" /\ entr_state = "normal"
  /\ access_risk = FALSE /\ told = "none"
  /\ das_retry_times = 0 /\ lbs_failed = FALSE
  /\ server_name = NoServer /\ dev_id = FALSE
  /\ master_key = NoServer /\ session = NoServer
  /\ logged = NoServer /\ handler = FALSE
  /\ opt = FALSE

-----------------------------------------------------------------------------
(* Life cycle: ezdev_sdk_kernel.c *)

\* Where the code clears das_retry_times it clears lbs_redirect_times too.
Uncounted == das_retry_times' = 0 /\ lbs_failed' = FALSE

\* memset of g_ezdev_sdk_kernel, MQTTClientInit and MQTTClientFini.
Zeroed ==
  /\ cnt_state' = "unredirect" /\ entr_state' = "normal"
  /\ access_risk' = FALSE /\ told' = "none"
  /\ Uncounted
  /\ session' = NoServer /\ logged' = NoServer /\ handler' = FALSE

\* The caller hands over whatever it has stored: a device id or none, and a
\* master key that may have been negotiated with another server.
kernel_init(srv, id, key) ==
  /\ my_state = "idle0"
  /\ my_state' = "idle"
  /\ Zeroed
  /\ server_name' = srv /\ dev_id' = id /\ master_key' = key
  /\ UNCHANGED <<pc, opt>>

ZeroedCredentials ==
  server_name' = NoServer /\ dev_id' = FALSE /\ master_key' = NoServer

kernel_fini ==
  /\ my_state \in {"idle", "stop"} /\ pc = "out"
  /\ my_state' = "idle0"
  /\ Zeroed /\ ZeroedCredentials
  /\ UNCHANGED <<pc, opt>>

kernel_start ==
  /\ my_state \in {"idle", "stop"} /\ pc = "out"
  /\ my_state' = "start"
  /\ told' = "start"
  /\ UNCHANGED <<pc, cnt_state, entr_state, access_risk, counters>>
  /\ UNCHANGED <<credVars, mqttVars, opt>>

\* Refused with das_force_dev_risk, my_state left at sdk_start, when the
\* device is blacklisted.  The drain loop leaves after its first round.
kernel_stop ==
  /\ my_state = "start" /\ pc = "out" /\ ~access_risk
  /\ my_state' = "stop"
  /\ pc' = IF cnt_state = "das_reged" THEN "last_round" ELSE "unregistering"
  /\ UNCHANGED <<linkVars, credVars, mqttVars, opt>>

\* access_server_yield inside kernel_stop, then on to stop_yield.
kernel_stop_round(ok) ==
  /\ pc = "last_round"
  /\ pc' = "unregistering"
  /\ cnt_state' = IF ok THEN cnt_state ELSE "das_break"
  /\ UNCHANGED <<my_state, entr_state, access_risk, counters, told>>
  /\ UNCHANGED <<credVars, mqttVars, opt>>

\* Fault: the link is closed, cnt_state stays as it was.
stop_yield_KeepsState ==
  /\ pc = "unregistering"
  /\ pc' = "out"
  /\ logged' = NoServer
  /\ UNCHANGED <<my_state, linkVars, credVars, handler, opt>>

stop_yield ==
  /\ pc = "unregistering"
  /\ pc' = "out"
  /\ cnt_state' = "unredirect"
  /\ logged' = NoServer
  /\ UNCHANGED <<my_state, entr_state, access_risk, counters, told>>
  /\ UNCHANGED <<credVars, handler, opt>>

-----------------------------------------------------------------------------
(* ezdev_sdk_kernel_yield: ezdev_sdk_kernel_access.c *)

\* Fault: the risk check is left out.
YieldsUnchecked(state) ==
  my_state = "start" /\ pc = "out" /\ cnt_state = state

\* kernel_yield enters cnt_state_yield and the risk check lets it through.
Yields(state) ==
  /\ my_state = "start" /\ pc = "out"
  /\ ~access_risk
  /\ cnt_state = state

\* lbs_redirect_createdevid_with_auth, lbs_redirect_with_auth, lbs_redirect:
\* each ends with a fresh session key and DAS address; the first two with a
\* new master key.  The platform refuses a key another server negotiated.
cnt_lbs_redirect_ok ==
  /\ Yields("unredirect")
  /\ dev_id => master_key \in {NoServer, server_name}
  /\ cnt_state' = "redirected"
  /\ Uncounted
  /\ dev_id' = TRUE
  /\ master_key' = server_name
  /\ session' = server_name
  /\ UNCHANGED <<lifeVars, entr_state, access_risk, told, server_name>>
  /\ UNCHANGED <<mqttVars, opt>>

LbsErrors == {"devid_inconformity", "masterkey_invalid", "other"}

\* Fault: a master key the platform refuses is offered again.
cnt_lbs_redirect_fail_KeepsKey(err) ==
  /\ Yields("unredirect")
  /\ dev_id' = (dev_id /\ err # "devid_inconformity")
  /\ lbs_failed' = TRUE
  /\ UNCHANGED <<lifeVars, cnt_state, entr_state, access_risk, told>>
  /\ UNCHANGED <<das_retry_times, server_name, master_key, session, mqttVars, opt>>

cnt_lbs_redirect_fail(err) ==
  /\ Yields("unredirect")
  /\ dev_id' = (dev_id /\ err # "devid_inconformity")
  /\ master_key' = IF err = "masterkey_invalid" THEN NoServer ELSE master_key
  /\ lbs_failed' = TRUE
  /\ UNCHANGED <<lifeVars, cnt_state, entr_state, access_risk, told>>
  /\ UNCHANGED <<das_retry_times, server_name, session, mqttVars, opt>>

\* das_mqttlogin2das needs an address and a device id to get anywhere.
CanLogin == session # NoServer /\ dev_id

\* cnt_das_reg_do up to CONNACK: das_unreg, then das_reg logs in (a second
\* time, with das_light_reg_v2, when the platform still has the session).
cnt_das_reg_login ==
  /\ Yields("redirected") /\ CanLogin
  /\ logged' = session
  /\ pc' = "subscribing"
  /\ UNCHANGED <<my_state, linkVars, credVars, handler, opt>>

MqttErrors == {"blacklist", "redirect", "other"}

\* Fault: one failure more than the limit is counted.
CountRegFailureOnceMore ==
  \/ /\ das_retry_times <= RegRetryMax
     /\ das_retry_times' = das_retry_times + 1
     /\ UNCHANGED <<cnt_state, lbs_failed>>
  \/ /\ das_retry_times > RegRetryMax
     /\ Uncounted
     /\ cnt_state' = "unredirect"

CountRegFailure ==
  \/ /\ das_retry_times < RegRetryMax
     /\ das_retry_times' = das_retry_times + 1
     /\ UNCHANGED <<cnt_state, lbs_failed>>
  \/ /\ das_retry_times >= RegRetryMax
     /\ Uncounted
     /\ cnt_state' = "unredirect"

\* Fault: the user is not told when the kernel leaves for the LBS.
BackToLbsSilently ==
  /\ UNCHANGED told
  /\ cnt_state' = "unredirect"
  /\ Uncounted

\* cnt_state_yield on mqtt_redirect: tell the user, ask the LBS again.
BackToLbs ==
  /\ told' = "break"
  /\ cnt_state' = "unredirect"
  /\ Uncounted

cnt_das_reg_refused(err) ==
  /\ Yields("redirected")
  /\ logged' = NoServer
  /\ IF err = "redirect" THEN BackToLbs ELSE CountRegFailure /\ UNCHANGED told
  /\ access_risk' = (err = "blacklist")
  /\ UNCHANGED <<lifeVars, entr_state, credVars, handler, opt>>

\* Fault: only entr_state is looked at, the switch is never recorded as done.
cnt_das_reg_done_KeepsEntr ==
  /\ pc = "subscribing"
  /\ pc' = "out"
  /\ handler' = TRUE
  /\ cnt_state' = "das_reged"
  /\ Uncounted
  /\ told' = IF entr_state = "switchover" THEN told ELSE "online"
  /\ UNCHANGED <<my_state, entr_state, access_risk, credVars, logged, opt>>

\* The SUBACK is in: registered, whatever cnt_state became meanwhile.
cnt_das_reg_done ==
  /\ pc = "subscribing"
  /\ pc' = "out"
  /\ handler' = TRUE
  /\ cnt_state' = "das_reged"
  /\ Uncounted
  /\ told' = IF entr_state = "switchover" THEN "switchover" ELSE "online"
  /\ entr_state' = "normal"
  /\ UNCHANGED <<my_state, access_risk, credVars, logged, opt>>

cnt_das_reg_unsubscribed ==
  /\ pc = "subscribing"
  /\ pc' = "out"
  /\ logged' = NoServer
  /\ CountRegFailure
  /\ UNCHANGED <<my_state, entr_state, access_risk, told>>
  /\ UNCHANGED <<credVars, handler, opt>>

cnt_das_work_begin ==
  /\ Yields("das_reged")
  /\ pc' = "working"
  /\ UNCHANGED <<my_state, linkVars, credVars, mqttVars, opt>>

\* das_yield returned: FALSE is das_need_reconnect (socket error, heart beat
\* timeout or a message that could not be published).
cnt_das_work_do(ok) ==
  /\ pc = "working"
  /\ pc' = "out"
  /\ cnt_state' = IF ok THEN cnt_state ELSE "das_break"
  /\ UNCHANGED <<my_state, entr_state, access_risk, counters, told>>
  /\ UNCHANGED <<credVars, mqttVars, opt>>

\* das_light_reg: log out, log in again, no new subscription.
cnt_das_retry_ok ==
  /\ Yields("das_break") /\ CanLogin
  /\ logged' = session
  /\ cnt_state' = "das_reged"
  /\ Uncounted
  /\ told' = "reconnect"
  /\ UNCHANGED <<lifeVars, entr_state, access_risk, credVars, handler, opt>>

\* Fault: at the limit the count starts again, the link is not given up.
CountBreakFailureAnew ==
  /\ das_retry_times' = IF das_retry_times < BreakRetryMax
                        THEN das_retry_times + 1 ELSE 0
  /\ UNCHANGED <<cnt_state, lbs_failed, told>>

CountBreakFailure ==
  \/ /\ das_retry_times < BreakRetryMax
     /\ das_retry_times' = das_retry_times + 1
     /\ UNCHANGED <<cnt_state, lbs_failed, told>>
  \/ das_retry_times >= BreakRetryMax /\ BackToLbs

cnt_das_retry_fail(err) ==
  /\ Yields("das_break")
  /\ logged' = NoServer
  /\ IF err = "redirect" THEN BackToLbs ELSE CountBreakFailure
  /\ access_risk' = (err = "blacklist")
  /\ UNCHANGED <<lifeVars, entr_state, credVars, handler, opt>>

-----------------------------------------------------------------------------
(* Platform commands: access_domain_bus.c, called from cycle() *)

\* A command reaches its handler when the topic is registered and the body
\* decrypts, that is when the connection was made with the current session.
Dispatches == /\ pc \in Waits
              /\ handler
              /\ logged # NoServer /\ logged = session

\* Fault: the new server is registered with straight away.
bus_handle_dev_redirect_NoLbs(srv) ==
  /\ Dispatches
  /\ srv # server_name
  /\ server_name' = srv
  /\ master_key' = NoServer
  /\ entr_state' = "switchover"
  /\ cnt_state' = "redirected"
  /\ UNCHANGED <<lifeVars, access_risk, counters, told>>
  /\ UNCHANGED <<dev_id, session, mqttVars, opt>>

\* Fault: the former server's master key is kept.
bus_handle_dev_redirect_KeepsKey(srv) ==
  /\ Dispatches
  /\ srv # server_name
  /\ server_name' = srv
  /\ entr_state' = "switchover"
  /\ cnt_state' = "unredirect"
  /\ UNCHANGED <<lifeVars, access_risk, counters, told>>
  /\ UNCHANGED <<dev_id, master_key, session, mqttVars, opt>>

bus_handle_dev_redirect(srv) ==
  /\ Dispatches
  /\ srv # server_name
  /\ server_name' = srv
  /\ master_key' = NoServer
  /\ entr_state' = "switchover"
  /\ cnt_state' = "unredirect"
  /\ UNCHANGED <<lifeVars, access_risk, counters, told>>
  /\ UNCHANGED <<dev_id, session, mqttVars, opt>>

bus_handle_force_offline ==
  /\ Dispatches
  /\ access_risk' = TRUE
  /\ UNCHANGED <<lifeVars, cnt_state, entr_state, counters, told>>
  /\ UNCHANGED <<credVars, mqttVars, opt>>

-----------------------------------------------------------------------------
(* ezdev_sdk_kernel_set_net_option(3), from any thread, no lock *)

set_net_option_check ==
  /\ ~opt /\ cnt_state = "das_reged"
  /\ opt' = TRUE
  /\ UNCHANGED <<lifeVars, linkVars, credVars, mqttVars>>

set_net_option_store ==
  /\ opt
  /\ opt' = FALSE
  /\ cnt_state' = "das_break"
  /\ UNCHANGED <<entr_state, access_risk, counters, told>>
  /\ UNCHANGED <<lifeVars, credVars, mqttVars>>

-----------------------------------------------------------------------------
Caller ==
  \/ \E srv \in Servers, id \in BOOLEAN, key \in MaybeServer :
        kernel_init(srv, id, key)
  \/ kernel_fini
  \/ kernel_start
  \/ kernel_stop

StopSteps == stop_yield \/ \E ok \in BOOLEAN : kernel_stop_round(ok)

LbsRound ==
  \/ cnt_lbs_redirect_ok
  \/ \E err \in LbsErrors : cnt_lbs_redirect_fail(err)

DasRound ==
  \/ cnt_das_reg_login
  \/ \E err \in MqttErrors : cnt_das_reg_refused(err)
  \/ cnt_das_reg_done
  \/ cnt_das_reg_unsubscribed
  \/ cnt_das_work_begin
  \/ \E ok \in BOOLEAN : cnt_das_work_do(ok)
  \/ cnt_das_retry_ok
  \/ \E err \in MqttErrors : cnt_das_retry_fail(err)

kernel_yield == LbsRound \/ DasRound

Platform ==
  \/ \E srv \in Servers : bus_handle_dev_redirect(srv)
  \/ bus_handle_force_offline

SetNetOption == set_net_option_check \/ set_net_option_store

Next == Caller \/ StopSteps \/ kernel_yield \/ Platform \/ SetNetOption

Spec == Init /\ [][Next]_vars

(***************************************************************************)
(* Fairness.  The thread that calls kernel_yield keeps calling it and the  *)
(* back-off timers expire; nothing is assumed of the application's other   *)
(* calls or of the platform's commands.  An LBS round refused again and     *)
(* again changes nothing, so that only NetFairness speaks of it: a step of *)
(* the network that keeps being attempted is not refused for ever, and a   *)
(* key of another server is refused as such.                               *)
(***************************************************************************)
LiveSpec == Spec /\ WF_vars(DasRound) /\ WF_vars(StopSteps)

NetFairness ==
  /\ SF_vars(cnt_lbs_redirect_ok)
  /\ SF_vars(cnt_lbs_redirect_fail("masterkey_invalid"))
  /\ SF_vars(cnt_das_reg_login)
  /\ SF_vars(cnt_das_reg_done)

-----------------------------------------------------------------------------
(* Safety *)

\* A kernel that considers itself registered holds a live MQTT login made
\* with its current session (cnt_das_reg_do, cnt_das_retry_do), even when a
\* platform command or set_net_option moved cnt_state during the login.
RegedMeansLoggedIn ==
  cnt_state = "das_reged" => logged # NoServer /\ logged = session

\* DAS registration is only attempted with the session, master key and
\* device id obtained from the LBS the device is assigned to now: whatever
\* command arrives, cnt_state leaves sdk_cnt_redirected with server_name.
RegistersWithFreshSession ==
  cnt_state = "redirected" =>
    session = server_name /\ master_key = server_name /\ dev_id

\* Once a session exists the master key is the one of server_name or empty,
\* and it is empty while the session is still that of a former server, so
\* the next LBS round negotiates a key (bus_handle_dev_redirect).
CredentialsMatch ==
  session # NoServer =>
    /\ master_key \in {NoServer, server_name}
    /\ session # server_name => master_key = NoServer

\* What the user was last told (broadcast_user_event) agrees with the state
\* while the kernel runs: registered means an online event was the last one;
\* no session in use means start, break, or a switch of server in progress.
UserWasTold ==
  my_state = "start" =>
    /\ cnt_state = "das_reged" => told \in OnlineEvents
    /\ cnt_state \in {"unredirect", "redirected"} =>
         told \in {"start", "break"} \/ entr_state = "switchover"

\* Strengthening of the above to an inductive invariant: where the driving
\* thread is tells which calls are possible, and what cnt_state was before
\* an asynchronous writer replaced it.
ControlInv ==
  /\ pc \in {"subscribing", "working"} => my_state = "start"
  /\ pc \in {"last_round", "unregistering"} => my_state = "stop"
  /\ my_state # "start" /\ pc = "out" =>
       cnt_state \in {"unredirect", "das_break"}
  /\ pc = "subscribing" =>
       /\ logged # NoServer /\ logged = session
       /\ cnt_state # "das_reged"
       /\ told \in {"start", "break"} \/ entr_state = "switchover"

AccessInv ==
  /\ TypeOK
  /\ ControlInv
  /\ RegedMeansLoggedIn
  /\ RegistersWithFreshSession
  /\ CredentialsMatch
  /\ UserWasTold

\* A blacklisted kernel makes no new login until it is initialised again
\* (check_access_risk_control), wherever the ban arrived from.
BannedNeverLogsIn ==
  [][access_risk => logged' \in {logged, NoServer}]_vars

\* A broken link is restored or given up after boundedly many attempts,
\* whatever the network does (das_retry_times in cnt_das_retry_do).
BreakResolved ==
  (cnt_state = "das_break" /\ my_state = "start") ~>
    (cnt_state # "das_break" \/ access_risk \/ my_state # "start")

\* A started device whose requests are not refused for ever registers,
\* unless it is banned or stopped: no combination of retries, re-directions
\* and refused credentials traps the state machine.
Recovers ==
  NetFairness =>
    (my_state = "start" ~>
       (cnt_state = "das_reged" \/ access_risk \/ my_state # "start"))

\* access_domain_bus.c:196 says that after the platform moved the device,
\* "cnt_state marks that the re-direction must be done again": a registered
\* device is registered with a DAS of the server it was told to use.
RedirectObeyed ==
  cnt_state = "das_reged" /\ pc = "out" => session = server_name
=============================================================================
