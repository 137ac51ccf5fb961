-------------------------- MODULE KernelAccessProof --------------------------
(***************************************************************************)
(* Theorems about KernelAccess, for every set of servers and every retry   *)
(* limit.  AccessInv is inductive; one lemma per actor shows that its      *)
(* steps preserve it, with one step per action.                            *)
(***************************************************************************)
EXTENDS KernelAccessRefines, TLAPS

\* A counter that has been reset is in its range.
LEMMA ZeroRetries == 0 \in RetryTimes
  BY RetryAssumption DEF RetryTimes

\* The initial state is the zeroed g_ezdev_sdk_kernel.
LEMMA AccessInit == Init => AccessInv
<1> SUFFICES ASSUME Init PROVE AccessInv
  OBVIOUS
<1>1. TypeOK
  BY ZeroRetries DEF Init, TypeOK, MaybeServer, Events, OnlineEvents, Waits
<1>2. ControlInv /\ RegedMeansLoggedIn /\ RegistersWithFreshSession
  BY DEF Init, ControlInv, RegedMeansLoggedIn, RegistersWithFreshSession
<1>3. CredentialsMatch /\ UserWasTold
  BY DEF Init, CredentialsMatch, UserWasTold
<1> QED
  BY <1>1, <1>2, <1>3 DEF AccessInv

\* Calls of the application keep the invariant.
LEMMA CallerStep == AccessInv /\ Caller => AccessInv'
<1> SUFFICES ASSUME AccessInv, Caller PROVE AccessInv'
  OBVIOUS
<1> USE DEF AccessInv, TypeOK, ControlInv, RegedMeansLoggedIn,
            RegistersWithFreshSession, CredentialsMatch, UserWasTold,
            MaybeServer, Events, OnlineEvents, Waits, Uncounted, Zeroed,
            lifeVars, counters, linkVars, credVars, mqttVars
<1>1. ASSUME NEW srv \in Servers, NEW id \in BOOLEAN, NEW key \in MaybeServer,
             kernel_init(srv, id, key)
      PROVE  AccessInv'
  BY <1>1, ZeroRetries DEF kernel_init
<1>2. CASE kernel_fini
  BY <1>2, ZeroRetries DEF kernel_fini, ZeroedCredentials
<1>3. CASE kernel_start
  BY <1>3 DEF kernel_start
<1>4. CASE kernel_stop
  BY <1>4 DEF kernel_stop
<1> QED
  BY <1>1, <1>2, <1>3, <1>4 DEF Caller

\* So do the rounds of ezdev_sdk_kernel_stop that touch the network.
LEMMA StopStep == AccessInv /\ StopSteps => AccessInv'
<1> SUFFICES ASSUME AccessInv, StopSteps PROVE AccessInv'
  OBVIOUS
<1> USE DEF AccessInv, TypeOK, ControlInv, RegedMeansLoggedIn,
            RegistersWithFreshSession, CredentialsMatch, UserWasTold,
            MaybeServer, Events, OnlineEvents, Waits,
            counters, linkVars, credVars, mqttVars
<1>1. CASE stop_yield
  BY <1>1 DEF stop_yield
<1>2. ASSUME NEW ok \in BOOLEAN, kernel_stop_round(ok)
      PROVE  AccessInv'
  BY <1>2 DEF kernel_stop_round
<1> QED
  BY <1>1, <1>2 DEF StopSteps

\* A failed registration is counted, or sends the kernel back to the LBS.
LEMMA RegFailureCounted ==
  ASSUME TypeOK, CountRegFailure
  PROVE  /\ das_retry_times' \in RetryTimes /\ lbs_failed' \in BOOLEAN
         /\ cnt_state' \in {cnt_state, "unredirect"}
<1>1. CASE /\ das_retry_times < RegRetryMax
           /\ das_retry_times' = das_retry_times + 1
           /\ UNCHANGED <<cnt_state, lbs_failed>>
  <2>1. das_retry_times \in RetryTimes
    BY DEF TypeOK
  <2>2. das_retry_times' \in RetryTimes
    BY <1>1, <2>1, RetryAssumption DEF RetryTimes
  <2> QED
    BY <1>1, <2>2 DEF TypeOK
<1>2. CASE Uncounted /\ cnt_state' = "unredirect"
  <2>1. das_retry_times' \in RetryTimes
    BY <1>2, ZeroRetries DEF Uncounted
  <2> QED
    BY <1>2, <2>1, Zenon DEF Uncounted
<1> QED
  BY <1>1, <1>2 DEF CountRegFailure

\* Going back to the LBS tells the user and resets the counters.
LEMMA BackToLbsTells ==
  ASSUME BackToLbs
  PROVE  /\ das_retry_times' \in RetryTimes /\ lbs_failed' \in BOOLEAN
         /\ cnt_state' = "unredirect" /\ told' = "break"
<1>1. das_retry_times' \in RetryTimes
  BY ZeroRetries DEF BackToLbs, Uncounted
<1> QED
  BY <1>1, Zenon DEF BackToLbs, Uncounted

\* A failed reconnection is counted, or the user is told of the break.
LEMMA BreakFailureCounted ==
  ASSUME TypeOK, CountBreakFailure
  PROVE  /\ das_retry_times' \in RetryTimes /\ lbs_failed' \in BOOLEAN
         /\ \/ UNCHANGED <<cnt_state, told>>
            \/ cnt_state' = "unredirect" /\ told' = "break"
<1>1. CASE /\ das_retry_times < BreakRetryMax
           /\ das_retry_times' = das_retry_times + 1
           /\ UNCHANGED <<cnt_state, lbs_failed, told>>
  <2>1. das_retry_times \in RetryTimes
    BY DEF TypeOK
  <2>2. das_retry_times' \in RetryTimes
    BY <1>1, <2>1, RetryAssumption DEF RetryTimes
  <2> QED
    BY <1>1, <2>2 DEF TypeOK
<1>2. CASE BackToLbs
  BY <1>2, BackToLbsTells
<1> QED
  BY <1>1, <1>2 DEF CountBreakFailure

\* So does every step of cnt_state_yield.  A refused login is counted or
\* sends the kernel back to the LBS, and only the latter changes cnt_state.
LEMMA YieldStep == AccessInv /\ kernel_yield => AccessInv'
<1> SUFFICES ASSUME AccessInv, kernel_yield PROVE AccessInv'
  OBVIOUS
<1> USE DEF AccessInv, TypeOK, ControlInv, RegedMeansLoggedIn,
            RegistersWithFreshSession, CredentialsMatch, UserWasTold,
            MaybeServer, Events, OnlineEvents, Waits, Uncounted,
            lifeVars, counters, linkVars, credVars, mqttVars
<1>1. CASE cnt_lbs_redirect_ok
  BY <1>1, ZeroRetries DEF cnt_lbs_redirect_ok, Yields
<1>2. ASSUME NEW err \in LbsErrors, cnt_lbs_redirect_fail(err)
      PROVE  AccessInv'
  BY <1>2 DEF cnt_lbs_redirect_fail, Yields
<1>3. CASE cnt_das_reg_login
  BY <1>3 DEF cnt_das_reg_login, Yields, CanLogin
<1>4. ASSUME NEW err \in MqttErrors, cnt_das_reg_refused(err)
      PROVE  AccessInv'
  <2>1. CASE BackToLbs
    BY <1>4, <2>1, BackToLbsTells DEF cnt_das_reg_refused, Yields
  <2>2. CASE CountRegFailure /\ UNCHANGED told
    BY <1>4, <2>2, RegFailureCounted DEF cnt_das_reg_refused, Yields
  <2> QED
    BY <1>4, <2>1, <2>2 DEF cnt_das_reg_refused
<1>5. CASE cnt_das_reg_done
  BY <1>5, ZeroRetries DEF cnt_das_reg_done
<1>6. CASE cnt_das_reg_unsubscribed
  BY <1>6, RegFailureCounted DEF cnt_das_reg_unsubscribed
<1>7. CASE cnt_das_work_begin
  BY <1>7 DEF cnt_das_work_begin, Yields
<1>8. ASSUME NEW ok \in BOOLEAN, cnt_das_work_do(ok)
      PROVE  AccessInv'
  BY <1>8 DEF cnt_das_work_do
<1>9. CASE cnt_das_retry_ok
  BY <1>9, ZeroRetries DEF cnt_das_retry_ok, Yields, CanLogin
<1>10. ASSUME NEW err \in MqttErrors, cnt_das_retry_fail(err)
       PROVE  AccessInv'
  <2>1. CASE BackToLbs
    BY <1>10, <2>1, BackToLbsTells DEF cnt_das_retry_fail, Yields
  <2>2. CASE CountBreakFailure
    BY <1>10, <2>2, BreakFailureCounted DEF cnt_das_retry_fail, Yields
  <2> QED
    BY <1>10, <2>1, <2>2 DEF cnt_das_retry_fail
<1> QED
  BY <1>1, <1>2, <1>3, <1>4, <1>5, <1>6, <1>7, <1>8, <1>9, <1>10
     DEF kernel_yield, LbsRound, DasRound

\* So do the platform's commands, in whichever wait they are dispatched.
LEMMA PlatformStep == AccessInv /\ Platform => AccessInv'
<1> SUFFICES ASSUME AccessInv, Platform PROVE AccessInv'
  OBVIOUS
<1> USE DEF AccessInv, TypeOK, ControlInv, RegedMeansLoggedIn,
            RegistersWithFreshSession, CredentialsMatch, UserWasTold,
            MaybeServer, Events, OnlineEvents, Waits, Dispatches,
            lifeVars, counters, credVars, mqttVars
<1>1. ASSUME NEW srv \in Servers, bus_handle_dev_redirect(srv)
      PROVE  AccessInv'
  BY <1>1 DEF bus_handle_dev_redirect
<1>2. CASE bus_handle_force_offline
  BY <1>2 DEF bus_handle_force_offline
<1> QED
  BY <1>1, <1>2 DEF Platform

\* So does set_net_option, however late its store comes.
LEMMA OptionStep == AccessInv /\ SetNetOption => AccessInv'
<1> SUFFICES ASSUME AccessInv, SetNetOption PROVE AccessInv'
  OBVIOUS
<1> USE DEF AccessInv, TypeOK, ControlInv, RegedMeansLoggedIn,
            RegistersWithFreshSession, CredentialsMatch, UserWasTold,
            MaybeServer, Events, OnlineEvents, Waits,
            lifeVars, counters, linkVars, credVars, mqttVars
<1>1. CASE set_net_option_check
  BY <1>1 DEF set_net_option_check
<1>2. CASE set_net_option_store
  <2>1. opt' \in BOOLEAN
    BY <1>2, Zenon DEF set_net_option_store
  <2>2. /\ cnt_state' = "das_break"
        /\ UNCHANGED <<entr_state, access_risk, counters, told>>
        /\ UNCHANGED <<lifeVars, credVars, mqttVars>>
    BY <1>2 DEF set_net_option_store
  <2> QED
    BY <2>1, <2>2
<1> QED
  BY <1>1, <1>2 DEF SetNetOption

LEMMA AccessStutter == AccessInv /\ UNCHANGED vars => AccessInv'
  BY DEF vars, lifeVars, counters, linkVars, credVars, mqttVars, AccessInv,
         TypeOK, ControlInv, RegedMeansLoggedIn, RegistersWithFreshSession,
         CredentialsMatch, UserWasTold

\* AccessInv holds in every reachable state.
THEOREM AccessInvariant == Spec => []AccessInv
<1>1. AccessInv /\ [Next]_vars => AccessInv'
  BY CallerStep, StopStep, YieldStep, PlatformStep, OptionStep, AccessStutter
     DEF Next
<1> QED
  BY <1>1, AccessInit, PTL DEF Spec

\* The state keeps its types: no counter, name or phase leaves its range.
THEOREM TypeCorrect == Spec => []TypeOK
<1>1. AccessInv => TypeOK
  BY DEF AccessInv
<1> QED
  BY <1>1, AccessInvariant, PTL

\* cnt_state = sdk_cnt_das_reged implies a live login with the session key.
THEOREM RegedMeansLoggedInThm == Spec => []RegedMeansLoggedIn
<1>1. AccessInv => RegedMeansLoggedIn
  BY DEF AccessInv
<1> QED
  BY <1>1, AccessInvariant, PTL

\* The DAS is only registered with the current server's session and key.
THEOREM RegistersWithFreshSessionThm == Spec => []RegistersWithFreshSession
<1>1. AccessInv => RegistersWithFreshSession
  BY DEF AccessInv
<1> QED
  BY <1>1, AccessInvariant, PTL

\* A master key is never one that a former server negotiated.
THEOREM CredentialsMatchThm == Spec => []CredentialsMatch
<1>1. AccessInv => CredentialsMatch
  BY DEF AccessInv
<1> QED
  BY <1>1, AccessInvariant, PTL

\* The user's last event agrees with the state of the link.
THEOREM UserWasToldThm == Spec => []UserWasTold
<1>1. AccessInv => UserWasTold
  BY DEF AccessInv
<1> QED
  BY <1>1, AccessInvariant, PTL

\* No step of a blacklisted kernel logs in: check_access_risk_control stands
\* before each login of cnt_state_yield and nothing else logs in.
LEMMA NoLoginWhenBanned ==
  [Next]_vars => (access_risk => logged' \in {logged, NoServer})
<1> DEFINE NoLogin == access_risk => logged' \in {logged, NoServer}
<1>1. ASSUME Next PROVE NoLogin
  <2>1. CASE Caller
    BY <2>1 DEF Caller, kernel_init, kernel_fini, kernel_start, kernel_stop,
                Zeroed, linkVars, credVars, mqttVars
  <2>2. CASE StopSteps
    BY <2>2 DEF StopSteps, stop_yield, kernel_stop_round, credVars, mqttVars
  <2>3. CASE kernel_yield
    BY <2>3 DEF kernel_yield, LbsRound, DasRound, cnt_lbs_redirect_ok, cnt_lbs_redirect_fail,
                cnt_das_reg_login, cnt_das_reg_refused, cnt_das_reg_done,
                cnt_das_reg_unsubscribed, cnt_das_work_begin, cnt_das_work_do,
                cnt_das_retry_ok, cnt_das_retry_fail, Yields,
                lifeVars, linkVars, credVars, mqttVars
  <2>4. CASE Platform
    BY <2>4 DEF Platform, bus_handle_dev_redirect, bus_handle_force_offline,
                mqttVars
  <2>5. CASE SetNetOption
    BY <2>5 DEF SetNetOption, set_net_option_check, set_net_option_store,
                linkVars, credVars, mqttVars
  <2> QED
    BY <1>1, <2>1, <2>2, <2>3, <2>4, <2>5 DEF Next
<1>2. UNCHANGED vars => NoLogin
  BY DEF vars, mqttVars
<1> QED
  BY <1>1, <1>2

\* A device the platform has banned does not log in again, wherever the ban
\* arrived from (check_access_risk_control).
THEOREM BannedNeverLogsInThm == Spec => BannedNeverLogsIn
  BY NoLoginWhenBanned, PTL DEF Spec, BannedNeverLogsIn

-----------------------------------------------------------------------------
(* KernelAccess implements LinkContract: step simulation, actor by actor *)

LEMMA ContractInit == Init => Contract!LInit
  BY DEF Init, Contract!LInit, LinkOf

\* The application's calls are resets, starts and stops of the contract.
LEMMA CallerSimulated ==
  AccessInv /\ Caller => Contract!LNext \/ UNCHANGED Contract!lvars
<1> SUFFICES ASSUME AccessInv, Caller
             PROVE  Contract!LNext \/ UNCHANGED Contract!lvars
  OBVIOUS
<1> USE DEF LinkOf, lifeVars, counters, linkVars, Contract!LNext
<1>1. ASSUME NEW srv \in Servers, NEW id \in BOOLEAN, NEW key \in MaybeServer,
             kernel_init(srv, id, key)
      PROVE  Contract!Reset
  BY <1>1 DEF kernel_init, Zeroed, Contract!Reset
<1>2. ASSUME kernel_fini PROVE Contract!Reset
  BY <1>2 DEF kernel_fini, Zeroed, Contract!Reset
<1>3. ASSUME kernel_start PROVE Contract!Start
  BY <1>3 DEF kernel_start, Contract!Start
<1>4. ASSUME kernel_stop PROVE Contract!Stop
  BY <1>4 DEF kernel_stop, Contract!Stop
<1> QED
  BY <1>1, <1>2, <1>3, <1>4 DEF Caller

\* The rounds of kernel_stop happen with the kernel no longer running.
LEMMA StopSimulated ==
  AccessInv /\ StopSteps => Contract!LNext \/ UNCHANGED Contract!lvars
<1> SUFFICES ASSUME AccessInv, StopSteps
             PROVE  Contract!LNext \/ UNCHANGED Contract!lvars
  OBVIOUS
<1> USE DEF LinkOf, counters, Contract!LNext, Contract!lvars
<1>1. ASSUME stop_yield PROVE Contract!Stopped
  BY <1>1 DEF stop_yield, AccessInv, ControlInv, Contract!Stopped
<1>2. ASSUME NEW ok \in BOOLEAN, kernel_stop_round(ok)
      PROVE  Contract!Break \/ UNCHANGED Contract!lvars
  BY <1>2 DEF kernel_stop_round, Contract!Break
<1> QED
  BY <1>1, <1>2 DEF StopSteps

\* A registration finds nobody believing the link is up: this is where the
\* phase of the driving thread (ControlInv) is needed.
LEMMA YieldSimulated ==
  AccessInv /\ kernel_yield => Contract!LNext \/ UNCHANGED Contract!lvars
<1> SUFFICES ASSUME AccessInv, kernel_yield
             PROVE  Contract!LNext \/ UNCHANGED Contract!lvars
  OBVIOUS
<1> USE DEF LinkOf, lifeVars, counters, linkVars, Contract!LNext, Contract!lvars
<1>1. ASSUME cnt_lbs_redirect_ok PROVE UNCHANGED Contract!lvars
  BY <1>1 DEF cnt_lbs_redirect_ok, Yields
<1>2. ASSUME NEW err \in LbsErrors, cnt_lbs_redirect_fail(err)
      PROVE  UNCHANGED Contract!lvars
  BY <1>2 DEF cnt_lbs_redirect_fail
<1>3. ASSUME cnt_das_reg_login PROVE UNCHANGED Contract!lvars
  BY <1>3 DEF cnt_das_reg_login
<1>4. ASSUME NEW err \in MqttErrors, cnt_das_reg_refused(err)
      PROVE  Contract!LNext \/ UNCHANGED Contract!lvars
  <2>1. access_risk' \in BOOLEAN
    BY <1>4, Zenon DEF cnt_das_reg_refused
  <2>2. ASSUME BackToLbs PROVE Contract!GiveUp
    BY <1>4, <2>1, <2>2, BackToLbsTells
       DEF cnt_das_reg_refused, Yields, Contract!GiveUp
  <2>3. CASE CountRegFailure /\ UNCHANGED told
    <3>1. /\ Yields("redirected") /\ UNCHANGED <<lifeVars, entr_state, told>>
          /\ cnt_state' \in {"redirected", "unredirect"}
      BY <1>4, <2>3, RegFailureCounted DEF cnt_das_reg_refused, AccessInv, Yields
    <3>2. CASE err = "blacklist"
      <4>1. access_risk' = TRUE
        BY <1>4, <3>2, Zenon DEF cnt_das_reg_refused
      <4> QED
        BY <3>1, <4>1 DEF Yields, Contract!Ban
    <3>3. CASE err # "blacklist"
      <4>1. access_risk' = FALSE /\ access_risk \in BOOLEAN
        BY <1>4, <3>3, Zenon DEF cnt_das_reg_refused, AccessInv, TypeOK
      <4>2. UNCHANGED access_risk
        BY <3>1, <4>1, Zenon DEF Yields
      <4> QED
        BY <3>1, <4>2 DEF Yields
    <3> QED
      BY <3>2, <3>3
  <2> QED
    BY <1>4, <2>2, <2>3 DEF cnt_das_reg_refused
<1>5. ASSUME cnt_das_reg_done PROVE Contract!Register
  BY <1>5 DEF cnt_das_reg_done, AccessInv, TypeOK, ControlInv,
              Contract!Register, Contract!Unclaimed
<1>6. ASSUME cnt_das_reg_unsubscribed
      PROVE  Contract!Abandon \/ UNCHANGED Contract!lvars
  BY <1>6, RegFailureCounted
     DEF cnt_das_reg_unsubscribed, AccessInv, TypeOK, ControlInv,
         Contract!Abandon, Contract!Unclaimed
<1>7. ASSUME cnt_das_work_begin PROVE UNCHANGED Contract!lvars
  BY <1>7 DEF cnt_das_work_begin
<1>8. ASSUME NEW ok \in BOOLEAN, cnt_das_work_do(ok)
      PROVE  Contract!Break \/ UNCHANGED Contract!lvars
  BY <1>8 DEF cnt_das_work_do, Contract!Break
<1>9. ASSUME cnt_das_retry_ok PROVE Contract!Resume
  BY <1>9 DEF cnt_das_retry_ok, Yields, Contract!Resume
<1>10. ASSUME NEW err \in MqttErrors, cnt_das_retry_fail(err)
       PROVE  Contract!LNext \/ UNCHANGED Contract!lvars
  <2>1. access_risk' \in BOOLEAN
    BY <1>10, Zenon DEF cnt_das_retry_fail
  <2>2. ASSUME BackToLbs PROVE Contract!GiveUp
    BY <1>10, <2>1, <2>2, BackToLbsTells
       DEF cnt_das_retry_fail, Yields, Contract!GiveUp
  <2>3. CASE CountBreakFailure
    <3>1. \/ cnt_state' = cnt_state /\ told' = told
          \/ cnt_state' = "unredirect" /\ told' = "break"
      BY <2>3, BreakFailureCounted DEF AccessInv
    <3>2. CASE cnt_state' = "unredirect" /\ told' = "break"
      BY <1>10, <2>1, <3>2 DEF cnt_das_retry_fail, Yields, Contract!GiveUp
    <3>3. CASE err = "blacklist" /\ cnt_state' = cnt_state /\ told' = told
      <4>1. access_risk' = TRUE
        BY <1>10, <3>3, Zenon DEF cnt_das_retry_fail
      <4> QED
        BY <1>10, <3>3, <4>1 DEF cnt_das_retry_fail, Contract!Ban
    <3>4. CASE err # "blacklist" /\ cnt_state' = cnt_state /\ told' = told
      <4>1. access_risk' = FALSE /\ access_risk \in BOOLEAN
        BY <1>10, <3>4, Zenon DEF cnt_das_retry_fail, AccessInv, TypeOK
      <4>2. UNCHANGED access_risk
        BY <1>10, <4>1, Zenon DEF cnt_das_retry_fail, Yields
      <4> QED
        BY <1>10, <3>4, <4>2 DEF cnt_das_retry_fail
    <3> QED
      BY <3>1, <3>2, <3>3, <3>4
  <2> QED
    BY <1>10, <2>2, <2>3 DEF cnt_das_retry_fail
<1> QED
  BY <1>1, <1>2, <1>3, <1>4, <1>5, <1>6, <1>7, <1>8, <1>9, <1>10
     DEF kernel_yield, LbsRound, DasRound

\* The platform moves or bans the device; an option may only mark a break.
LEMMA OthersSimulated ==
  Platform \/ SetNetOption => Contract!LNext \/ UNCHANGED Contract!lvars
<1> SUFFICES ASSUME Platform \/ SetNetOption
             PROVE  Contract!LNext \/ UNCHANGED Contract!lvars
  OBVIOUS
<1> USE DEF LinkOf, lifeVars, counters, linkVars, Contract!LNext, Contract!lvars
<1>1. ASSUME NEW srv \in Servers, bus_handle_dev_redirect(srv)
      PROVE  Contract!Move
  BY <1>1 DEF bus_handle_dev_redirect, Contract!Move
<1>2. ASSUME bus_handle_force_offline PROVE Contract!Ban
  BY <1>2 DEF bus_handle_force_offline, Contract!Ban
<1>3. ASSUME set_net_option_check PROVE UNCHANGED Contract!lvars
  BY <1>3 DEF set_net_option_check
<1>4. ASSUME set_net_option_store PROVE Contract!Break
  BY <1>4 DEF set_net_option_store, Contract!Break
<1> QED
  BY <1>1, <1>2, <1>3, <1>4 DEF Platform, SetNetOption

LEMMA ContractStep ==
  AccessInv /\ [Next]_vars => [Contract!LNext]_(Contract!lvars)
<1>1. UNCHANGED vars => UNCHANGED Contract!lvars
  BY DEF vars, lifeVars, counters, linkVars, LinkOf, Contract!lvars
<1> QED
  BY <1>1, CallerSimulated, StopSimulated, YieldSimulated, OthersSimulated
     DEF Next

\* The kernel implements its contract, whatever the servers and limits are.
THEOREM KernelImplementsContract == Spec => Implements
  BY ContractStep, ContractInit, AccessInvariant, PTL
     DEF Spec, Implements, Contract!LSpec
=============================================================================
