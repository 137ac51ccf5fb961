-------------------------- MODULE OtaDownloadProof --------------------------
(***************************************************************************)
(* Theorems about OtaDownload, for any packages, pieces and numbers of     *)
(* retries.  OtaInv is inductive; one lemma per action, or per group of    *)
(* actions that disturb the same, shows that a step preserves it.          *)
(***************************************************************************)
EXTENDS OtaDownload, TLAPS

\* Before the first call nothing is stored, reported or under way.
LEMMA OtaInit == Init => OtaInv
<1> SUFFICES ASSUME Init PROVE OtaInv
  OBVIOUS
<1>1. OtaTypeOK
  <2>1. /\ {loaded, inited, quit, copied, retry_flag} \subseteq BOOLEAN
        /\ status \in {0, 1} /\ slot \in [Slots -> Jobs \cup {NoJob}]
        /\ thread \in Alive \cup {"none", "over"}
        /\ ret \in {"ok", "download", "cancel", "general", "sign"}
    BY DEF Init
  <2>2. caller \in [at : {"out", "copy", "create", "store"}, job : Jobs \cup {NoJob}]
    BY DEF Init, Out
  <2>3. /\ index \in 1..3 /\ retry_times \in Nat /\ late \in Nat
        /\ {offset, hashed} \subseteq 0..Blocks /\ inits \in 0..InitMax
    BY OtaAssumption DEF Init
  <2>4. /\ call \in [Jobs -> {"new", "accepted", "refused"}]
        /\ saved \in [Jobs -> Nat]
    BY DEF Init
  <2>5. told \in [Jobs -> Seq({"suc", "failed"})]
    BY DEF Init
  <2>6. thread \in Loading \cup {"result"} => Job \in Jobs
    BY DEF Init, Loading
  <2> QED
    BY <2>1, <2>2, <2>3, <2>4, <2>5, <2>6 DEF OtaTypeOK
<1>2. OtaControl /\ CalledOnce
  BY OtaAssumption
  DEF Init, OtaControl, CalledOnce, Out, Slots, Working, Loading
<1>3. SavedInOrder /\ SucMeansWhole
  BY DEF Init, SavedInOrder, SucMeansWhole, Working, Loading
<1>4. BusyWhileLoading /\ LateOnce
  BY DEF Init, BusyWhileLoading, LateOnce, QuitHeeded, Alive, Loading
<1> QED
  BY <1>1, <1>2, <1>3, <1>4 DEF OtaInv

\* What a step that touches neither the slots nor the download keeps.
LEMMA DownloadUntouched ==
  ASSUME OtaInv, UNCHANGED <<slot, thread, index, offset, ret, saved, told>>
  PROVE  SavedInOrder' /\ SucMeansWhole'
  BY DEF OtaInv, SavedInOrder, SucMeansWhole, Begun, Job, Working, Loading

\* The module's life cycle touches only its own flags and the ghost late.
LEMMA LifeCycleStep ==
  ASSUME OtaInv, ez_iot_ota_init \/ ez_iot_ota_deinit \/ extend_fini
  PROVE  OtaInv'
<1> USE DEF shared, locals
<1>1. UNCHANGED <<shared, caller, thread, locals, call, told, saved>>
  BY DEF ez_iot_ota_init, ez_iot_ota_deinit, extend_fini, history
<1>2. OtaTypeOK'
  <2>1. {loaded, inited, quit, copied, retry_flag}' \subseteq BOOLEAN
    BY <1>1, Zenon
    DEF OtaInv, OtaTypeOK, ez_iot_ota_init, ez_iot_ota_deinit, extend_fini
  <2>2. inits' \in 0..InitMax /\ late' \in Nat
    BY OtaAssumption
    DEF OtaInv, OtaTypeOK, ez_iot_ota_init, ez_iot_ota_deinit, extend_fini,
        history
  <2> QED
    BY <1>1, <2>1, <2>2 DEF OtaInv, OtaTypeOK, Job
<1>3. OtaControl' /\ CalledOnce' /\ BusyWhileLoading'
  BY <1>1
  DEF OtaInv, OtaControl, CalledOnce, BusyWhileLoading, Busy, Working
<1>4. SavedInOrder' /\ SucMeansWhole'
  BY <1>1, DownloadUntouched
<1>5. LateOnce'
  BY <1>1
  DEF OtaInv, OtaTypeOK, LateOnce, QuitHeeded, ez_iot_ota_init,
      ez_iot_ota_deinit, extend_fini, history
<1> QED
  BY <1>2, <1>3, <1>4, <1>5 DEF OtaInv

\* A call that stores nothing in a slot: it is refused, or finds the first
\* slot taken and the thread gone.
LEMMA CallWithoutSlot ==
  ASSUME OtaInv, NEW j \in Jobs, caller = Out, UNCHANGED <<api, thread, locals>>,
         download_refused(j) \/ download_nothing(j)
  PROVE  OtaInv'
<1> USE DEF shared, locals, api
<1>1. /\ UNCHANGED <<slot, caller, told, saved, late>>
      /\ status' \in {status, 1}
      /\ \E rv \in {"accepted", "refused"} : call' = [call EXCEPT ![j] = rv]
      /\ copied' = copied
  BY DEF download_refused, download_nothing, Answer
<1>2. OtaTypeOK'
  BY <1>1 DEF OtaInv, OtaTypeOK, Job
<1>3. OtaControl' /\ BusyWhileLoading'
  BY <1>1 DEF OtaInv, OtaControl, BusyWhileLoading, Busy, OtaTypeOK, Working
<1>4. CalledOnce'
  <2>1. \A k \in Jobs : call[k] # "new" => call'[k] # "new"
    BY <1>1 DEF OtaInv, OtaTypeOK
  <2> QED
    BY <1>1, <2>1 DEF OtaInv, CalledOnce
<1>5. SavedInOrder' /\ SucMeansWhole'
  BY <1>1, DownloadUntouched
<1>6. LateOnce'
  BY <1>1 DEF OtaInv, LateOnce, QuitHeeded
<1> QED
  BY <1>2, <1>3, <1>4, <1>5, <1>6 DEF OtaInv

\* A call that fills a slot: the package was in none before, the slot was
\* empty, so the thread was not at work on it.
LEMMA CallFillsSlot ==
  ASSUME OtaInv, NEW j \in Jobs, caller = Out, call[j] = "new",
         UNCHANGED <<api, thread, locals>>,
         download_joins(j) \/ download_starts(j)
  PROVE  OtaInv'
<1> USE DEF shared, locals, api, history
<1>1. PICK i \in Slots :
        /\ slot[i] = NoJob /\ slot' = [slot EXCEPT ![i] = j]
        /\ caller' = [at |-> IF i = 1 THEN "create" ELSE "copy", job |-> j]
  BY DEF download_joins, download_starts, Slots
<1>2. UNCHANGED <<status, copied, call, told, saved, late>>
  BY DEF download_joins, download_starts
<1>4. \A k \in Slots : slot[k] # j
  <2>1. caller.at = "out"
    BY DEF Out
  <2> QED
    BY <2>1 DEF OtaInv, CalledOnce
<1>5. /\ j # NoJob
      /\ \A k \in Slots : k # i => slot'[k] = slot[k]
      /\ slot'[i] = j
  BY <1>1, OtaAssumption DEF OtaInv, OtaTypeOK
<1>6. thread \in Working => index # i
  BY <1>1, OtaAssumption DEF OtaInv, OtaControl
<1>3. OtaTypeOK'
  BY <1>1, <1>2, <1>5, <1>6 DEF OtaInv, OtaTypeOK, Job, Working
<1>7. OtaControl'
  BY <1>1, <1>2, <1>5, <1>6 DEF OtaInv, OtaControl, Working, Slots, OtaTypeOK
<1>8. CalledOnce'
  BY <1>1, <1>2, <1>4, <1>5 DEF OtaInv, CalledOnce, Slots, Out
<1>9. SavedInOrder'
  <2>1. thread \in Working => Job' = Job
    BY <1>5, <1>6 DEF Job, OtaInv, OtaControl
  <2>2. (thread \in Working => saved[Job] = offset)'
    BY <1>2, <2>1 DEF OtaInv, SavedInOrder
  <2>3. (thread = "result" /\ ret = "ok" => offset = Blocks /\ Job \in Good)'
    BY <1>2, <2>1 DEF OtaInv, SavedInOrder, Working
  <2>4. \A k \in Jobs : Begun(k) => Begun(k)'
    BY <1>1, <1>5, OtaAssumption DEF Begun
  <2>5. (\A k \in Jobs : saved[k] # 0 => Begun(k))'
    BY <1>2, <2>4 DEF OtaInv, SavedInOrder
  <2>6. (\A k \in Jobs : told[k] # <<>> => \E m \in Slots : slot[m] = k /\ m < index)'
    BY <1>1, <1>2, <1>5, OtaAssumption DEF OtaInv, SavedInOrder
  <2> QED
    BY <2>2, <2>3, <2>5, <2>6 DEF SavedInOrder
<1>10. SucMeansWhole'
  BY <1>2 DEF OtaInv, SucMeansWhole
<1>11. BusyWhileLoading'
  BY <1>1, <1>2 DEF OtaInv, BusyWhileLoading, Busy, Out
<1>12. LateOnce'
  BY <1>2 DEF OtaInv, LateOnce, QuitHeeded
<1> QED
  BY <1>3, <1>7, <1>8, <1>9, <1>10, <1>11, <1>12 DEF OtaInv

\* The rest of a call that joined, or that started the thread.
LEMMA CallStep ==
  ASSUME OtaInv, copy_url \/ store_status
  PROVE  OtaInv'
<1> USE DEF shared, locals, api
<1>1. /\ UNCHANGED <<api, slot, thread, locals, told, saved, late>>
      /\ caller.at \in {"copy", "store"} /\ caller' = Out
      /\ call' = [call EXCEPT ![caller.job] = "accepted"]
  BY DEF copy_url, store_status, Answer
<1>2. caller.job \in Jobs
  BY <1>1 DEF OtaInv, OtaControl
<1>3. \A k \in Jobs : call'[k] # "new" <=> (call[k] # "new" \/ k = caller.job)
  BY <1>1, <1>2 DEF OtaInv, OtaTypeOK
<1>4. OtaTypeOK'
  <2>1. {loaded, inited, quit, copied, retry_flag}' \subseteq BOOLEAN
    BY <1>1, Zenon DEF OtaInv, OtaTypeOK, copy_url, store_status
  <2>2. /\ status' \in {0, 1}
        /\ caller' \in [at : {"out", "copy", "create", "store"}, job : Jobs \cup {NoJob}]
    BY <1>1 DEF OtaInv, OtaTypeOK, copy_url, store_status, Out
  <2>3. call' \in [Jobs -> {"new", "accepted", "refused"}]
    BY <1>1 DEF OtaInv, OtaTypeOK
  <2> QED
    BY <1>1, <2>1, <2>2, <2>3 DEF OtaInv, OtaTypeOK, Job
<1>5. OtaControl' /\ BusyWhileLoading'
  BY <1>1
  DEF OtaInv, OtaControl, BusyWhileLoading, Busy, Working, Out, copy_url,
      store_status
<1>6. CalledOnce'
  BY <1>1, <1>3 DEF OtaInv, CalledOnce
<1>7. SavedInOrder' /\ SucMeansWhole'
  BY <1>1, DownloadUntouched
<1>8. LateOnce'
  BY <1>1 DEF OtaInv, LateOnce, QuitHeeded
<1> QED
  BY <1>4, <1>5, <1>6, <1>7, <1>8 DEF OtaInv

\* The thread is created once, by the call that filled the first slot, and
\* before g_download_status is set.
LEMMA CreateStep ==
  ASSUME OtaInv, hal_thread_create
  PROVE  OtaInv'
<1> USE DEF shared, locals, api
<1>1. /\ UNCHANGED <<api, shared, locals, told, saved, late>>
      /\ caller.at = "create" /\ thread = "none"
      /\ slot[1] # NoJob /\ caller.job \in Jobs
      /\ \/ /\ thread' = "next" /\ caller' = [caller EXCEPT !.at = "store"]
            /\ UNCHANGED call
         \/ /\ thread' = thread /\ caller' = Out
            /\ call' = [call EXCEPT ![caller.job] = "refused"]
  BY DEF hal_thread_create, Answer, history, OtaInv, OtaControl
<1>2. /\ caller' \in [at : {"out", "store"}, job : Jobs \cup {NoJob}]
      /\ caller'.at = "store" => caller'.job = caller.job /\ thread' = "next"
      /\ thread' = "next" => caller'.at = "store"
  <2>1. caller \in [at : {"out", "copy", "create", "store"}, job : Jobs \cup {NoJob}]
    BY DEF OtaInv, OtaTypeOK
  <2>2. CASE thread' = "next" /\ caller' = [caller EXCEPT !.at = "store"]
    BY <2>1, <2>2
  <2>3. CASE thread' = thread /\ caller' = Out
    BY <1>1, <2>3 DEF Out
  <2> QED
    BY <1>1, <2>2, <2>3
<1>3. /\ call' \in [Jobs -> {"new", "accepted", "refused"}]
      /\ \A k \in Jobs : call[k] # "new" => call'[k] # "new"
      /\ caller'.at = "out" => call'[caller.job] # "new"
  BY <1>1, <1>2 DEF OtaInv, OtaTypeOK
<1>4. thread' \in {"none", "next"} /\ thread' \notin Working /\ thread \notin Working
  BY <1>1 DEF Working, Loading
<1>5. OtaTypeOK'
  BY <1>1, <1>2, <1>3, <1>4 DEF OtaInv, OtaTypeOK, Alive, Working
<1>6. OtaControl'
  BY <1>1, <1>2, <1>4 DEF OtaInv, OtaControl
<1>7. CalledOnce'
  BY <1>1, <1>2, <1>3 DEF OtaInv, CalledOnce
<1>8. SavedInOrder' /\ SucMeansWhole'
  BY <1>1, <1>4 DEF OtaInv, SavedInOrder, SucMeansWhole, Begun
<1>9. BusyWhileLoading' /\ LateOnce'
  BY <1>1, <1>2, <1>4
  DEF OtaInv, BusyWhileLoading, Alive, Loading, LateOnce, QuitHeeded
<1> QED
  BY <1>5, <1>6, <1>7, <1>8, <1>9 DEF OtaInv

\* The thread leaves slots and calls alone; the caller does not create it
\* while it lives.
LEMMA ThreadFrame ==
  ASSUME OtaInv, ThreadLeaves, thread \in Alive
  PROVE  /\ CalledOnce'
         /\ caller'.at # "out" => caller'.job \in Jobs
         /\ caller'.at # "create" /\ slot'[1] # NoJob
<1> QED
  BY DEF OtaInv, ThreadLeaves, CalledOnce, OtaControl, Alive, Loading

\* Steps on a package that neither move offset nor finish it.
LEMMA StaysAtPackage ==
  ASSUME OtaInv, ThreadLeaves,
         UNCHANGED <<index, offset, saved, told, status, late>>,
         thread \in {"get", "read", "got", "cb"},
         thread' \in {"get", "read", "got", "cb", "result"},
         thread' = "cb" => ~quit,
         thread' = "result" => ret' # "ok",
         ret' \in {"ok", "download", "cancel", "general", "sign"},
         retry_times' \in Nat, retry_flag' \in BOOLEAN, hashed' \in 0..Blocks
  PROVE  OtaInv'
<1> USE DEF ThreadLeaves, api
<1>1. thread \in Alive /\ thread' \in Alive /\ thread \in Working /\ thread' \in Working
  BY DEF Alive, Working, Loading
<1>2. CalledOnce'
  BY <1>1, ThreadFrame
<1>3. OtaTypeOK'
  <2>1. {loaded, inited, quit, copied, retry_flag}' \subseteq BOOLEAN
    BY DEF OtaInv, OtaTypeOK
  <2> QED
    BY <1>1, <2>1 DEF OtaInv, OtaTypeOK, Job, Working
<1>4. OtaControl'
  BY <1>1, ThreadFrame DEF OtaInv, OtaControl
<1>5. SavedInOrder'
  BY <1>1 DEF OtaInv, SavedInOrder, Begun, Job
<1>6. SucMeansWhole' /\ BusyWhileLoading' /\ LateOnce'
  BY <1>1
  DEF OtaInv, SucMeansWhole, BusyWhileLoading, Busy, LateOnce, QuitHeeded
<1> QED
  BY <1>2, <1>3, <1>4, <1>5, <1>6 DEF OtaInv

\* The requests, the reads and the test of g_quit.
LEMMA RequestStep ==
  ASSUME OtaInv, request \/ webclient_read \/ check_quit
  PROVE  OtaInv'
<1> USE DEF ThreadLeaves, locals
<1>1. /\ ThreadLeaves /\ UNCHANGED <<index, offset, saved, told, status, late>>
      /\ thread \in {"get", "read", "got"}
      /\ thread' \in {"get", "read", "got", "cb", "result"}
      /\ thread' = "cb" => ~quit
      /\ thread' = "result" => ret' # "ok"
      /\ ret' \in {ret, "download", "cancel", "general"}
      /\ retry_times' \in {retry_times, retry_times + 1}
      /\ hashed' \in {hashed, offset}
  BY DEF request, webclient_read, check_quit, GivesUp, DownloadError
<1>2. retry_flag' \in BOOLEAN
  BY Zenon
  DEF request, webclient_read, check_quit, GivesUp, DownloadError, OtaInv,
      OtaTypeOK
<1>3. /\ ret' \in {"ok", "download", "cancel", "general", "sign"}
      /\ retry_times' \in Nat /\ hashed' \in 0..Blocks
  BY <1>1 DEF OtaInv, OtaTypeOK
<1> QED
  BY <1>1, <1>2, <1>3, StaysAtPackage

\* The callback: offset and what the application holds go up together, and
\* after g_quit it is called no second time.
LEMMA CallbackStep ==
  ASSUME OtaInv, file_cb
  PROVE  OtaInv'
<1> USE DEF ThreadLeaves, api
<1>1. thread = "cb" /\ thread \in Working /\ thread \in Alive
  BY DEF file_cb, Working, Alive, Loading
<1>2. CASE /\ GivesUp("general")
           /\ UNCHANGED <<index, hashed, status, told, saved, late>>
           /\ ThreadLeaves
  <2>1. /\ thread' = "result" /\ ret' = "general"
        /\ UNCHANGED <<offset, retry_times, retry_flag>>
    BY <1>2 DEF GivesUp
  <2>2. retry_times' \in Nat /\ retry_flag' \in BOOLEAN /\ hashed' \in 0..Blocks
    BY <1>2, <2>1 DEF OtaInv, OtaTypeOK
  <2> QED
    BY <1>1, <1>2, <2>1, <2>2, StaysAtPackage
<1>3. CASE /\ offset' = offset + 1
           /\ thread' = IF Complete(offset') THEN "sum" ELSE "read"
           /\ saved' = [saved EXCEPT ![Job] = @ + 1]
           /\ late' = IF quit THEN late + 1 ELSE late
           /\ UNCHANGED <<retry_times, retry_flag, ret, index, hashed, status, told>>
           /\ ThreadLeaves
  <2>1. /\ index \in Slots /\ Job \in Jobs /\ Job' = Job
        /\ offset \in Nat /\ offset < Blocks /\ saved[Job] = offset
        /\ saved \in [Jobs -> Nat] /\ late \in Nat
    BY <1>1, <1>3, OtaAssumption
    DEF OtaInv, OtaControl, SavedInOrder, Job, OtaTypeOK
  <2>2. /\ offset' \in 0..Blocks
        /\ thread' = "read" => offset' < Blocks
        /\ thread' = "sum" => offset' = Blocks
        /\ thread' \in {"read", "sum"}
    BY <1>3, <2>1, OtaAssumption DEF Complete
  <2>3. thread' \in Working /\ thread' \in Alive
    BY <2>2 DEF Working, Alive, Loading
  <2>4. /\ saved' \in [Jobs -> Nat] /\ saved'[Job] = offset'
        /\ \A j \in Jobs : j # Job => saved'[j] = saved[j]
    BY <1>3, <2>1
  <2>5. OtaTypeOK'
    <3>1. {loaded, inited, quit, copied, retry_flag}' \subseteq BOOLEAN
      BY <1>3 DEF OtaInv, OtaTypeOK
    <3>2. late' \in Nat
      BY <1>3, <2>1
    <3> QED
      BY <1>3, <2>1, <2>2, <2>3, <2>4, <3>1, <3>2 DEF OtaInv, OtaTypeOK
  <2>6. OtaControl'
    BY <1>1, <1>3, <2>1, <2>2, ThreadFrame DEF OtaControl, Job
  <2>7. CalledOnce'
    BY <1>1, <1>3, ThreadFrame
  <2>8. \A j \in Jobs : told[j] # <<>> => j # Job
    BY <2>1, OtaAssumption
    DEF OtaInv, SavedInOrder, CalledOnce, Job, Slots
  <2>9. SavedInOrder'
    <3>1. \A j \in Jobs : Begun(j) => Begun(j)'
      BY <1>1, <1>3, <2>3 DEF Begun
    <3>2. Begun(Job)
      BY <1>1, <2>1 DEF Begun, Job
    <3>3. (\A j \in Jobs : saved[j] # 0 => Begun(j))'
      BY <2>1, <2>4, <3>1, <3>2 DEF OtaInv, SavedInOrder
    <3>4. (\A j \in Jobs : told[j] # <<>> => \E i \in Slots : slot[i] = j /\ i < index)'
      BY <1>3 DEF OtaInv, SavedInOrder
    <3>5. (thread \in Working => saved[Job] = offset)'
      BY <2>1, <2>4
    <3> QED
      BY <2>2, <3>3, <3>4, <3>5 DEF SavedInOrder
  <2>10. SucMeansWhole'
    <3>1. \A j \in Jobs : "suc" \in {told[j][i] : i \in DOMAIN told[j]} => told[j] # <<>>
      BY DEF OtaInv, OtaTypeOK
    <3> QED
      BY <1>3, <2>4, <2>8, <3>1 DEF OtaInv, SucMeansWhole
  <2>11. BusyWhileLoading'
    BY <1>1, <1>3 DEF OtaInv, BusyWhileLoading, Busy
  <2>12. LateOnce'
    BY <1>1, <1>3, <2>1, <2>2 DEF OtaInv, LateOnce, QuitHeeded
  <2> QED
    BY <2>5, <2>6, <2>7, <2>9, <2>10, <2>11, <2>12 DEF OtaInv
<1> QED
  BY <1>2, <1>3 DEF file_cb

\* The thread between two packages, and before its end: it comes to a slot
\* with offset 0, when nothing of that package is stored.
LEMMA NextFileStep ==
  ASSUME OtaInv, next_file \/ thread_ends
  PROVE  OtaInv'
<1> USE DEF ThreadLeaves, api, locals
<1>1. /\ ThreadLeaves /\ UNCHANGED <<retry_times, retry_flag, ret, hashed, saved, told, late>>
      /\ thread \in {"next", "end"} /\ thread' \in {"next", "get", "end", "over"}
      /\ thread' = "get" => /\ thread = "next" /\ index \in Slots /\ Job # NoJob
                            /\ offset' = 0 /\ index' = index
      /\ thread' # "get" => offset' = offset
      /\ index' \in {index, index + 1} /\ (index' # index => index # 3)
      /\ thread' \in Alive => status' = status
      /\ status' \in {status, 0}
  <2>1. CASE next_file
    <3>1. index \in 1..3
      BY DEF OtaInv, OtaTypeOK
    <3>2. CASE index = 3 \/ (Job # NoJob /\ Exhausted)
      BY <2>1, <3>2 DEF next_file
    <3>3. CASE index # 3 /\ Job = NoJob
      BY <2>1, <3>3 DEF next_file
    <3>4. CASE index # 3 /\ Job # NoJob /\ ~Exhausted
      BY <2>1, <3>1, <3>4 DEF next_file, Slots
    <3> QED
      BY <3>2, <3>3, <3>4
  <2>2. CASE thread_ends
    BY <2>2 DEF thread_ends, Thread, Alive, Loading
  <2> QED
    BY <2>1, <2>2
<1>2. thread \in Alive /\ thread \notin Working
  BY <1>1 DEF Alive, Working, Loading
<1>3. thread' = "get" => Job' = Job /\ Job \in Jobs
  BY <1>1 DEF Job, OtaInv, OtaTypeOK
<1>4. thread' = "get" \/ thread' \notin Working
  BY <1>1 DEF Working, Loading
<1>5. OtaTypeOK'
  <2>1. {loaded, inited, quit, copied, retry_flag}' \subseteq BOOLEAN
    BY <1>1 DEF OtaInv, OtaTypeOK
  <2>2. index' \in 1..3 /\ offset' \in 0..Blocks /\ status' \in {0, 1}
    BY <1>1, OtaAssumption DEF OtaInv, OtaTypeOK
  <2>3. thread' \in Alive \cup {"none", "over"}
    BY <1>1 DEF Alive, Loading
  <2> QED
    BY <1>1, <1>3, <1>4, <2>1, <2>2, <2>3
    DEF OtaInv, OtaTypeOK, Working
<1>6. OtaControl'
  BY <1>1, <1>2, <1>3, <1>4, ThreadFrame, OtaAssumption DEF OtaControl, Job
<1>7. CalledOnce'
  BY <1>1, <1>2, ThreadFrame
<1>8. SavedInOrder'
  <2>1. index \in Nat
    BY DEF OtaInv, OtaTypeOK
  <2>2. \A j \in Jobs : Begun(j) => Begun(j)'
    BY <1>1, <1>2, <2>1 DEF Begun, Slots
  <2>3. (\A j \in Jobs : saved[j] # 0 => Begun(j))'
    BY <1>1, <2>2 DEF OtaInv, SavedInOrder
  <2>4. (\A j \in Jobs : told[j] # <<>> => \E i \in Slots : slot[i] = j /\ i < index)'
    BY <1>1, <2>1 DEF OtaInv, SavedInOrder, Slots
  <2>5. thread' = "get" => ~Begun(Job)
    BY <1>1, <1>2, <1>3, OtaAssumption
    DEF Begun, Job, Slots, OtaInv, CalledOnce
  <2>6. (thread \in Working => saved[Job] = offset)'
    BY <1>1, <1>3, <1>4, <2>5 DEF OtaInv, SavedInOrder
  <2>7. thread' # "result"
    BY <1>1
  <2> QED
    BY <2>3, <2>4, <2>6, <2>7 DEF SavedInOrder
<1>9. SucMeansWhole' /\ BusyWhileLoading' /\ LateOnce'
  BY <1>1, <1>2
  DEF OtaInv, SucMeansWhole, BusyWhileLoading, Busy, LateOnce, QuitHeeded
<1> QED
  BY <1>5, <1>6, <1>7, <1>8, <1>9 DEF OtaInv

\* The digest is compared when everything has been read.
LEMMA CheckSumStep ==
  ASSUME OtaInv, check_sum
  PROVE  OtaInv'
<1> USE DEF ThreadLeaves, api
<1>1. /\ ThreadLeaves
      /\ UNCHANGED <<index, offset, retry_times, retry_flag, hashed, status, told, saved, late>>
      /\ thread = "sum" /\ thread' = "result"
      /\ ret' \in {"ok", "sign"} /\ (ret' = "ok" => Job \in Good)
      /\ Job' = Job
  BY DEF check_sum, Thread, DigestMatches, Job
<1>2. /\ thread \in Alive /\ thread' \in Alive
      /\ thread \in Working /\ thread' \in Working
  BY <1>1 DEF Alive, Working, Loading
<1>3. OtaTypeOK'
  <2>1. {loaded, inited, quit, copied, retry_flag}' \subseteq BOOLEAN
    BY <1>1 DEF OtaInv, OtaTypeOK
  <2> QED
    BY <1>1, <1>2, <2>1 DEF OtaInv, OtaTypeOK, Loading
<1>4. OtaControl' /\ CalledOnce'
  BY <1>1, <1>2, ThreadFrame DEF OtaInv, OtaControl
<1>5. SavedInOrder'
  <2>1. offset = Blocks
    BY <1>1 DEF OtaInv, OtaControl
  <2> QED
    BY <1>1, <1>2, <2>1 DEF OtaInv, SavedInOrder, Begun
<1>6. SucMeansWhole' /\ BusyWhileLoading' /\ LateOnce'
  BY <1>1, <1>2
  DEF OtaInv, SucMeansWhole, BusyWhileLoading, Busy, LateOnce, QuitHeeded
<1> QED
  BY <1>3, <1>4, <1>5, <1>6 DEF OtaInv

\* Success is reported of a package whose pieces are all stored.
LEMMA NotifyStep ==
  ASSUME OtaInv, notify
  PROVE  OtaInv'
<1> USE DEF ThreadLeaves, api
<1>1. /\ ThreadLeaves
      /\ UNCHANGED <<offset, retry_times, retry_flag, ret, hashed, status, saved, late>>
      /\ thread = "result" /\ thread' = "next" /\ index' = index + 1
      /\ told' = [told EXCEPT ![Job] = Append(@, IF ret = "ok" THEN "suc" ELSE "failed")]
  BY DEF notify, Thread
<1>2. /\ thread \in Alive /\ thread' \in Alive
      /\ thread \in Working /\ thread' \notin Working
  BY <1>1 DEF Alive, Working, Loading
<1>3. /\ index \in Slots /\ slot[index] = Job /\ Job \in Jobs
      /\ told \in [Jobs -> Seq({"suc", "failed"})]
  BY <1>2 DEF OtaInv, OtaControl, OtaTypeOK, Job
<1>4. /\ told' \in [Jobs -> Seq({"suc", "failed"})]
      /\ \A j \in Jobs : j # Job => told'[j] = told[j]
      /\ told'[Job] = Append(told[Job], IF ret = "ok" THEN "suc" ELSE "failed")
  BY <1>1, <1>3
<1>5. OtaTypeOK'
  <2>1. {loaded, inited, quit, copied, retry_flag}' \subseteq BOOLEAN
    BY <1>1 DEF OtaInv, OtaTypeOK
  <2>2. index' \in 1..3
    BY <1>1, <1>3 DEF Slots
  <2> QED
    BY <1>1, <1>2, <1>4, <2>1, <2>2 DEF OtaInv, OtaTypeOK, Loading
<1>6. OtaControl' /\ CalledOnce'
  BY <1>1, <1>2, ThreadFrame DEF OtaInv, OtaControl
<1>7. SavedInOrder'
  <2>1. \A j \in Jobs : Begun(j) => Begun(j)'
    BY <1>1, <1>2, <1>3 DEF Begun, Slots
  <2>2. (\A j \in Jobs : saved[j] # 0 => Begun(j))'
    BY <1>1, <2>1 DEF OtaInv, SavedInOrder
  <2>3. ASSUME NEW j \in Jobs, told'[j] # <<>>
        PROVE  \E i \in Slots : slot'[i] = j /\ i < index'
    <3>1. CASE j = Job
      BY <1>1, <1>3, <3>1 DEF Slots
    <3>2. CASE j # Job
      <4>1. told[j] # <<>>
        BY <1>4, <2>3, <3>2
      <4> QED
        BY <1>1, <1>3, <4>1 DEF OtaInv, SavedInOrder, Slots
    <3> QED
      BY <3>1, <3>2
  <2> QED
    BY <1>1, <1>2, <2>2, <2>3 DEF SavedInOrder
<1>8. SucMeansWhole'
  <2>1. ret = "ok" => saved[Job] = Blocks /\ Job \in Good
    BY <1>1, <1>2 DEF OtaInv, SavedInOrder
  <2>2. ASSUME NEW j \in Jobs, NEW i \in DOMAIN told'[j], told'[j][i] = "suc"
        PROVE  saved'[j] = Blocks /\ j \in Good
    <3>1. CASE j # Job
      BY <1>1, <1>4, <2>2, <3>1 DEF OtaInv, SucMeansWhole
    <3>2. CASE j = Job /\ i \in DOMAIN told[Job]
      <4>1. told'[j][i] = told[Job][i]
        BY <1>3, <1>4, <3>2
      <4> QED
        BY <1>1, <1>3, <2>2, <3>2, <4>1 DEF OtaInv, SucMeansWhole
    <3>3. CASE j = Job /\ i \notin DOMAIN told[Job]
      <4>1. told'[j][i] = IF ret = "ok" THEN "suc" ELSE "failed"
        BY <1>3, <1>4, <2>2, <3>3
      <4> QED
        BY <1>1, <2>1, <2>2, <3>3, <4>1
    <3> QED
      BY <3>1, <3>2, <3>3
  <2> QED
    BY <2>2 DEF SucMeansWhole
<1>9. BusyWhileLoading' /\ LateOnce'
  BY <1>1, <1>2 DEF OtaInv, BusyWhileLoading, Busy, LateOnce, QuitHeeded
<1> QED
  BY <1>5, <1>6, <1>7, <1>8, <1>9 DEF OtaInv

\* No step of either thread breaks the invariant.
LEMMA OtaInductive == OtaInv /\ [Next]_vars => OtaInv'
<1> SUFFICES ASSUME OtaInv, [Next]_vars PROVE OtaInv'
  OBVIOUS
<1>1. CASE UNCHANGED vars
  <2>1. UNCHANGED <<api, shared, caller, thread, locals, history>>
    BY <1>1 DEF vars
  <2> QED
    BY <2>1, DownloadUntouched
    DEF OtaInv, OtaTypeOK, OtaControl, CalledOnce, BusyWhileLoading, Busy,
        LateOnce, QuitHeeded, Job, api, shared, locals, history
<1>2. ASSUME NEW j \in Jobs, ez_iot_ota_download(j) PROVE OtaInv'
  BY <1>2, CallWithoutSlot, CallFillsSlot DEF ez_iot_ota_download
<1> QED
  BY <1>1, <1>2, LifeCycleStep, CallStep, CreateStep, RequestStep,
     CallbackStep, NextFileStep, CheckSumStep, NotifyStep
  DEF Next, Application, CallGoesOn, Downloading

\* OtaInv holds in every reachable state.
THEOREM OtaInvariant == OtaSpec => []OtaInv
<1> QED
  BY OtaInit, OtaInductive, PTL DEF OtaSpec

\* Positions, counters and results keep their types: among others no more
\* pieces are read than a package has, and the thread never works on a slot
\* that is empty.
THEOREM OtaTypeCorrect == OtaSpec => []OtaTypeOK
<1>1. OtaInv => OtaTypeOK
  BY DEF OtaInv
<1> QED
  BY <1>1, OtaInvariant, PTL

\* Success is reported only of a package the application holds completely
\* and unaltered, however many attempts it took.
THEOREM SuccessIsWhole == OtaSpec => []SucMeansWhole
<1>1. OtaInv => SucMeansWhole
  BY DEF OtaInv
<1> QED
  BY <1>1, OtaInvariant, PTL

\* A download is resumed behind the last piece that was stored.
THEOREM ResumesWhereItStopped == OtaSpec => []ResumesExactly
<1>1. OtaInv => ResumesExactly
  BY DEF OtaInv, SavedInOrder, ResumesExactly, Working
<1> QED
  BY <1>1, OtaInvariant, PTL

\* The status is set as long as the thread works, but for the moment between
\* its creation and the store that follows.
THEOREM StatusIsSet == OtaSpec => []BusyWhileLoading
<1>1. OtaInv => BusyWhileLoading
  BY DEF OtaInv
<1> QED
  BY <1>1, OtaInvariant, PTL

\* A shut-down module calls the application back once more at most.
THEOREM QuitEndsCallbacks == OtaSpec => []QuitHeeded
<1>1. OtaInv => QuitHeeded
  BY DEF OtaInv, LateOnce
<1> QED
  BY <1>1, OtaInvariant, PTL
=============================================================================
