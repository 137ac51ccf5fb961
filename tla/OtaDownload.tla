---------------------------- MODULE OtaDownload ----------------------------
(***************************************************************************)
(* Download of upgrade packages (component/ota: ez_ota_api.c, ez_ota.c,    *)
(* g_quit and the extension of ez_ota_extern.c).                           *)
(*                                                                         *)
(* The application hands a package to ez_iot_ota_download.  The first one  *)
(* fills the first of two slots and starts a detached thread; one handed   *)
(* over while that thread works fills the second slot, which the thread    *)
(* looks at after the first.  Nothing empties a slot.  The two threads     *)
(* share the slots, g_download_status and g_quit without any lock.  A      *)
(* package is Blocks pieces long; what the web client returns and whether  *)
(* the application can store a piece are choices of the environment.       *)
(***************************************************************************)
EXTENDS Naturals, Sequences

CONSTANTS Jobs,        \* packages the application wants to download
          Good,        \* those whose content matches their digest
          RetryMax,    \* retry_max of a package
          NoJob,       \* total_size 0: the slot is unused
          Blocks,      \* pieces a package arrives in
          InitMax      \* bound: calls of ez_iot_ota_init

ASSUME OtaAssumption ==
  /\ Good \subseteq Jobs /\ NoJob \notin Jobs
  /\ RetryMax \in [Jobs -> Nat]
  /\ Blocks \in Nat \ {0} /\ InitMax \in Nat

VARIABLES loaded,      \* the kernel knows the OTA extension
          inited,      \* g_ota_inited
          quit,        \* g_quit
          status,      \* g_download_status
          slot,        \* g_struFiles_info
          copied,      \* url and digest of the second slot are in place
          caller,      \* thread inside ez_ota_file_download, and its package
          thread,      \* where ota_file_download_thread is
          index, offset, retry_times, retry_flag, ret,   \* its locals
          hashed,      \* offset at which md5_ctx was started
          inits,
          call,        \* what became of the call for a package
          told,        \* results the notify callback was given
          saved,       \* pieces the file callback has taken
          late         \* pieces taken since g_quit was set

api == <<loaded, inited, quit, inits>>
shared == <<status, slot, copied>>
locals == <<index, offset, retry_times, retry_flag, ret, hashed>>
history == <<call, told, saved, late>>
vars == <<api, shared, caller, thread, locals, history>>

Slots == {1, 2}
Out == [at |-> "out", job |-> NoJob]
Loading == {"get", "read", "got", "cb", "sum"}
Alive == Loading \cup {"next", "result", "end"}
Job == slot[index]

OtaTypeOK ==
  /\ {loaded, inited, quit, copied, retry_flag} \subseteq BOOLEAN
  /\ status \in {0, 1} /\ slot \in [Slots -> Jobs \cup {NoJob}]
  /\ caller \in [at : {"out", "copy", "create", "store"}, job : Jobs \cup {NoJob}]
  /\ thread \in Alive \cup {"none", "over"}
  /\ index \in 1..3 /\ (thread \in Loading \cup {"result"} => Job \in Jobs)
  /\ {offset, hashed} \subseteq 0..Blocks
  /\ retry_times \in Nat /\ ret \in {"ok", "download", "cancel", "general", "sign"}
  /\ inits \in 0..InitMax
  /\ call \in [Jobs -> {"new", "accepted", "refused"}]
  /\ told \in [Jobs -> Seq({"suc", "failed"})]
  /\ saved \in [Jobs -> Nat] /\ late \in Nat

Init ==
  /\ loaded = FALSE /\ inited = FALSE /\ quit = FALSE /\ inits = 0
  /\ status = 0 /\ slot = [i \in Slots |-> NoJob] /\ copied = FALSE
  /\ caller = Out /\ thread = "none"
  /\ index = 1 /\ offset = 0 /\ retry_times = 0 /\ retry_flag = FALSE
  /\ ret = "ok" /\ hashed = 0
  /\ call = [j \in Jobs |-> "new"] /\ told = [j \in Jobs |-> <<>>]
  /\ saved = [j \in Jobs |-> 0] /\ late = 0

-----------------------------------------------------------------------------
(* The module's life cycle.                                                *)

\* g_quit is reset before the extension is loaded; the kernel refuses to
\* load an extension twice and forgets it only in ezdev_sdk_kernel_fini.
ez_iot_ota_init ==
  /\ inits < InitMax /\ inits' = inits + 1
  /\ quit' = FALSE /\ late' = 0
  /\ inited' = (inited \/ ~loaded) /\ loaded' = TRUE
  /\ UNCHANGED <<shared, caller, thread, locals, call, told, saved>>

ez_iot_ota_deinit ==
  /\ inited /\ inited' = FALSE
  /\ quit' = TRUE /\ late' = 0
  /\ UNCHANGED <<loaded, inits, shared, caller, thread, locals, call, told, saved>>

extend_fini ==
  /\ loaded /\ loaded' = FALSE
  /\ UNCHANGED <<inited, quit, inits, shared, caller, thread, locals, history>>

-----------------------------------------------------------------------------
(* ez_iot_ota_download, called by one thread of the application.           *)

Answer(j, rv) == /\ call' = [call EXCEPT ![j] = rv] /\ caller' = Out
                 /\ UNCHANGED <<told, saved, late>>

Busy == status = 1

download_refused(j) ==
  /\ ~inited \/ (Busy /\ slot[2] # NoJob)
  /\ Answer(j, "refused") /\ UNCHANGED shared

\* total_size is stored before url and check_sum are copied.
download_joins(j) ==
  /\ inited /\ Busy /\ slot[2] = NoJob
  /\ slot' = [slot EXCEPT ![2] = j] /\ caller' = [at |-> "copy", job |-> j]
  /\ UNCHANGED <<status, copied, history>>

download_starts(j) ==
  /\ inited /\ ~Busy /\ slot[1] = NoJob
  /\ slot' = [slot EXCEPT ![1] = j] /\ caller' = [at |-> "create", job |-> j]
  /\ UNCHANGED <<status, copied, history>>

\* The first slot is taken by an earlier package: nothing is kept of this
\* one, and the call succeeds.
download_nothing(j) ==
  /\ inited /\ ~Busy /\ slot[1] # NoJob
  /\ status' = 1 /\ Answer(j, "accepted")
  /\ UNCHANGED <<slot, copied>>

ez_iot_ota_download(j) ==
  /\ call[j] = "new" /\ caller = Out
  /\ \/ download_refused(j) \/ download_joins(j)
     \/ download_starts(j) \/ download_nothing(j)
  /\ UNCHANGED <<api, thread, locals>>

copy_url ==
  /\ caller.at = "copy" /\ copied' = TRUE /\ Answer(caller.job, "accepted")
  /\ UNCHANGED <<api, status, slot, thread, locals>>

hal_thread_create ==
  /\ caller.at = "create"
  /\ \/ /\ thread' = "next" /\ caller' = [caller EXCEPT !.at = "store"]
        /\ UNCHANGED history
     \/ /\ Answer(caller.job, "refused") /\ UNCHANGED thread
  /\ UNCHANGED <<api, shared, locals>>

\* Fault: g_download_status is left as it is.
store_status_Forgets ==
  /\ caller.at = "store" /\ Answer(caller.job, "accepted")
  /\ UNCHANGED <<api, shared, thread, locals>>

store_status ==
  /\ caller.at = "store" /\ status' = 1 /\ Answer(caller.job, "accepted")
  /\ UNCHANGED <<api, slot, copied, thread, locals>>

-----------------------------------------------------------------------------
(* ota_file_download_thread.                                               *)

Thread(from, to) == thread = from /\ thread' = to
ThreadLeaves == UNCHANGED <<api, slot, copied, caller, call>>

\* One turn of the loop over the slots, up to the request.
Exhausted == retry_times > RetryMax[Job]

next_file ==
  /\ thread = "next"
  /\ IF index = 3 \/ (Job # NoJob /\ Exhausted)
       THEN thread' = "end" /\ UNCHANGED <<index, offset>>
     ELSE IF Job = NoJob
       THEN index' = index + 1 /\ UNCHANGED <<thread, offset>>
       ELSE thread' = "get" /\ offset' = 0 /\ UNCHANGED index
  /\ UNCHANGED <<retry_times, retry_flag, ret, hashed, status, told, saved, late>>
  /\ ThreadLeaves

GivesUp(why) == thread' = "result" /\ ret' = why /\ UNCHANGED <<offset, retry_times, retry_flag>>

\* Fault: offset is reset while the request still resumes.
DownloadError_FromStart ==
  /\ retry_times' = retry_times + 1 /\ ret' = "download"
  /\ IF retry_times' > RetryMax[Job] \/ quit
       THEN thread' = "result" /\ UNCHANGED <<offset, retry_flag>>
       ELSE thread' = "get" /\ retry_flag' = TRUE /\ offset' = 0

\* ota_code_download: once more, unless there were enough tries or the
\* module has been shut down.
DownloadError ==
  /\ retry_times' = retry_times + 1 /\ ret' = "download"
  /\ IF retry_times' > RetryMax[Job] \/ quit
       THEN thread' = "result" /\ UNCHANGED retry_flag
       ELSE thread' = "get" /\ retry_flag' = TRUE
  /\ UNCHANGED offset

\* webclient_get asks for the whole file, webclient_get_position for the
\* rest of it; what comes must be as long as what is missing.
Asked == IF retry_flag THEN offset ELSE 0
UrlThere == index = 1 \/ copied

request ==
  /\ thread = "get"
  /\ \/ /\ UrlThere /\ Asked = offset
        /\ thread' = "read" /\ hashed' = offset
        /\ UNCHANGED <<offset, retry_times, retry_flag, ret>>
     \/ DownloadError /\ UNCHANGED hashed
     \/ GivesUp("general") /\ UNCHANGED hashed
  /\ UNCHANGED <<index, status, told, saved, late>>
  /\ ThreadLeaves

webclient_read ==
  /\ thread = "read"
  /\ \/ thread' = "got" /\ UNCHANGED <<offset, retry_times, retry_flag, ret>>
     \/ DownloadError
  /\ UNCHANGED <<index, hashed, status, told, saved, late>>
  /\ ThreadLeaves

\* Fault: g_quit is not tested between two pieces.
check_quit_Skipped ==
  /\ Thread("got", "cb")
  /\ UNCHANGED <<locals, status, told, saved, late>>
  /\ ThreadLeaves

check_quit ==
  /\ thread = "got"
  /\ IF quit THEN GivesUp("cancel")
             ELSE thread' = "cb" /\ UNCHANGED <<offset, retry_times, retry_flag, ret>>
  /\ UNCHANGED <<index, hashed, status, told, saved, late>>
  /\ ThreadLeaves

\* Fault: one read too many.
Complete_OneMore(bytes) == bytes > Blocks

Complete(bytes) == bytes = Blocks

file_cb ==
  /\ thread = "cb"
  /\ \/ /\ offset' = offset + 1
        /\ thread' = IF Complete(offset') THEN "sum" ELSE "read"
        /\ saved' = [saved EXCEPT ![Job] = @ + 1]
        /\ late' = IF quit THEN late + 1 ELSE late
        /\ UNCHANGED <<retry_times, retry_flag, ret>>
     \/ GivesUp("general") /\ UNCHANGED <<saved, late>>
  /\ UNCHANGED <<index, hashed, status, told>>
  /\ ThreadLeaves

\* Fault: the digest is computed and not compared.
DigestMatches_Anyway == hashed = 0

\* md5_ctx is started in every call of file_download, and sees the pieces of
\* that call only.
DigestMatches == Job \in Good /\ hashed = 0

check_sum ==
  /\ Thread("sum", "result") /\ ret' = IF DigestMatches THEN "ok" ELSE "sign"
  /\ UNCHANGED <<index, offset, retry_times, retry_flag, hashed, status, told, saved, late>>
  /\ ThreadLeaves

\* Fault: the thread ends after the first package.
notify_LastFile ==
  /\ Thread("result", "end") /\ UNCHANGED index
  /\ told' = [told EXCEPT ![Job] = Append(@, IF ret = "ok" THEN "suc" ELSE "failed")]
  /\ UNCHANGED <<offset, retry_times, retry_flag, ret, hashed, status, saved, late>>
  /\ ThreadLeaves

notify ==
  /\ Thread("result", "next") /\ index' = index + 1
  /\ told' = [told EXCEPT ![Job] = Append(@, IF ret = "ok" THEN "suc" ELSE "failed")]
  /\ UNCHANGED <<offset, retry_times, retry_flag, ret, hashed, status, saved, late>>
  /\ ThreadLeaves

thread_ends ==
  /\ Thread("end", "over") /\ status' = 0
  /\ UNCHANGED <<locals, told, saved, late>>
  /\ ThreadLeaves

-----------------------------------------------------------------------------
Application ==
  \/ ez_iot_ota_init \/ ez_iot_ota_deinit \/ extend_fini
  \/ \E j \in Jobs : ez_iot_ota_download(j)

CallGoesOn == copy_url \/ hal_thread_create \/ store_status

Downloading ==
  \/ next_file \/ request \/ webclient_read \/ check_quit \/ file_cb
  \/ check_sum \/ notify \/ thread_ends

Next == Application \/ CallGoesOn \/ Downloading

OtaSpec == Init /\ [][Next]_vars

\* Both threads get processor time and each of their calls returns: the web
\* client has timeouts, the callbacks belong to the application.
OtaLiveSpec == OtaSpec /\ WF_vars(CallGoesOn) /\ WF_vars(Downloading)

-----------------------------------------------------------------------------
\* A package reported as downloaded is one the application holds completely
\* and unaltered (md5 check at the end of file_download).
SucMeansWhole ==
  \A j \in Jobs : "suc" \in {told[j][i] : i \in DOMAIN told[j]}
                    => saved[j] = Blocks /\ j \in Good

\* However often the connection is lost, the application gets the pieces
\* without gap or repetition: a resumed download goes on where the last
\* piece was stored (offset survives file_download, g_quit and retries).
ResumesExactly == thread \in Loading => saved[Job] = offset

\* While the thread works, a caller finds g_download_status set, except
\* between hal_thread_create and the store that follows it.
BusyWhileLoading == thread \in Alive => Busy \/ caller.at = "store"

\* After ez_iot_ota_deinit the application is given at most the one piece
\* that was past the test of g_quit, as long as nobody initialises again.
QuitHeeded == late <= 1

\* A package that started the thread is reported, and so is one that joined
\* while the first was in work, unless the first has used up the tries of
\* both: the loop over tries, pieces and slots ends whatever the server does.
PackagesAreTold == \A j \in Jobs :
  /\ slot[1] = j /\ thread \in Alive ~> told[j] # <<>>
  /\ slot[2] = j /\ index = 1 /\ thread \in Alive
       ~> told[j] # <<>> \/ (thread = "over" /\ retry_times > RetryMax[j])

\* What the interface promises: a package accepted by ez_iot_ota_download
\* gets a result (ez_iot_ota.h, notify_cb).  It does not hold.
AcceptedIsTold == \A j \in Jobs :
  call[j] = "accepted" ~> told[j] # <<>>

-----------------------------------------------------------------------------
(* The inductive invariant behind the safety properties.                   *)

Working == Loading \cup {"result"}

\* The thread has come to the slot of the package.
Begun(j) == \E i \in Slots :
  slot[i] = j /\ (i < index \/ (i = index /\ thread \in Working))

OtaControl ==
  /\ caller.at # "out" => caller.job \in Jobs
  /\ caller.at = "create" => slot[1] # NoJob
  /\ caller.at = "create" \/ slot[1] = NoJob => thread = "none"
  /\ thread \in Working => index \in Slots /\ slot[index] \in Jobs
  /\ thread \in {"get", "read", "got", "cb"} => offset < Blocks
  /\ thread = "sum" => offset = Blocks

\* A package is in one slot at most: it was called for before.
CalledOnce ==
  /\ slot[1] = slot[2] => slot[1] = NoJob
  /\ \A i \in Slots : slot[i] \in Jobs =>
       call[slot[i]] # "new" \/ (caller.at # "out" /\ caller.job = slot[i])

SavedInOrder ==
  /\ thread \in Working => saved[Job] = offset
  /\ thread = "result" /\ ret = "ok" => offset = Blocks /\ Job \in Good
  /\ \A j \in Jobs : saved[j] # 0 => Begun(j)
  /\ \A j \in Jobs : told[j] # <<>> => \E i \in Slots : slot[i] = j /\ i < index

\* Once g_quit was seen the callback is not called any more.
LateOnce == QuitHeeded /\ (quit /\ thread = "cb" => late = 0)

OtaInv ==
  /\ OtaTypeOK /\ OtaControl /\ CalledOnce /\ SavedInOrder
  /\ SucMeansWhole /\ BusyWhileLoading /\ LateOnce
=============================================================================
