----------------------------- MODULE TslProfile -----------------------------
(***************************************************************************)
(* Profiles of the thing model (component/tsl/ez_iot_tsl_adapter.c): how a *)
(* registered device comes by the profile of its type and version.         *)
(*                                                                         *)
(* A registration tries flash first; otherwise the device waits in         *)
(* g_tsl_dev_info_list for one thread, which queries the platform for a    *)
(* URL, downloads, stores and loads the profile, and ends when nothing     *)
(* waits.  Flash holds TSLMAP, the handle of each device, and one file per *)
(* handle; a handle is the digest of type and version, here the version.   *)
(* Three threads meet: the one that registers (the hub's calls, one at a   *)
(* time under its lock), the one that downloads, and kernel_yield's, which *)
(* brings the URLs.  g_profile_mutex guards the list, nothing guards flash.*)
(* The list of profiles in RAM is only read by the checks of values and    *)
(* left out: tsl_adapter_ref_add returns false before it looks at it.      *)
(***************************************************************************)
EXTENDS Naturals, Sequences, FiniteSets

CONSTANTS Devs, Vers, NoDev, NoVer,
          Ver0,        \* version a device starts with
          Loaded,      \* devices that may be registered and loaded already
          OpMax,       \* bound: registrations, removals and updates
          EarlyMax     \* bound: answers noted between the thread's look at a
                       \* device and its note of the query it sends

ASSUME TslAssumption ==
  /\ NoDev \notin Devs /\ NoVer \notin Vers
  /\ Ver0 \in [Devs -> Vers] /\ Loaded \in Seq(Devs)
  /\ OpMax \in Nat /\ EarlyMax \in Nat

VARIABLES list,      \* g_tsl_dev_info_list
          known,     \* flash: TSLMAP, the handle of each device
          file,      \* flash: the profile stored under a handle
          inst,      \* the profile a device's shadow was made from
          running,   \* g_profile_download_thread_running
          thr,       \* where ez_profile_get_thread is
          job,       \* its copy of the device it serves
          dangling,  \* what that copy points to has been freed
          copy,      \* the copy of TSLMAP that a profile_save works on
          reg,       \* the thread that registers
          asked,     \* queries whose answer has not come
          url,       \* device whose URL the yield thread has just noted
          fw,        \* present version of a device
          upset,     \* a device was updated, or removed under the thread's hands
          ops, early

flash == <<known, file>>
dl == <<running, thr, job, dangling>>
bounds == <<fw, upset, ops, early>>
vars == <<list, flash, inst, dl, copy, reg, asked, url, bounds>>

Ver == Vers \cup {NoVer}
Statuses == {"done", "need_update", "query", "loading"}
Entry == [sn : Devs, ver : Vers, status : Statuses, info : Ver]
NoJob == [sn |-> NoDev, ver |-> NoVer, status |-> "done", info |-> NoVer]
Idle == [at |-> "idle", sn |-> NoDev, get |-> FALSE]
NoMap == [d \in Devs |-> NoVer]
NoFiles == [v \in Vers |-> NoVer]
NoCopy == [p \in {"reg", "dl"} |-> NoMap]

Found(d) == \E i \in DOMAIN list : list[i].sn = d
Undone(d) == \E i \in DOMAIN list : list[i].sn = d /\ list[i].status # "done"

\* The registering thread waits in hal_thread_destroy with the mutex.
Unlocked == reg.at # "join"

TslTypeOK ==
  /\ list \in Seq(Entry)
  /\ known \in [Devs -> Ver] /\ file \in [Vers -> Ver] /\ inst \in [Devs -> Ver]
  /\ running \in BOOLEAN /\ dangling \in BOOLEAN /\ upset \in BOOLEAN
  /\ job \in Entry \cup {NoJob}
  /\ thr \in {"none", "born", "look", "serve", "queried", "save", "write",
              "load", "mark", "ending", "over"}
  /\ thr \in {"serve", "queried", "save", "write", "load", "mark"} => job \in Entry
  /\ copy \in [{"reg", "dl"} -> [Devs -> Ver]]
  /\ reg \in [at : {"idle", "load", "add", "save", "write", "start", "join",
                    "del", "del_write"},
              sn : Devs \cup {NoDev}, get : BOOLEAN]
  /\ reg.at # "idle" => reg.sn \in Devs
  /\ asked \subseteq Devs \X Vers /\ url \in Devs \cup {NoDev}
  /\ fw \in [Devs -> Vers]
  /\ ops \in 0..OpMax /\ early \in 0..EarlyMax

\* The system is met empty, or at work with some of the Loaded devices.
Init ==
  /\ \E n \in 0..Len(Loaded) :
       LET here == {Loaded[i] : i \in 1..n}
       IN  /\ list = [i \in 1..n |-> [sn |-> Loaded[i], ver |-> Ver0[Loaded[i]],
                                     status |-> "done", info |-> NoVer]]
           /\ known = [d \in Devs |-> IF d \in here THEN Ver0[d] ELSE NoVer]
           /\ file = [v \in Vers |-> IF \E d \in here : Ver0[d] = v THEN v ELSE NoVer]
           /\ inst = known
  /\ running = FALSE /\ thr = "none" /\ job = NoJob /\ dangling = FALSE
  /\ copy = NoCopy /\ reg = Idle
  /\ asked = {} /\ url = NoDev
  /\ fw = Ver0 /\ upset = FALSE /\ ops = 0 /\ early = 0

\* An entry that is gone meanwhile is not missed; that of a device that was
\* registered again is changed.
tsl_adapter_dev_update(d, status) ==
  list' = [i \in DOMAIN list |->
             IF list[i].sn # d THEN list[i]
             ELSE [list[i] EXCEPT !.status = status,
                                  !.info = IF status = "done" THEN NoVer ELSE @]]

-----------------------------------------------------------------------------
(* Flash.  TSLMAP is read, changed in a copy and written back.             *)

\* The loop leaves at the first device with the handle: never more than 1.
get_tsl_handle_count(map, h) == IF \E d \in Devs : map[d] = h THEN 1 ELSE 0

Forget(files, h) == [files EXCEPT ![h] = NoVer]

ReadMap(p) == copy' = [copy EXCEPT ![p] = known] /\ UNCHANGED flash

\* The files a save meets when it writes.  An empty copy means a TSLMAP
\* without entries or none at all; then all files have been removed first,
\* before or after the other thread wrote its own.
Met(p) == {file} \cup IF copy[p] = NoMap THEN {NoFiles} ELSE {}

\* The file of a handle the device had before goes.
Rid(files, p, d, v) ==
  LET old == copy[p][d]
  IN  IF old \notin {v, NoVer} /\ get_tsl_handle_count(copy[p], old) = 1
        THEN Forget(files, old) ELSE files

\* The second half of tsl_adapter_profile_save for a device of version v,
\* with a profile or without one.
SaveMap(p, d, v, profile) ==
  LET map == [copy[p] EXCEPT ![d] = v]
  IN  /\ known' = IF copy[p][d] = v THEN known ELSE map
      /\ \E files \in Met(p) :
           file' = IF profile # NoVer /\ get_tsl_handle_count(map, v) = 1
                     THEN [Rid(files, p, d, v) EXCEPT ![v] = profile]
                     ELSE Rid(files, p, d, v)
      /\ copy' = [copy EXCEPT ![p] = NoMap]

\* TSLMAP cannot be written: the error code becomes the result of a bool
\* function, which the caller takes for success.
SaveMapUnwritten(p, d, v) ==
  /\ copy[p][d] # v
  /\ \E files \in Met(p) : file' = Rid(files, p, d, v)
  /\ UNCHANGED known
  /\ copy' = [copy EXCEPT ![p] = NoMap]

SaveNothing(p) ==
  /\ file' \in Met(p) /\ UNCHANGED known
  /\ copy' = [copy EXCEPT ![p] = NoMap]

\* The second half of ez_iot_tsl_adapter_profile_del; either write may fail.
DeleteFromMap(d) ==
  LET old == copy["reg"][d]
  IN  /\ \/ UNCHANGED flash
         \/ /\ old # NoVer
            /\ known' \in {known, [copy["reg"] EXCEPT ![d] = NoVer]}
            /\ file' = IF get_tsl_handle_count(copy["reg"], old) = 1
                         THEN Forget(file, old) ELSE file
      /\ copy' = [copy EXCEPT !["reg"] = NoMap]

\* tsl_adapter_profile_load goes by the serial and does not compare the
\* handle found with that of the device.
Stored(d) == IF known[d] = NoVer THEN NoVer ELSE file[known[d]]
Instantiate(d) == inst' = [inst EXCEPT ![d] = IF Stored(d) = NoVer THEN @ ELSE Stored(d)]

-----------------------------------------------------------------------------
(* Registration (ez_iot_tsl_reg, ez_iot_tsl_unreg; the hub's calls).       *)

Call == reg.at = "idle" /\ ops < OpMax /\ ops' = ops + 1
Reg(from, to) == reg.at = from /\ reg' = [reg EXCEPT !.at = to]

\* A device found in the list is left alone.
ez_iot_tsl_reg(d) ==
  /\ Call /\ ~Found(d) /\ reg' = [at |-> "load", sn |-> d, get |-> FALSE]
  /\ UNCHANGED <<list, flash, inst, dl, copy, asked, url, fw, upset, early>>

\* The first entry of the serial goes (ezlist_removeat).
Without(d) ==
  LET k == CHOOSE i \in DOMAIN list : list[i].sn = d
  IN  IF Found(d) THEN [i \in 1..(Len(list) - 1) |-> list[IF i < k THEN i ELSE i + 1]]
                  ELSE list

\* tsl_adapter_dev_del; what the download thread has copied of the entry
\* points to memory that is free from now on.
Remove(d) ==
  /\ list' = Without(d)
  /\ dangling' = (dangling \/ job.sn = d)
  /\ UNCHANGED <<running, thr, job>>

\* hub_ver_update_do: unregister the old version, register the new one.
hub_tsl_update(d, v) ==
  /\ Call /\ v # fw[d] /\ fw' = [fw EXCEPT ![d] = v]
  /\ Remove(d) /\ upset' = TRUE
  /\ reg' = [at |-> "load", sn |-> d, get |-> FALSE]
  /\ UNCHANGED <<flash, inst, copy, asked, url, early>>

\* hub_del_do: unregister, then ez_iot_tsl_adapter_profile_del.
hub_tsl_del(d) ==
  /\ Call /\ Remove(d) /\ upset' = (upset \/ job.sn = d)
  /\ reg' = [at |-> "del", sn |-> d, get |-> FALSE]
  /\ UNCHANGED <<flash, inst, copy, asked, url, fw, early>>

profile_del_read ==
  /\ Reg("del", "del_write") /\ ReadMap("reg")
  /\ UNCHANGED <<list, inst, dl, asked, url, bounds>>

profile_del_write ==
  /\ reg.at = "del_write" /\ reg' = Idle /\ DeleteFromMap(reg.sn)
  /\ UNCHANGED <<list, inst, dl, asked, url, bounds>>

adapter_add_load ==
  /\ reg.at = "load" /\ Instantiate(reg.sn)
  /\ reg' = [reg EXCEPT !.at = "add", !.get = (Stored(reg.sn) = NoVer)]
  /\ UNCHANGED <<list, flash, dl, copy, asked, url, bounds>>

tsl_adapter_dev_add ==
  /\ Reg("add", "save")
  /\ list' = Append(list, [sn |-> reg.sn, ver |-> fw[reg.sn], info |-> NoVer,
                 status |-> IF reg.get THEN "need_update" ELSE "done"])
  /\ UNCHANGED <<flash, inst, dl, copy, asked, url, bounds>>

\* tsl_adapter_profile_save(dev_info, NULL, 0)
add_save_read ==
  /\ Reg("save", "write") /\ ReadMap("reg")
  /\ UNCHANGED <<list, inst, dl, asked, url, bounds>>

add_save_write ==
  /\ reg.at = "write"
  /\ \/ SaveMap("reg", reg.sn, fw[reg.sn], NoVer)
     \/ SaveMapUnwritten("reg", reg.sn, fw[reg.sn])
  /\ reg' = IF reg.get THEN [reg EXCEPT !.at = "start"] ELSE Idle
  /\ UNCHANGED <<list, inst, dl, asked, url, bounds>>

\* tsl_adapter_dl_task_yeild.  A thread that was made and does not run is
\* joined, under g_profile_mutex; one that was made a moment ago is not
\* running yet either.
CreateThread ==
  /\ thr' \in {"born", "none"} /\ reg' = Idle
  /\ UNCHANGED <<list, flash, inst, running, job, dangling, copy, asked, url, bounds>>

dl_task_running ==
  /\ reg.at = "start" /\ running /\ reg' = Idle
  /\ UNCHANGED <<list, flash, inst, dl, copy, asked, url, bounds>>

dl_task_create == reg.at = "start" /\ ~running /\ thr = "none" /\ CreateThread

dl_task_join ==
  /\ ~running /\ thr # "none" /\ Reg("start", "join")
  /\ UNCHANGED <<list, flash, inst, dl, copy, asked, url, bounds>>

dl_task_joined == reg.at = "join" /\ thr = "over" /\ CreateThread

-----------------------------------------------------------------------------
(* The download thread, ez_profile_get_thread.                             *)

Thr(from, to) == thr = from /\ thr' = to

thread_enter ==
  /\ Thr("born", "look") /\ running' = TRUE
  /\ UNCHANGED <<list, flash, inst, job, dangling, copy, reg, asked, url, bounds>>

\* While offline the thread sleeps and looks again.
look_found ==
  /\ Thr("look", "serve") /\ Unlocked
  /\ \E i \in DOMAIN list :
       /\ list[i].status # "done" /\ \A k \in 1..(i-1) : list[k].status = "done"
       /\ job' = list[i]
  /\ UNCHANGED <<list, flash, inst, running, dangling, copy, reg, asked, url, bounds>>

\* Fault: the thread ends as soon as one device is done.
look_nothing_OneDone ==
  /\ Thr("look", "ending") /\ Unlocked /\ \E d \in Devs : ~Undone(d)
  /\ UNCHANGED <<list, flash, inst, running, job, dangling, copy, reg, asked, url, bounds>>

look_nothing ==
  /\ Thr("look", "ending") /\ Unlocked /\ \A d \in Devs : ~Undone(d)
  /\ UNCHANGED <<list, flash, inst, running, job, dangling, copy, reg, asked, url, bounds>>

thread_leaves ==
  /\ Thr("ending", "over") /\ running' = FALSE
  /\ UNCHANGED <<list, flash, inst, job, dangling, copy, reg, asked, url, bounds>>

\* Fault: a failure does not return to the loop.
Gives_up_FallsThrough ==
  /\ thr' = "mark" /\ job' = NoJob /\ dangling' = FALSE
  /\ UNCHANGED <<list, inst, running, reg, asked, url, bounds>>

Gives_up ==
  /\ thr' = "look" /\ job' = NoJob /\ dangling' = FALSE
  /\ UNCHANGED <<list, inst, running, reg, asked, url, bounds>>

\* A query under way is waited for, 30 s at most.  The note that it was
\* sent, or that it failed, is a later step; the latter changes no status.
query_sent ==
  /\ Thr("serve", "queried") /\ job.status \in {"need_update", "query"}
  /\ asked' = asked \cup {<<job.sn, job.ver>>}
  /\ UNCHANGED <<list, flash, inst, running, job, dangling, copy, reg, url, bounds>>

query_waits ==
  /\ thr = "serve" /\ job.status \in {"need_update", "query"}
  /\ Gives_up /\ UNCHANGED <<flash, copy>>

query_noted ==
  /\ Thr("queried", "look") /\ Unlocked
  /\ tsl_adapter_dev_update(job.sn, "query") /\ job' = NoJob /\ dangling' = FALSE
  /\ UNCHANGED <<flash, inst, running, copy, reg, asked, url, bounds>>

\* profile_downloading reads the URL through the copied pointer: of the
\* entry as it is now or, when that was removed, of memory in other use.
Fetchable ==
  IF dangling THEN Vers
    ELSE {v \in Vers : \E i \in DOMAIN list :
                         list[i].sn = job.sn /\ list[i].info = v}

fetch_ok ==
  /\ Thr("serve", "save") /\ job.status = "loading" /\ job.info # NoVer
  /\ \E v \in Fetchable : job' = [job EXCEPT !.info = v]
  /\ UNCHANGED <<list, flash, inst, running, dangling, copy, reg, asked, url, bounds>>

fetch_failed ==
  /\ thr = "serve" /\ job.status = "loading" /\ job.info # NoVer
  /\ Gives_up /\ UNCHANGED <<flash, copy>>

dl_save_read ==
  /\ Thr("save", "write") /\ ReadMap("dl")
  /\ UNCHANGED <<list, inst, running, job, dangling, reg, asked, url, bounds>>

dl_save_write ==
  /\ Thr("write", "load") /\ SaveMap("dl", job.sn, job.ver, job.info)
  /\ UNCHANGED <<list, inst, running, job, dangling, reg, asked, url, bounds>>

dl_save_unwritten ==
  /\ Thr("write", "load") /\ SaveMapUnwritten("dl", job.sn, job.ver)
  /\ UNCHANGED <<list, inst, running, job, dangling, reg, asked, url, bounds>>

\* Out of memory, or flash full: nothing, or only TSLMAP, is written.
dl_save_failed ==
  /\ thr = "write" /\ Gives_up
  /\ SaveNothing("dl") \/ SaveMap("dl", job.sn, job.ver, NoVer)

dl_load ==
  /\ thr = "load" /\ Stored(job.sn) # NoVer
  /\ thr' = "mark" /\ Instantiate(job.sn)
  /\ UNCHANGED <<list, flash, running, job, dangling, copy, reg, asked, url, bounds>>

\* Fault: a failed load counts as done.
dl_load_failed_Marks ==
  /\ thr = "load" /\ Stored(job.sn) = NoVer /\ thr' = "mark"
  /\ UNCHANGED <<list, flash, inst, running, job, dangling, copy, reg, asked, url, bounds>>

dl_load_failed ==
  /\ thr = "load" /\ Stored(job.sn) = NoVer
  /\ Gives_up /\ UNCHANGED <<flash, copy>>

dl_done ==
  /\ Thr("mark", "look") /\ Unlocked
  /\ tsl_adapter_dev_update(job.sn, "done") /\ job' = NoJob /\ dangling' = FALSE
  /\ UNCHANGED <<flash, inst, running, copy, reg, asked, url, bounds>>

-----------------------------------------------------------------------------
(* The yield thread, dev2cloud_query_profile_url_rsp.                      *)

\* An answer carries the serial, not the version.
profile_url(d) ==
  /\ url = NoDev /\ Unlocked
  /\ \E v \in Vers :
       /\ <<d, v>> \in asked /\ asked' = asked \ {<<d, v>>}
       /\ list' = [i \in DOMAIN list |->
                     IF list[i].sn = d /\ list[i].status # "done"
                       THEN [list[i] EXCEPT !.info = v] ELSE list[i]]
  /\ url' = IF Undone(d) THEN d ELSE NoDev
  /\ UNCHANGED <<flash, inst, dl, copy, reg, bounds>>

profile_url_loading ==
  /\ url # NoDev /\ Unlocked
  /\ tsl_adapter_dev_update(url, "loading") /\ url' = NoDev
  /\ IF job.sn = url /\ job.status # "loading"
       THEN early < EarlyMax /\ early' = early + 1 ELSE UNCHANGED early
  /\ UNCHANGED <<flash, inst, dl, copy, reg, asked, fw, upset, ops>>

-----------------------------------------------------------------------------
(* A restart, and a crash: a URL that was noted for a device before, and   *)
(* its loading after, dl_done leaves it loading without a URL.             *)

Reboot ==
  /\ list' = <<>> /\ inst' = NoMap /\ running' = FALSE /\ thr' = "none"
  /\ job' = NoJob /\ dangling' = FALSE /\ copy' = NoCopy
  /\ reg' = Idle /\ url' = NoDev
  /\ UNCHANGED <<flash, asked, fw, upset, early>>

power_loss == ops < OpMax /\ ops' = ops + 1 /\ list # <<>> /\ Reboot

fetch_null ==
  /\ thr = "serve" /\ job.status = "loading" /\ job.info = NoVer
  /\ Reboot /\ UNCHANGED ops

-----------------------------------------------------------------------------
Hub == \E d \in Devs :
  ez_iot_tsl_reg(d) \/ hub_tsl_del(d) \/ \E v \in Vers : hub_tsl_update(d, v)

Registering ==
  \/ profile_del_read \/ profile_del_write
  \/ adapter_add_load \/ tsl_adapter_dev_add
  \/ add_save_read \/ add_save_write
  \/ dl_task_running \/ dl_task_create \/ dl_task_join \/ dl_task_joined

Thread ==
  \/ thread_enter \/ look_found \/ look_nothing \/ thread_leaves
  \/ query_sent \/ query_waits \/ query_noted
  \/ fetch_ok \/ fetch_failed \/ fetch_null
  \/ dl_save_read \/ dl_save_write \/ dl_save_unwritten \/ dl_save_failed
  \/ dl_load \/ dl_load_failed \/ dl_done

Yield == profile_url_loading \/ \E d \in Devs : profile_url(d)

Next == Hub \/ Registering \/ Thread \/ Yield \/ power_loss

TslSpec == Init /\ [][Next]_vars

\* The threads get processor time and the link is up again and again; no
\* step that needs the platform or flash fails for ever.
TslLiveSpec ==
  /\ TslSpec
  /\ WF_vars(Registering) /\ WF_vars(Thread) /\ SF_vars(Yield)
  /\ SF_vars(query_sent \/ fetch_ok) /\ SF_vars(dl_save_write)

-----------------------------------------------------------------------------
\* As long as no device changed its version and none was removed while the
\* thread had it in hand, every file is the profile of its handle, and a
\* device counted as done has been given the profile of its version,
\* whichever threads wrote TSLMAP in between (the map and the list go by
\* serial, the files by handle).
OwnProfile ==
  ~upset =>
    /\ \A v \in Vers : file[v] \in {v, NoVer}
    /\ \A i \in DOMAIN list :
         list[i].status = "done" => inst[list[i].sn] = list[i].ver

\* The registering thread joins a download thread that cannot go on without
\* the mutex the joiner holds.
Jammed == reg.at = "join" /\ thr \notin {"ending", "over"}

\* A device that waits while the download thread looks for work gets its
\* profile, whatever fails on the way and whatever waits before it.
Served == \A d \in Devs :
  Undone(d) /\ thr \notin {"none", "born", "ending", "over"}
    ~> ~Undone(d) \/ Jammed

-----------------------------------------------------------------------------
(* The inductive invariant behind OwnProfile.                              *)

\* What flash, its copies, the list and the thread's job say of a device is
\* about its present version, or nothing.
Own(d) == {fw[d], NoVer}

OwnFlash ==
  /\ \A v \in Vers : file[v] \in {v, NoVer}
  /\ \A d \in Devs : known[d] \in Own(d) /\ inst[d] \in Own(d)
  /\ \A p \in {"reg", "dl"} : \A d \in Devs : copy[p][d] \in Own(d)

OwnEntry(e) == e.ver = fw[e.sn] /\ e.info \in Own(e.sn)

OwnList ==
  \A i \in DOMAIN list :
    /\ OwnEntry(list[i])
    /\ list[i].status = "done" => inst[list[i].sn] = fw[list[i].sn]

OwnAsked == \A d \in Devs : \A v \in Vers : <<d, v>> \in asked => v = fw[d]

\* The thread holds on to memory that is still its own, and marks a device
\* only when that has its profile.
OwnJob ==
  /\ ~dangling /\ (job # NoJob => OwnEntry(job))
  /\ thr = "mark" => inst[job.sn] = fw[job.sn]

OwnReg == reg.at = "add" /\ ~reg.get => inst[reg.sn] = fw[reg.sn]

TslInv ==
  /\ TslTypeOK
  /\ ~upset => OwnFlash /\ OwnList /\ OwnAsked /\ OwnJob /\ OwnReg
=============================================================================
