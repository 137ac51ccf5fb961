--------------------------- MODULE TslProfileProof ---------------------------
(***************************************************************************)
(* Proofs about TslProfile: as long as no device is updated, or removed    *)
(* while the download thread serves it, everything that flash, the copies  *)
(* of TSLMAP, the list and the thread hold of a device is about its own    *)
(* version, whichever of them was written last.                            *)
(***************************************************************************)
EXTENDS TslProfile, TLAPS

\* The parts of TslTypeOK.
ListType == list \in Seq(Entry)

FlashType ==
  /\ known \in [Devs -> Ver] /\ file \in [Vers -> Ver] /\ inst \in [Devs -> Ver]
  /\ copy \in [{"reg", "dl"} -> [Devs -> Ver]]

Places == {"none", "born", "look", "serve", "queried", "save", "write",
           "load", "mark", "ending", "over"}
InHand == {"serve", "queried", "save", "write", "load", "mark"}

ThreadType ==
  /\ running \in BOOLEAN /\ dangling \in BOOLEAN /\ job \in Entry \cup {NoJob}
  /\ thr \in Places /\ (thr \in InHand => job \in Entry)

RegType ==
  /\ reg \in [at : {"idle", "load", "add", "save", "write", "start", "join",
                    "del", "del_write"},
              sn : Devs \cup {NoDev}, get : BOOLEAN]
  /\ reg.at # "idle" => reg.sn \in Devs

RestType ==
  /\ upset \in BOOLEAN /\ asked \subseteq Devs \X Vers /\ url \in Devs \cup {NoDev}
  /\ fw \in [Devs -> Vers] /\ ops \in 0..OpMax /\ early \in 0..EarlyMax

LEMMA TypeParts ==
  TslTypeOK <=> ListType /\ FlashType /\ ThreadType /\ RegType /\ RestType
BY DEF TslTypeOK, ListType, FlashType, ThreadType, RegType, RestType, Places, InHand

-----------------------------------------------------------------------------
(* The list.                                                               *)

\* Entries are of their type one by one.
LEMMA EntryFields ==
  ASSUME ListType, NEW i \in DOMAIN list
  PROVE  /\ list[i] \in Entry /\ list[i].sn \in Devs /\ list[i].ver \in Vers
         /\ list[i].status \in Statuses /\ list[i].info \in Ver
<1>1. list[i] \in Entry
  BY DEF ListType
<1> QED
  BY <1>1 DEF Entry

\* ezlist_removeat: what is left was there before.
LEMMA WithoutIsPart ==
  ASSUME ListType, NEW d
  PROVE  /\ Without(d) \in Seq(Entry)
         /\ \A i \in DOMAIN Without(d) : \E j \in DOMAIN list : Without(d)[i] = list[j]
<1> DEFINE k == CHOOSE i \in DOMAIN list : list[i].sn = d
           n == Len(list) - 1
           old(i) == IF i < k THEN i ELSE i + 1
<1>1. CASE Found(d)
  <2>1. k \in 1..Len(list) /\ DOMAIN list = 1..Len(list) /\ Len(list) \in Nat
    BY <1>1 DEF Found, ListType
  <2>2. n \in Nat /\ \A i \in 1..n : old(i) \in DOMAIN list
    BY <2>1
  <2>3. Without(d) = [i \in 1..n |-> list[old(i)]]
    BY <1>1 DEF Without
  <2>4. \A i \in 1..n : list[old(i)] \in Entry
    BY <2>2 DEF ListType
  <2> HIDE DEF old, n
  <2>5. Without(d) \in Seq(Entry) /\ DOMAIN Without(d) = 1..n
    BY <2>2, <2>3, <2>4
  <2> QED
    BY <2>2, <2>3, <2>5
<1>2. CASE ~Found(d)
  BY <1>2 DEF Without, ListType
<1> QED
  BY <1>1, <1>2

\* tsl_adapter_dev_update changes the status of one serial.
LEMMA UpdateKeeps ==
  ASSUME ListType, NEW d, NEW status \in Statuses, tsl_adapter_dev_update(d, status)
  PROVE  /\ ListType' /\ DOMAIN list' = DOMAIN list
         /\ \A i \in DOMAIN list :
              /\ list'[i].sn = list[i].sn /\ list'[i].ver = list[i].ver
              /\ list'[i].info \in {list[i].info, NoVer}
              /\ list'[i].status = "done" =>
                   list[i].status = "done" \/ (status = "done" /\ list[i].sn = d)
<1> DEFINE new(i) == IF list[i].sn # d THEN list[i]
                     ELSE [list[i] EXCEPT !.status = status,
                                          !.info = IF status = "done" THEN NoVer ELSE @]
<1>1. list' = [i \in DOMAIN list |-> new(i)]
  BY DEF tsl_adapter_dev_update
<1>2. DOMAIN list = 1..Len(list) /\ Len(list) \in Nat
  BY DEF ListType
<1>3. ASSUME NEW i \in DOMAIN list
      PROVE  /\ new(i) \in Entry /\ new(i).sn = list[i].sn /\ new(i).ver = list[i].ver
             /\ new(i).info \in {list[i].info, NoVer}
             /\ new(i).status = "done" =>
                  list[i].status = "done" \/ (status = "done" /\ list[i].sn = d)
  <2>1. list[i] \in Entry
    BY DEF ListType
  <2> QED
    BY <2>1 DEF Entry, Ver
<1> HIDE DEF new
<1>4. DOMAIN list' = DOMAIN list /\ \A i \in DOMAIN list : list'[i] = new(i)
  BY <1>1
<1>5. ListType'
  BY <1>1, <1>2, <1>3 DEF ListType
<1> QED
  BY <1>3, <1>4, <1>5

-----------------------------------------------------------------------------
(* Flash.                                                                  *)

\* Whatever a save or a deletion writes, and however much of it.
LEMMA FlashOpsType ==
  ASSUME FlashType, UNCHANGED inst,
         NEW p \in {"reg", "dl"}, NEW d \in Devs, NEW v \in Vers, NEW profile \in Ver,
         \/ ReadMap(p)
         \/ SaveMap(p, d, v, profile)
         \/ SaveMapUnwritten(p, d, v)
         \/ SaveNothing(p)
         \/ DeleteFromMap(d)
  PROVE  FlashType'
<1>1. /\ known \in [Devs -> Ver] /\ file \in [Vers -> Ver] /\ inst' \in [Devs -> Ver]
      /\ copy \in [{"reg", "dl"} -> [Devs -> Ver]] /\ copy[p] \in [Devs -> Ver]
      /\ copy["reg"] \in [Devs -> Ver]
      /\ NoMap \in [Devs -> Ver] /\ v \in Ver /\ NoVer \in Ver
  BY DEF FlashType, NoMap, Ver
<1>2. ASSUME NEW files \in [Vers -> Ver], NEW h
      PROVE  Forget(files, h) \in [Vers -> Ver]
  BY <1>1 DEF Forget
<1>3. ASSUME NEW files \in Met(p)
      PROVE  files \in [Vers -> Ver] /\ Rid(files, p, d, v) \in [Vers -> Ver]
  <2>1. files \in [Vers -> Ver]
    BY <1>1, <1>3 DEF Met, NoFiles
  <2> QED
    BY <2>1, <1>2 DEF Rid
<1>4. CASE ReadMap(p)
  <2>1. copy' \in [{"reg", "dl"} -> [Devs -> Ver]]
    BY <1>1, <1>4 DEF ReadMap
  <2> QED
    BY <1>1, <1>4, <2>1 DEF ReadMap, flash, FlashType
<1>5. CASE SaveMap(p, d, v, profile)
  <2>1. copy' \in [{"reg", "dl"} -> [Devs -> Ver]]
    BY <1>1, <1>5 DEF SaveMap
  <2>2. known' \in [Devs -> Ver]
    BY <1>1, <1>5 DEF SaveMap
  <2>3. PICK files \in Met(p) :
          file' = IF profile # NoVer /\ get_tsl_handle_count([copy[p] EXCEPT ![d] = v], v) = 1
                    THEN [Rid(files, p, d, v) EXCEPT ![v] = profile]
                    ELSE Rid(files, p, d, v)
    BY <1>5 DEF SaveMap
  <2>4. file' \in [Vers -> Ver]
    BY <1>3, <2>3
  <2> QED
    BY <1>1, <2>1, <2>2, <2>4 DEF FlashType
<1>6. CASE SaveMapUnwritten(p, d, v)
  <2>1. copy' \in [{"reg", "dl"} -> [Devs -> Ver]]
    BY <1>1, <1>6 DEF SaveMapUnwritten
  <2>2. known' \in [Devs -> Ver] /\ file' \in [Vers -> Ver]
    BY <1>1, <1>3, <1>6 DEF SaveMapUnwritten
  <2> QED
    BY <1>1, <2>1, <2>2 DEF FlashType
<1>7. CASE DeleteFromMap(d)
  <2>1. copy' \in [{"reg", "dl"} -> [Devs -> Ver]]
    BY <1>1, <1>7 DEF DeleteFromMap
  <2>2. [copy["reg"] EXCEPT ![d] = NoVer] \in [Devs -> Ver]
    BY <1>1
  <2>3. known' \in [Devs -> Ver]
    BY <1>1, <1>7, <2>2 DEF DeleteFromMap, flash
  <2>4. file' \in [Vers -> Ver]
    BY <1>1, <1>2, <1>7 DEF DeleteFromMap, flash
  <2> QED
    BY <1>1, <2>1, <2>3, <2>4 DEF FlashType
<1>8. CASE SaveNothing(p)
  <2>1. copy' \in [{"reg", "dl"} -> [Devs -> Ver]]
    BY <1>1, <1>8 DEF SaveNothing
  <2>2. known' \in [Devs -> Ver] /\ file' \in [Vers -> Ver]
    BY <1>1, <1>3, <1>8 DEF SaveNothing
  <2> QED
    BY <1>1, <2>1, <2>2 DEF FlashType
<1> QED
  BY <1>4, <1>5, <1>6, <1>7, <1>8

\* The same, of devices that keep their version: no file gets another
\* profile, no device another handle.
LEMMA FlashOpsOwn ==
  ASSUME TslAssumption, FlashType, RestType, OwnFlash, UNCHANGED <<inst, fw>>,
         NEW p \in {"reg", "dl"}, NEW d \in Devs, NEW profile \in Own(d),
         \/ ReadMap(p)
         \/ SaveMap(p, d, fw[d], profile)
         \/ SaveMapUnwritten(p, d, fw[d])
         \/ SaveNothing(p)
         \/ DeleteFromMap(d)
  PROVE  OwnFlash'
<1> DEFINE FileOwn(f) == \A v \in Vers : f[v] \in {v, NoVer}
           MapOwn(m) == \A e \in Devs : m[e] \in Own(e)
<1>1. /\ known \in [Devs -> Ver] /\ file \in [Vers -> Ver]
      /\ copy \in [{"reg", "dl"} -> [Devs -> Ver]] /\ copy[p] \in [Devs -> Ver]
      /\ copy["reg"] \in [Devs -> Ver] /\ fw[d] \in Vers
  BY DEF FlashType, RestType
<1>2. /\ FileOwn(file) /\ MapOwn(known) /\ MapOwn(inst)
      /\ MapOwn(copy["reg"]) /\ MapOwn(copy["dl"]) /\ MapOwn(copy[p])
  BY DEF OwnFlash
<1>3. ASSUME NEW files \in [Vers -> Ver], FileOwn(files), NEW h
      PROVE  FileOwn(Forget(files, h)) /\ Forget(files, h) \in [Vers -> Ver]
  BY <1>1, <1>3 DEF Forget, Ver
<1>4. ASSUME NEW files \in Met(p)
      PROVE  /\ FileOwn(files)
             /\ FileOwn(Rid(files, p, d, fw[d])) /\ Rid(files, p, d, fw[d]) \in [Vers -> Ver]
  <2>1. files \in [Vers -> Ver] /\ FileOwn(files)
    BY <1>1, <1>2, <1>4 DEF Met, NoFiles, Ver
  <2> QED
    BY <2>1, <1>3 DEF Rid
<1>5. MapOwn([copy[p] EXCEPT ![d] = fw[d]]) /\ MapOwn([copy["reg"] EXCEPT ![d] = NoVer])
  BY <1>1, <1>2 DEF Own
<1>6. MapOwn(NoMap)
  BY DEF NoMap, Own
<1>7. SUFFICES FileOwn(file') /\ MapOwn(known') /\ MapOwn(copy'["reg"]) /\ MapOwn(copy'["dl"])
  BY <1>2 DEF OwnFlash, Own
<1>8. CASE ReadMap(p)
  BY <1>1, <1>2, <1>8 DEF ReadMap, flash
<1>9. CASE SaveMap(p, d, fw[d], profile)
  <2>1. MapOwn(known')
    BY <1>2, <1>5, <1>9 DEF SaveMap
  <2>2. FileOwn(file')
    <3>1. profile \in {fw[d], NoVer}
      BY DEF Own
    <3>2. PICK files \in Met(p) :
            \/ file' = [Rid(files, p, d, fw[d]) EXCEPT ![fw[d]] = profile]
            \/ file' = Rid(files, p, d, fw[d])
      BY <1>9 DEF SaveMap
    <3> QED
      BY <1>4, <3>1, <3>2
  <2>3. copy' = [copy EXCEPT ![p] = NoMap]
    BY <1>9 DEF SaveMap
  <2> QED
    BY <1>1, <1>2, <1>6, <2>1, <2>2, <2>3
<1>10. CASE SaveMapUnwritten(p, d, fw[d])
  <2>1. known' = known /\ copy' = [copy EXCEPT ![p] = NoMap]
    BY <1>10 DEF SaveMapUnwritten
  <2>2. FileOwn(file')
    BY <1>4, <1>10 DEF SaveMapUnwritten
  <2> QED
    BY <1>1, <1>2, <1>6, <2>1, <2>2
<1>11. CASE DeleteFromMap(d)
  <2>1. copy' = [copy EXCEPT !["reg"] = NoMap]
    BY <1>11 DEF DeleteFromMap
  <2>2. known' \in {known, [copy["reg"] EXCEPT ![d] = NoVer]}
    BY <1>11 DEF DeleteFromMap, flash
  <2>3. file' = file \/ file' = Forget(file, copy["reg"][d])
    BY <1>11 DEF DeleteFromMap, flash
  <2> QED
    BY <1>1, <1>2, <1>3, <1>5, <1>6, <2>1, <2>2, <2>3
<1>12. CASE SaveNothing(p)
  <2>1. known' = known /\ copy' = [copy EXCEPT ![p] = NoMap]
    BY <1>12 DEF SaveNothing
  <2>2. FileOwn(file')
    BY <1>4, <1>12 DEF SaveNothing
  <2> QED
    BY <1>1, <1>2, <1>6, <2>1, <2>2
<1> QED
  BY <1>8, <1>9, <1>10, <1>11, <1>12

\* A profile loaded for a device is that of its version, and one it has got
\* is not replaced by another.
LEMMA InstantiateOwn ==
  ASSUME TslAssumption, FlashType, RestType, OwnFlash, NEW d \in Devs, Instantiate(d),
         UNCHANGED <<flash, copy, fw>>
  PROVE  /\ OwnFlash' /\ (Stored(d) # NoVer => inst'[d] = fw[d])
         /\ \A e \in Devs : inst[e] = fw[e] => inst'[e] = fw[e]
<1>1. Stored(d) \in Own(d)
  BY DEF Stored, FlashType, OwnFlash, Own, RestType
<1>2. inst \in [Devs -> Ver]
  BY DEF FlashType
<1>3. /\ \A e \in Devs : e # d => inst'[e] = inst[e]
      /\ inst'[d] = IF Stored(d) = NoVer THEN inst[d] ELSE Stored(d)
  BY <1>2 DEF Instantiate
<1>4. \A e \in Devs : inst'[e] \in Own(e)
  BY <1>1, <1>3 DEF OwnFlash
<1>5. OwnFlash'
  BY <1>4 DEF OwnFlash, Own, flash
<1> QED
  BY <1>1, <1>3, <1>5 DEF Own

LEMMA InstantiateType ==
  ASSUME FlashType, NEW d \in Devs, Instantiate(d), UNCHANGED <<flash, copy>>
  PROVE  FlashType'
<1>1. Stored(d) \in Ver
  BY DEF Stored, FlashType, Ver
<1>2. inst' \in [Devs -> Ver]
  BY <1>1 DEF Instantiate, FlashType
<1> QED
  BY <1>2 DEF FlashType, flash

-----------------------------------------------------------------------------
(* One lemma per action.                                                   *)

Types == ListType /\ FlashType /\ ThreadType /\ RegType /\ RestType
Owns == OwnFlash /\ OwnList /\ OwnAsked /\ OwnJob /\ OwnReg
Parts == Types /\ (~upset => Owns)

LEMMA InvParts == TslInv <=> Parts
BY TypeParts DEF TslInv, Parts, Types, Owns

\* Every entry keeps its claims as long as what devices were given stays.
LEMMA ListKept ==
  ASSUME ListType, OwnList, UNCHANGED <<list, fw>>,
         \A d \in Devs : inst[d] = fw[d] => inst'[d] = fw[d]
  PROVE  OwnList'
<1>1. \A i \in DOMAIN list : list[i].sn \in Devs
  BY EntryFields
<1> QED
  BY <1>1 DEF OwnList, OwnEntry, Own

LEMMA RegStep ==
  ASSUME TslAssumption, Parts, NEW d \in Devs, ez_iot_tsl_reg(d)
  PROVE  Parts'
<1>1. /\ UNCHANGED <<list, flash, inst, dl, copy, asked, url, fw, upset, early>>
      /\ reg' = [at |-> "load", sn |-> d, get |-> FALSE] /\ ops' \in 0..OpMax
  BY DEF ez_iot_tsl_reg, Call, Parts, Types, RestType, TslAssumption
<1>2. Types'
  <2>1. ListType' /\ FlashType' /\ ThreadType'
    BY <1>1 DEF Parts, Types, ListType, FlashType, flash, ThreadType, dl
  <2>2. RegType' /\ RestType'
    BY <1>1 DEF Parts, Types, RegType, RestType
  <2> QED
    BY <2>1, <2>2 DEF Types
<1>3. ASSUME ~upset'
      PROVE  Owns'
  BY <1>1, <1>3 DEF Parts, Owns, OwnFlash, OwnList, OwnAsked, OwnJob, OwnReg, OwnEntry, Own,
     flash, dl
<1> QED
  BY <1>2, <1>3 DEF Parts

\* An update: from here on nothing is claimed of the profiles.
LEMMA UpdateStep ==
  ASSUME TslAssumption, Parts, NEW d \in Devs, NEW v \in Vers, hub_tsl_update(d, v)
  PROVE  Parts'
<1>1. /\ UNCHANGED <<flash, inst, copy, asked, url, early, running, thr, job>>
      /\ reg' = [at |-> "load", sn |-> d, get |-> FALSE] /\ ops' \in 0..OpMax
      /\ fw' = [fw EXCEPT ![d] = v] /\ upset' = TRUE /\ list' = Without(d)
  BY DEF hub_tsl_update, Remove, Call, Parts, Types, RestType, TslAssumption
<1>2. dangling' \in BOOLEAN
  BY Zenon DEF hub_tsl_update, Remove
<1>3. ListType'
  BY <1>1, WithoutIsPart DEF Parts, Types, ListType
<1>4. FlashType' /\ ThreadType'
  BY <1>1, <1>2 DEF Parts, Types, FlashType, flash, ThreadType
<1>5. RegType' /\ RestType'
  BY <1>1 DEF Parts, Types, RegType, RestType
<1> QED
  BY <1>1, <1>3, <1>4, <1>5 DEF Parts, Types

\* A removal of another device than the thread's leaves its memory alone.
LEMMA RemoveStep ==
  ASSUME TslAssumption, Parts, NEW d \in Devs, hub_tsl_del(d)
  PROVE  Parts'
<1>1. /\ UNCHANGED <<flash, inst, copy, asked, url, fw, early, running, thr, job>>
      /\ reg' = [at |-> "del", sn |-> d, get |-> FALSE] /\ ops' \in 0..OpMax
      /\ list' = Without(d)
  BY DEF hub_tsl_del, Remove, Call, Parts, Types, RestType, TslAssumption
<1>2. dangling' \in BOOLEAN /\ upset' \in BOOLEAN
  BY Zenon DEF hub_tsl_del, Remove
<1>3. /\ ListType' /\ \A i \in DOMAIN list' : \E j \in DOMAIN list : list'[i] = list[j]
  BY <1>1, WithoutIsPart DEF Parts, Types, ListType
<1>4. FlashType' /\ ThreadType'
  BY <1>1, <1>2 DEF Parts, Types, FlashType, flash, ThreadType
<1>5. RegType' /\ RestType'
  BY <1>1, <1>2 DEF Parts, Types, RegType, RestType
<1>6. ASSUME ~upset'
      PROVE  Owns'
  <2>1. ~upset /\ job.sn # d
    BY <1>6 DEF hub_tsl_del
  <2>2. Owns
    BY <2>1 DEF Parts
  <2>3. ~dangling'
    BY <2>1, <2>2 DEF hub_tsl_del, Remove, Owns, OwnJob
  <2>4. OwnFlash' /\ OwnAsked'
    BY <1>1, <2>2 DEF Owns, OwnFlash, Own, OwnAsked, flash
  <2>5. OwnList'
    BY <1>1, <1>3, <2>2 DEF Owns, OwnList, OwnEntry, Own
  <2>6. OwnJob' /\ OwnReg'
    BY <1>1, <2>2, <2>3 DEF Owns, OwnJob, OwnReg, OwnEntry, Own
  <2> QED
    BY <2>4, <2>5, <2>6 DEF Owns
<1> QED
  BY <1>3, <1>4, <1>5, <1>6 DEF Parts, Types

\* The registering thread reads or writes flash: for a removal, or for its
\* note of the handle, which carries no profile.
LEMMA RegFlashStep ==
  ASSUME TslAssumption, Parts,
         profile_del_read \/ profile_del_write \/ add_save_read \/ add_save_write
  PROVE  Parts'
<1> DEFINE d == reg.sn
<1>1. /\ UNCHANGED <<list, inst, dl, asked, url, bounds>>
      /\ reg.at # "idle" /\ d \in Devs
  BY DEF profile_del_read, profile_del_write, add_save_read, add_save_write, Reg, Parts,
     Types, RegType
<1>2. \/ reg' = Idle
      \/ \E to \in {"del_write", "write", "start"} : reg' = [reg EXCEPT !.at = to]
  BY DEF profile_del_read, profile_del_write, add_save_read, add_save_write, Reg
<1>3. \/ ReadMap("reg")
      \/ SaveMap("reg", d, fw[d], NoVer)
      \/ SaveMapUnwritten("reg", d, fw[d])
      \/ DeleteFromMap(d)
  BY DEF profile_del_read, profile_del_write, add_save_read, add_save_write
<1>4. fw[d] \in Vers /\ NoVer \in Ver /\ NoVer \in Own(d)
  BY <1>1 DEF Parts, Types, RestType, Ver, Own
<1>5. RegType' /\ reg'.at # "add"
  <2>1. CASE reg' = Idle
    BY <2>1 DEF RegType, Idle
  <2>2. ASSUME NEW to \in {"del_write", "write", "start"}, reg' = [reg EXCEPT !.at = to]
        PROVE  RegType' /\ reg'.at # "add"
    BY <1>1, <2>2 DEF RegType, Parts, Types
  <2> QED
    BY <1>2, <2>1, <2>2
<1> HIDE DEF d
<1>6. FlashType'
  BY <1>1, <1>3, <1>4, FlashOpsType DEF Parts, Types
<1>7. ListType' /\ ThreadType' /\ RestType'
  BY <1>1 DEF Parts, Types, ListType, ThreadType, RestType, dl, bounds
<1>8. ASSUME ~upset'
      PROVE  Owns'
  <2>1. Owns
    BY <1>1, <1>8 DEF Parts, bounds
  <2>2. OwnFlash'
    BY <1>1, <1>3, <1>4, <2>1, FlashOpsOwn DEF Parts, Types, Owns, bounds
  <2>3. OwnList' /\ OwnAsked' /\ OwnJob'
    BY <1>1, <2>1 DEF Owns, OwnList, OwnAsked, OwnJob, OwnEntry, Own, dl, bounds
  <2>4. OwnReg'
    BY <1>5 DEF OwnReg
  <2> QED
    BY <2>2, <2>3, <2>4 DEF Owns
<1> QED
  BY <1>6, <1>5, <1>7, <1>8 DEF Parts, Types

LEMMA LoadStep ==
  ASSUME TslAssumption, Parts, adapter_add_load
  PROVE  Parts'
<1> DEFINE d == reg.sn
<1>1. /\ UNCHANGED <<list, flash, dl, copy, asked, url, bounds>>
      /\ d \in Devs /\ Instantiate(d)
      /\ reg' = [reg EXCEPT !.at = "add", !.get = (Stored(d) = NoVer)]
  BY DEF adapter_add_load, Parts, Types, RegType
<1>2. reg'.at = "add" /\ reg'.sn = d /\ reg'.get = (Stored(d) = NoVer) /\ RegType'
  BY <1>1 DEF RegType, Parts, Types
<1> HIDE DEF d
<1>3. FlashType'
  BY <1>1, InstantiateType DEF Parts, Types
<1>4. ListType' /\ ThreadType' /\ RestType'
  BY <1>1 DEF Parts, Types, ListType, ThreadType, RestType, dl, bounds
<1>5. ASSUME ~upset'
      PROVE  Owns'
  <2>1. Owns /\ UNCHANGED fw
    BY <1>1, <1>5 DEF Parts, bounds
  <2>2. /\ OwnFlash' /\ (Stored(d) # NoVer => inst'[d] = fw[d])
        /\ \A e \in Devs : inst[e] = fw[e] => inst'[e] = fw[e]
    BY <1>1, <2>1, InstantiateOwn DEF Parts, Types, Owns
  <2>3. OwnList'
    BY <1>1, <2>1, <2>2, ListKept DEF Parts, Types, Owns
  <2>4. OwnAsked'
    BY <1>1, <2>1 DEF Owns, OwnAsked
  <2>5. OwnJob'
    <3>1. thr = "mark" => job \in Entry
      BY DEF Parts, Types, ThreadType, InHand
    <3>2. thr = "mark" => job.sn \in Devs
      BY <3>1 DEF Entry
    <3> QED
      BY <1>1, <2>1, <2>2, <3>2 DEF Owns, OwnJob, OwnEntry, Own, dl
  <2>6. OwnReg'
    BY <1>2, <2>1, <2>2 DEF OwnReg
  <2> QED
    BY <2>2, <2>3, <2>4, <2>5, <2>6 DEF Owns
<1> QED
  BY <1>2, <1>3, <1>4, <1>5 DEF Parts, Types

\* A device enters the list as done only with the profile it was given.
LEMMA AddStep ==
  ASSUME TslAssumption, Parts, tsl_adapter_dev_add
  PROVE  Parts'
<1> DEFINE new == [sn |-> reg.sn, ver |-> fw[reg.sn], info |-> NoVer,
                   status |-> IF reg.get THEN "need_update" ELSE "done"]
<1>1. /\ UNCHANGED <<flash, inst, dl, copy, asked, url, bounds>>
      /\ reg.at = "add" /\ reg.sn \in Devs /\ reg' = [reg EXCEPT !.at = "save"]
      /\ list' = Append(list, new)
  BY DEF tsl_adapter_dev_add, Reg, Parts, Types, RegType
<1>2. new \in Entry /\ new.sn = reg.sn /\ new.ver = fw[reg.sn] /\ new.info = NoVer
  BY <1>1 DEF Entry, Ver, Statuses, Parts, Types, RestType
<1>3. new.status = "done" => ~reg.get
  OBVIOUS
<1> HIDE DEF new
<1>4. /\ ListType'
      /\ \A i \in DOMAIN list' : list'[i] = new \/ \E j \in DOMAIN list : list'[i] = list[j]
  <2>1. list \in Seq(Entry)
    BY DEF Parts, Types, ListType
  <2> QED
    BY <1>1, <1>2, <2>1 DEF ListType
<1>5. FlashType' /\ ThreadType' /\ RestType'
  BY <1>1 DEF Parts, Types, FlashType, ThreadType, RestType, flash, dl, bounds
<1>6. RegType' /\ reg'.at # "add"
  BY <1>1 DEF Parts, Types, RegType
<1>7. ASSUME ~upset'
      PROVE  Owns'
  <2>1. Owns /\ UNCHANGED fw
    BY <1>1, <1>7 DEF Parts, bounds
  <2>2. OwnFlash' /\ OwnAsked' /\ OwnJob'
    BY <1>1, <2>1 DEF Owns, OwnFlash, OwnAsked, OwnJob, OwnEntry, Own, flash, dl
  <2>3. OwnList'
    <3>1. new.status = "done" => inst[new.sn] = fw[new.sn]
      BY <1>1, <1>2, <1>3, <2>1 DEF Owns, OwnReg
    <3>2. OwnEntry(new)
      BY <1>2 DEF OwnEntry, Own
    <3>3. \A i \in DOMAIN list' :
            /\ OwnEntry(list'[i])
            /\ list'[i].status = "done" => inst[list'[i].sn] = fw[list'[i].sn]
      BY <1>4, <2>1, <3>1, <3>2 DEF Owns, OwnList
    <3> QED
      BY <1>1, <2>1, <3>3 DEF OwnList, OwnEntry, Own
  <2>4. OwnReg'
    BY <1>6 DEF OwnReg
  <2> QED
    BY <2>2, <2>3, <2>4 DEF Owns
<1> QED
  BY <1>4, <1>5, <1>6, <1>7 DEF Parts, Types

\* tsl_adapter_dl_task_yeild makes a thread or leaves it alone.
LEMMA TaskStep ==
  ASSUME Parts,
         dl_task_running \/ dl_task_create \/ dl_task_join \/ dl_task_joined
  PROVE  Parts'
<1>1. UNCHANGED <<list, flash, inst, running, job, dangling, copy, asked, url, bounds>>
  BY DEF dl_task_running, dl_task_create, dl_task_join, dl_task_joined, CreateThread, dl
<1>2. thr' = thr \/ thr' \in {"born", "none"}
  BY DEF dl_task_running, dl_task_create, dl_task_join, dl_task_joined, CreateThread, dl
<1>3. reg.at # "idle" /\ (reg' = Idle \/ reg' = [reg EXCEPT !.at = "join"])
  BY DEF dl_task_running, dl_task_create, dl_task_join, dl_task_joined, CreateThread, Reg
<1>4. RegType' /\ reg'.at # "add"
  <2>1. CASE reg' = Idle
    BY <2>1 DEF RegType, Idle
  <2>2. CASE reg' = [reg EXCEPT !.at = "join"]
    BY <1>3, <2>2 DEF RegType, Parts, Types
  <2> QED
    BY <1>3, <2>1, <2>2
<1>5. ListType' /\ FlashType' /\ RestType'
  BY <1>1 DEF Parts, Types, ListType, FlashType, RestType, flash, bounds
<1>6. ThreadType'
  BY <1>1, <1>2 DEF Parts, Types, ThreadType, Places, InHand
<1>7. ASSUME ~upset'
      PROVE  Owns'
  <2>1. Owns
    BY <1>1, <1>7 DEF Parts, bounds
  <2>2. OwnFlash' /\ OwnList' /\ OwnAsked' /\ OwnJob'
    BY <1>1, <1>2, <2>1 DEF Owns, OwnFlash, OwnList, OwnAsked, OwnJob, OwnEntry, Own, flash, bounds
  <2>3. OwnReg'
    BY <1>4 DEF OwnReg
  <2> QED
    BY <2>2, <2>3 DEF Owns
<1> QED
  BY <1>4, <1>5, <1>6, <1>7 DEF Parts, Types

\* The thread starts, finds nothing to do, ends.
LEMMA IdleThreadStep ==
  ASSUME Parts, thread_enter \/ look_nothing \/ thread_leaves
  PROVE  Parts'
<1>1. /\ UNCHANGED <<list, flash, inst, job, dangling, copy, reg, asked, url, bounds>>
      /\ thr' \in {"look", "ending", "over"}
  BY DEF thread_enter, look_nothing, thread_leaves, Thr
<1>2. running' \in BOOLEAN
  BY DEF thread_enter, look_nothing, thread_leaves, Parts, Types, ThreadType
<1>3. ListType' /\ FlashType' /\ RegType' /\ RestType'
  BY <1>1 DEF Parts, Types, ListType, FlashType, RegType, RestType, flash, bounds
<1>4. ThreadType'
  BY <1>1, <1>2 DEF Parts, Types, ThreadType, Places, InHand
<1>5. ASSUME ~upset'
      PROVE  Owns'
  BY <1>1, <1>5 DEF Parts, Owns, OwnFlash, OwnList, OwnAsked, OwnJob, OwnReg, OwnEntry, Own,
     flash, bounds
<1> QED
  BY <1>3, <1>4, <1>5 DEF Parts, Types

LEMMA FoundStep ==
  ASSUME Parts, look_found
  PROVE  Parts'
<1>1. /\ UNCHANGED <<list, flash, inst, running, dangling, copy, reg, asked, url, bounds>>
      /\ thr' = "serve"
  BY DEF look_found, Thr
<1>2. PICK i \in DOMAIN list : job' = list[i]
  BY DEF look_found
<1>3. job' \in Entry
  BY <1>2, EntryFields DEF Parts, Types
<1>4. ListType' /\ FlashType' /\ RegType' /\ RestType'
  BY <1>1 DEF Parts, Types, ListType, FlashType, RegType, RestType, flash, bounds
<1>5. ThreadType'
  BY <1>1, <1>3 DEF Parts, Types, ThreadType, Places, InHand
<1>6. ASSUME ~upset'
      PROVE  Owns'
  <2>1. Owns /\ UNCHANGED fw
    BY <1>1, <1>6 DEF Parts, bounds
  <2>2. OwnFlash' /\ OwnList' /\ OwnAsked' /\ OwnReg'
    BY <1>1, <2>1 DEF Owns, OwnFlash, OwnList, OwnAsked, OwnReg, OwnEntry, Own, flash
  <2>3. OwnEntry(list[i])
    BY <2>1 DEF Owns, OwnList
  <2>4. OwnJob'
    BY <1>1, <1>2, <2>1, <2>3 DEF Owns, OwnJob, OwnEntry, Own
  <2> QED
    BY <2>2, <2>4 DEF Owns
<1> QED
  BY <1>4, <1>5, <1>6 DEF Parts, Types

\* What the thread has in hand is about a device of the list's types.
LEMMA JobFields ==
  ASSUME TslAssumption, Parts, thr \in InHand
  PROVE  /\ job \in Entry /\ job # NoJob /\ job.sn \in Devs /\ job.ver \in Vers
         /\ job.info \in Ver
         /\ ~upset => job.ver = fw[job.sn] /\ job.info \in Own(job.sn)
<1>1. job \in Entry
  BY DEF Parts, Types, ThreadType
<1>2. job.sn \in Devs /\ job.ver \in Vers /\ job.info \in Ver /\ job.status \in Statuses
  BY <1>1 DEF Entry
<1>3. job # NoJob
  BY <1>2 DEF NoJob, TslAssumption
<1>4. ~upset => OwnEntry(job)
  BY <1>3 DEF Parts, Owns, OwnJob
<1> QED
  BY <1>1, <1>2, <1>3, <1>4 DEF OwnEntry

LEMMA QueryStep ==
  ASSUME TslAssumption, Parts, query_sent
  PROVE  Parts'
<1>1. /\ UNCHANGED <<list, flash, inst, running, job, dangling, copy, reg, url, bounds>>
      /\ thr = "serve" /\ thr' = "queried" /\ asked' = asked \cup {<<job.sn, job.ver>>}
  BY DEF query_sent, Thr
<1>2. job \in Entry /\ job.sn \in Devs /\ job.ver \in Vers /\ (~upset => job.ver = fw[job.sn])
  BY <1>1, JobFields DEF InHand
<1>3. ListType' /\ FlashType' /\ RegType'
  BY <1>1 DEF Parts, Types, ListType, FlashType, RegType, flash
<1>4. RestType'
  BY <1>1, <1>2 DEF Parts, Types, RestType, bounds
<1>5. ThreadType'
  BY <1>1, <1>2 DEF Parts, Types, ThreadType, Places
<1>6. ASSUME ~upset'
      PROVE  Owns'
  <2>1. Owns /\ UNCHANGED fw /\ ~upset
    BY <1>1, <1>6 DEF Parts, bounds
  <2>2. OwnFlash' /\ OwnList' /\ OwnReg' /\ OwnJob'
    BY <1>1, <2>1 DEF Owns, OwnFlash, OwnList, OwnReg, OwnJob, OwnEntry, Own, flash
  <2>3. OwnAsked'
    BY <1>1, <1>2, <2>1 DEF Owns, OwnAsked
  <2> QED
    BY <2>2, <2>3 DEF Owns
<1> QED
  BY <1>3, <1>4, <1>5, <1>6 DEF Parts, Types

\* A round that comes to nothing: the copy of the entry is freed.
LEMMA GivesUpStep ==
  ASSUME TslAssumption, Parts, Gives_up, FlashType', ~upset /\ OwnFlash => OwnFlash'
  PROVE  Parts'
<1>1. /\ UNCHANGED <<list, inst, running, reg, asked, url, bounds>>
      /\ thr' = "look" /\ job' = NoJob /\ dangling' = FALSE
  BY DEF Gives_up
<1>2. ListType' /\ RegType' /\ RestType'
  BY <1>1 DEF Parts, Types, ListType, RegType, RestType, bounds
<1>3. ThreadType'
  BY <1>1 DEF Parts, Types, ThreadType, Places, InHand
<1>4. ASSUME ~upset'
      PROVE  Owns'
  <2>1. Owns /\ UNCHANGED fw /\ ~upset
    BY <1>1, <1>4 DEF Parts, bounds
  <2>2. OwnFlash'
    BY <2>1 DEF Owns
  <2>3. OwnList' /\ OwnReg' /\ OwnJob' /\ OwnAsked'
    BY <1>1, <2>1 DEF Owns, OwnList, OwnReg, OwnJob, OwnAsked, OwnEntry, Own
  <2> QED
    BY <2>2, <2>3 DEF Owns
<1> QED
  BY <1>2, <1>3, <1>4 DEF Parts, Types

LEMMA FailStep ==
  ASSUME TslAssumption, Parts, query_waits \/ fetch_failed \/ dl_load_failed
  PROVE  Parts'
<1>1. Gives_up /\ UNCHANGED <<flash, copy, inst, fw>>
  BY DEF query_waits, fetch_failed, dl_load_failed, Gives_up, bounds
<1>2. FlashType' /\ (OwnFlash => OwnFlash')
  BY <1>1 DEF Parts, Types, FlashType, OwnFlash, Own, flash
<1> QED
  BY <1>1, <1>2, GivesUpStep

LEMMA SaveFailedStep ==
  ASSUME TslAssumption, Parts, dl_save_failed
  PROVE  Parts'
<1>1. Gives_up /\ UNCHANGED <<inst, fw>> /\ thr = "write"
  BY DEF dl_save_failed, Gives_up, bounds
<1>2. /\ job.sn \in Devs /\ job.ver \in Vers /\ (~upset => job.ver = fw[job.sn])
      /\ NoVer \in Ver /\ NoVer \in Own(job.sn)
  BY <1>1, JobFields DEF InHand, Ver, Own
<1>3. CASE SaveNothing("dl")
  <2>1. FlashType'
    BY <1>1, <1>2, <1>3, FlashOpsType DEF Parts, Types
  <2>2. ASSUME ~upset, OwnFlash
        PROVE  OwnFlash'
    BY <1>1, <1>2, <1>3, <2>2, FlashOpsOwn DEF Parts, Types
  <2> QED
    BY <1>1, <2>1, <2>2, GivesUpStep
<1>4. CASE SaveMap("dl", job.sn, job.ver, NoVer)
  <2>1. FlashType'
    BY <1>1, <1>2, <1>4, FlashOpsType DEF Parts, Types
  <2>2. ASSUME ~upset, OwnFlash
        PROVE  OwnFlash'
    <3>1. SaveMap("dl", job.sn, fw[job.sn], NoVer)
      BY <1>2, <1>4, <2>2
    <3> QED
      BY <1>1, <1>2, <2>2, <3>1, FlashOpsOwn DEF Parts, Types
  <2> QED
    BY <1>1, <2>1, <2>2, GivesUpStep
<1> QED
  BY <1>3, <1>4 DEF dl_save_failed

\* The thread notes a query, or that a device is done, under the serial.
LEMMA NoteStep ==
  ASSUME TslAssumption, Parts, query_noted \/ dl_done
  PROVE  Parts'
<1>1. /\ UNCHANGED <<flash, inst, running, copy, reg, asked, url, bounds>>
      /\ thr' = "look" /\ job' = NoJob /\ dangling' = FALSE
  BY DEF query_noted, dl_done, Thr
<1>2. PICK status \in Statuses :
        /\ tsl_adapter_dev_update(job.sn, status)
        /\ status = "done" => thr = "mark"
  BY DEF query_noted, dl_done, Thr, Statuses
<1>3. /\ ListType' /\ DOMAIN list' = DOMAIN list
      /\ \A i \in DOMAIN list :
           /\ list'[i].sn = list[i].sn /\ list'[i].ver = list[i].ver
           /\ list'[i].info \in {list[i].info, NoVer}
           /\ list'[i].status = "done" =>
                list[i].status = "done" \/ (status = "done" /\ list[i].sn = job.sn)
  BY <1>2, UpdateKeeps DEF Parts, Types
<1>4. FlashType' /\ RegType' /\ RestType'
  BY <1>1 DEF Parts, Types, FlashType, RegType, RestType, flash, bounds
<1>5. ThreadType'
  BY <1>1 DEF Parts, Types, ThreadType, Places, InHand
<1>6. ASSUME ~upset'
      PROVE  Owns'
  <2>1. Owns /\ UNCHANGED fw /\ ~upset
    BY <1>1, <1>6 DEF Parts, bounds
  <2>2. OwnFlash' /\ OwnReg' /\ OwnJob' /\ OwnAsked'
    BY <1>1, <2>1 DEF Owns, OwnFlash, OwnReg, OwnJob, OwnAsked, Own, flash
  <2>3. status = "done" => inst[job.sn] = fw[job.sn]
    BY <1>2, <2>1 DEF Owns, OwnJob
  <2>4. OwnList'
    <3> SUFFICES ASSUME NEW i \in DOMAIN list
                 PROVE  /\ list'[i].ver = fw[list'[i].sn] /\ list'[i].info \in Own(list'[i].sn)
                        /\ list'[i].status = "done" => inst[list'[i].sn] = fw[list'[i].sn]
      BY <1>1, <1>3, <2>1 DEF OwnList, OwnEntry, Own
    <3>1. /\ OwnEntry(list[i])
          /\ list[i].status = "done" => inst[list[i].sn] = fw[list[i].sn]
      BY <2>1 DEF Owns, OwnList
    <3> QED
      BY <1>3, <2>3, <3>1 DEF OwnEntry, Own
  <2> QED
    BY <2>2, <2>4 DEF Owns
<1> QED
  BY <1>3, <1>4, <1>5, <1>6 DEF Parts, Types

\* The profile is fetched from the URL noted in the entry, which is still
\* the device's own.
LEMMA FetchStep ==
  ASSUME TslAssumption, Parts, fetch_ok
  PROVE  Parts'
<1>1. /\ UNCHANGED <<list, flash, inst, running, dangling, copy, reg, asked, url, bounds>>
      /\ thr = "serve" /\ thr' = "save"
  BY DEF fetch_ok, Thr
<1>2. PICK v \in Fetchable : job' = [job EXCEPT !.info = v]
  BY DEF fetch_ok
<1>3. job \in Entry /\ job # NoJob /\ job.sn \in Devs
  BY <1>1, JobFields DEF InHand
<1>4. v \in Vers
  BY DEF Fetchable
<1>5. job' \in Entry /\ job'.sn = job.sn /\ job'.ver = job.ver /\ job'.info = v
  BY <1>2, <1>3, <1>4 DEF Entry, Ver
<1>6. ListType' /\ FlashType' /\ RegType' /\ RestType'
  BY <1>1 DEF Parts, Types, ListType, FlashType, RegType, RestType, flash, bounds
<1>7. ThreadType'
  BY <1>1, <1>5 DEF Parts, Types, ThreadType, Places
<1>8. ASSUME ~upset'
      PROVE  Owns'
  <2>1. Owns /\ UNCHANGED fw /\ ~upset
    BY <1>1, <1>8 DEF Parts, bounds
  <2>2. OwnFlash' /\ OwnList' /\ OwnReg' /\ OwnAsked'
    BY <1>1, <2>1 DEF Owns, OwnFlash, OwnList, OwnReg, OwnAsked, OwnEntry, Own, flash
  <2>3. PICK i \in DOMAIN list : list[i].sn = job.sn /\ list[i].info = v
    BY <2>1 DEF Fetchable, Owns, OwnJob
  <2>4. v \in Own(job.sn)
    BY <2>1, <2>3 DEF Owns, OwnList, OwnEntry
  <2>5. OwnJob'
    BY <1>1, <1>3, <1>5, <2>1, <2>4 DEF Owns, OwnJob, OwnEntry, Own
  <2> QED
    BY <2>2, <2>5 DEF Owns
<1> QED
  BY <1>6, <1>7, <1>8 DEF Parts, Types

\* The profile is stored under the handle of the version it was asked for.
LEMMA SaveStep ==
  ASSUME TslAssumption, Parts, dl_save_read \/ dl_save_write \/ dl_save_unwritten
  PROVE  Parts'
<1>1. /\ UNCHANGED <<list, inst, running, job, dangling, reg, asked, url, bounds>>
      /\ thr \in {"save", "write"} /\ thr' \in {"write", "load"}
  BY DEF dl_save_read, dl_save_write, dl_save_unwritten, Thr
<1>2. \/ ReadMap("dl")
      \/ SaveMap("dl", job.sn, job.ver, job.info)
      \/ SaveMapUnwritten("dl", job.sn, job.ver)
  BY DEF dl_save_read, dl_save_write, dl_save_unwritten
<1>3. /\ job \in Entry /\ job.sn \in Devs /\ job.ver \in Vers /\ job.info \in Ver
      /\ ~upset => job.ver = fw[job.sn] /\ job.info \in Own(job.sn)
  BY <1>1, JobFields DEF InHand
<1>4. FlashType'
  BY <1>1, <1>2, <1>3, FlashOpsType DEF Parts, Types
<1>5. ListType' /\ RegType' /\ RestType'
  BY <1>1 DEF Parts, Types, ListType, RegType, RestType, bounds
<1>6. ThreadType'
  BY <1>1, <1>3 DEF Parts, Types, ThreadType, Places
<1>7. ASSUME ~upset'
      PROVE  Owns'
  <2>1. Owns /\ UNCHANGED fw /\ ~upset
    BY <1>1, <1>7 DEF Parts, bounds
  <2>2. OwnList' /\ OwnReg' /\ OwnAsked' /\ OwnJob'
    BY <1>1, <2>1 DEF Owns, OwnList, OwnReg, OwnAsked, OwnJob, OwnEntry, Own
  <2>3. \/ ReadMap("dl")
        \/ SaveMap("dl", job.sn, fw[job.sn], job.info)
        \/ SaveMapUnwritten("dl", job.sn, fw[job.sn])
    BY <1>2, <1>3, <2>1
  <2>4. OwnFlash'
    BY <1>1, <1>3, <2>1, <2>3, FlashOpsOwn DEF Parts, Types, Owns
  <2> QED
    BY <2>2, <2>4 DEF Owns
<1> QED
  BY <1>4, <1>5, <1>6, <1>7 DEF Parts, Types

LEMMA ThreadLoadStep ==
  ASSUME TslAssumption, Parts, dl_load
  PROVE  Parts'
<1>1. /\ UNCHANGED <<list, flash, running, job, dangling, copy, reg, asked, url, bounds>>
      /\ thr = "load" /\ thr' = "mark" /\ Stored(job.sn) # NoVer /\ Instantiate(job.sn)
  BY DEF dl_load
<1>2. job \in Entry /\ job.sn \in Devs
  BY <1>1, JobFields DEF InHand
<1>3. FlashType'
  BY <1>1, <1>2, InstantiateType DEF Parts, Types
<1>4. ListType' /\ RegType' /\ RestType'
  BY <1>1 DEF Parts, Types, ListType, RegType, RestType, bounds
<1>5. ThreadType'
  BY <1>1, <1>2 DEF Parts, Types, ThreadType, Places
<1>6. ASSUME ~upset'
      PROVE  Owns'
  <2>1. Owns /\ UNCHANGED fw
    BY <1>1, <1>6 DEF Parts, bounds
  <2>2. /\ OwnFlash' /\ inst'[job.sn] = fw[job.sn]
        /\ \A e \in Devs : inst[e] = fw[e] => inst'[e] = fw[e]
    BY <1>1, <1>2, <2>1, InstantiateOwn DEF Parts, Types, Owns
  <2>3. OwnList'
    BY <1>1, <2>1, <2>2, ListKept DEF Parts, Types, Owns
  <2>4. OwnAsked' /\ OwnJob'
    BY <1>1, <2>1, <2>2 DEF Owns, OwnAsked, OwnJob, OwnEntry, Own
  <2>5. OwnReg'
    BY <1>1, <2>1, <2>2 DEF Owns, OwnReg, Parts, Types, RegType
  <2> QED
    BY <2>2, <2>3, <2>4, <2>5 DEF Owns
<1> QED
  BY <1>3, <1>4, <1>5, <1>6 DEF Parts, Types

\* An answer is noted under the serial; the version it was asked for is the
\* device's own.
LEMMA UrlStep ==
  ASSUME TslAssumption, Parts, NEW d \in Devs, profile_url(d)
  PROVE  Parts'
<1>1. PICK v \in Vers :
        /\ <<d, v>> \in asked /\ asked' = asked \ {<<d, v>>}
        /\ list' = [i \in DOMAIN list |->
                      IF list[i].sn = d /\ list[i].status # "done"
                        THEN [list[i] EXCEPT !.info = v] ELSE list[i]]
  BY DEF profile_url
<1>2. UNCHANGED <<flash, inst, dl, copy, reg, bounds>> /\ url' \in Devs \cup {NoDev}
  BY DEF profile_url
<1> DEFINE new(i) == IF list[i].sn = d /\ list[i].status # "done"
                       THEN [list[i] EXCEPT !.info = v] ELSE list[i]
<1>3. DOMAIN list = 1..Len(list) /\ Len(list) \in Nat
  BY DEF Parts, Types, ListType
<1>4. ASSUME NEW i \in DOMAIN list
      PROVE  /\ new(i) \in Entry /\ new(i).sn = list[i].sn /\ new(i).ver = list[i].ver
             /\ new(i).status = list[i].status
             /\ new(i).info = list[i].info \/ (list[i].sn = d /\ new(i).info = v)
  <2>1. list[i] \in Entry
    BY DEF Parts, Types, ListType
  <2> QED
    BY <2>1 DEF Entry, Ver
<1>5. list' = [i \in DOMAIN list |-> new(i)]
  BY <1>1
<1> HIDE DEF new
<1>6. DOMAIN list' = DOMAIN list /\ \A i \in DOMAIN list : list'[i] = new(i)
  BY <1>5
<1>7. ListType'
  BY <1>3, <1>4, <1>5 DEF ListType
<1>8. FlashType' /\ ThreadType' /\ RegType' /\ RestType'
  BY <1>1, <1>2 DEF Parts, Types, FlashType, ThreadType, RegType, RestType, flash, dl, bounds
<1>9. ASSUME ~upset'
      PROVE  Owns'
  <2>1. Owns /\ UNCHANGED fw
    BY <1>2, <1>9 DEF Parts, bounds
  <2>2. OwnFlash' /\ OwnReg' /\ OwnJob' /\ OwnAsked'
    BY <1>1, <1>2, <2>1 DEF Owns, OwnFlash, OwnReg, OwnJob, OwnAsked, OwnEntry, Own, flash, dl
  <2>3. v = fw[d]
    BY <1>1, <2>1 DEF Owns, OwnAsked
  <2>4. OwnList'
    <3> SUFFICES ASSUME NEW i \in DOMAIN list
                 PROVE  /\ list'[i].ver = fw[list'[i].sn] /\ list'[i].info \in Own(list'[i].sn)
                        /\ list'[i].status = "done" => inst[list'[i].sn] = fw[list'[i].sn]
      BY <1>2, <1>6, <2>1 DEF OwnList, OwnEntry, Own
    <3>1. /\ OwnEntry(list[i])
          /\ list[i].status = "done" => inst[list[i].sn] = fw[list[i].sn]
      BY <2>1 DEF Owns, OwnList
    <3> QED
      BY <1>4, <1>6, <2>3, <3>1 DEF OwnEntry, Own
  <2> QED
    BY <2>2, <2>4 DEF Owns
<1> QED
  BY <1>7, <1>8, <1>9 DEF Parts, Types

LEMMA LoadingStep ==
  ASSUME TslAssumption, Parts, profile_url_loading
  PROVE  Parts'
<1>1. /\ UNCHANGED <<flash, inst, dl, copy, reg, asked, fw, upset, ops>>
      /\ url' = NoDev /\ tsl_adapter_dev_update(url, "loading")
  BY DEF profile_url_loading
<1>2. early' \in 0..EarlyMax
  BY DEF profile_url_loading, Parts, Types, RestType, TslAssumption
<1>3. /\ ListType' /\ DOMAIN list' = DOMAIN list
      /\ \A i \in DOMAIN list :
           /\ list'[i].sn = list[i].sn /\ list'[i].ver = list[i].ver
           /\ list'[i].info \in {list[i].info, NoVer}
           /\ list'[i].status = "done" => list[i].status = "done"
  <2>1. "loading" \in Statuses /\ "loading" # "done"
    BY DEF Statuses
  <2> QED
    BY <1>1, <2>1, UpdateKeeps DEF Parts, Types
<1>4. FlashType' /\ ThreadType' /\ RegType' /\ RestType'
  BY <1>1, <1>2 DEF Parts, Types, FlashType, ThreadType, RegType, RestType, flash, dl
<1>5. ASSUME ~upset'
      PROVE  Owns'
  <2>1. Owns
    BY <1>1, <1>5 DEF Parts
  <2>2. OwnFlash' /\ OwnReg' /\ OwnJob' /\ OwnAsked'
    BY <1>1, <2>1 DEF Owns, OwnFlash, OwnReg, OwnJob, OwnAsked, OwnEntry, Own, flash, dl
  <2>3. OwnList'
    <3> SUFFICES ASSUME NEW i \in DOMAIN list
                 PROVE  /\ list'[i].ver = fw[list'[i].sn] /\ list'[i].info \in Own(list'[i].sn)
                        /\ list'[i].status = "done" => inst[list'[i].sn] = fw[list'[i].sn]
      BY <1>1, <1>3 DEF OwnList, OwnEntry, Own
    <3>1. /\ OwnEntry(list[i])
          /\ list[i].status = "done" => inst[list[i].sn] = fw[list[i].sn]
      BY <2>1 DEF Owns, OwnList
    <3> QED
      BY <1>3, <3>1 DEF OwnEntry, Own
  <2> QED
    BY <2>2, <2>3 DEF Owns
<1> QED
  BY <1>3, <1>4, <1>5 DEF Parts, Types

\* A restart forgets everything but flash.
LEMMA RebootStep ==
  ASSUME TslAssumption, Parts, Reboot, ops' \in 0..OpMax
  PROVE  Parts'
<1>1. /\ list' = <<>> /\ inst' = NoMap /\ running' = FALSE /\ thr' = "none"
      /\ job' = NoJob /\ dangling' = FALSE /\ copy' = NoCopy /\ reg' = Idle /\ url' = NoDev
      /\ UNCHANGED <<known, file, asked, fw, upset, early>>
  BY DEF Reboot, flash
<1>2. ListType'
  BY <1>1 DEF ListType
<1>3. FlashType'
  BY <1>1 DEF Parts, Types, FlashType, NoMap, NoCopy, Ver
<1>4. ThreadType' /\ RegType' /\ RestType'
  BY <1>1 DEF Parts, Types, ThreadType, RegType, RestType, Places, InHand, Idle
<1>5. ASSUME ~upset'
      PROVE  Owns'
  <2>1. Owns
    BY <1>1, <1>5 DEF Parts
  <2>2. OwnFlash'
    BY <1>1, <2>1 DEF Owns, OwnFlash, Own, NoMap, NoCopy
  <2>3. OwnList' /\ OwnReg' /\ OwnJob' /\ OwnAsked'
    BY <1>1, <2>1 DEF Owns, OwnList, OwnReg, OwnJob, OwnAsked, Idle
  <2> QED
    BY <2>2, <2>3 DEF Owns
<1> QED
  BY <1>2, <1>3, <1>4, <1>5 DEF Parts, Types

LEMMA TslStutter ==
  ASSUME Parts, UNCHANGED vars
  PROVE  Parts'
<1> USE DEF vars, flash, dl, bounds
<1>1. ListType' /\ FlashType' /\ ThreadType' /\ RegType' /\ RestType'
  BY DEF Parts, Types, ListType, FlashType, ThreadType, RegType, RestType
<1>2. ASSUME ~upset'
      PROVE  Owns'
  BY <1>2 DEF Parts, Owns, OwnFlash, OwnList, OwnReg, OwnJob, OwnAsked, OwnEntry, Own
<1> QED
  BY <1>1, <1>2 DEF Parts, Types

-----------------------------------------------------------------------------

LEMMA TslInit == Init => Parts
<1> SUFFICES ASSUME Init
             PROVE  Parts
  OBVIOUS
<1> USE TslAssumption
<1>1. PICK n \in 0..Len(Loaded) :
        LET here == {Loaded[i] : i \in 1..n}
        IN  /\ list = [i \in 1..n |-> [sn |-> Loaded[i], ver |-> Ver0[Loaded[i]],
                                      status |-> "done", info |-> NoVer]]
            /\ known = [d \in Devs |-> IF d \in here THEN Ver0[d] ELSE NoVer]
            /\ file = [v \in Vers |-> IF \E d \in here : Ver0[d] = v THEN v ELSE NoVer]
            /\ inst = known
  BY DEF Init
<1>2. n \in Nat /\ \A i \in 1..n : Loaded[i] \in Devs
  BY DEF TslAssumption
<1>3. \A d \in Devs : Ver0[d] \in Vers
  BY DEF TslAssumption
<1>4. ListType
  <2>1. \A i \in 1..n : [sn |-> Loaded[i], ver |-> Ver0[Loaded[i]],
                         status |-> "done", info |-> NoVer] \in Entry
    BY <1>2, <1>3 DEF Entry, Statuses, Ver
  <2> QED
    BY <1>1, <1>2, <2>1 DEF ListType
<1>5. FlashType
  <2>1. known \in [Devs -> Ver] /\ file \in [Vers -> Ver]
    BY <1>1, <1>3 DEF Ver
  <2>2. copy \in [{"reg", "dl"} -> [Devs -> Ver]]
    BY DEF Init, NoCopy, NoMap, Ver
  <2> QED
    BY <1>1, <2>1, <2>2 DEF FlashType
<1>6. ThreadType /\ RegType
  BY DEF Init, ThreadType, RegType, Places, InHand, Idle
<1>7. RestType
  <2>1. upset \in BOOLEAN /\ asked \subseteq Devs \X Vers /\ url \in Devs \cup {NoDev}
    BY DEF Init
  <2>2. fw \in [Devs -> Vers]
    BY DEF Init, TslAssumption
  <2>3. ops \in 0..OpMax /\ early \in 0..EarlyMax
    BY DEF Init, TslAssumption
  <2> QED
    BY <2>1, <2>2, <2>3 DEF RestType
<1>8. OwnFlash
  <2>1. \A v \in Vers : file[v] \in {v, NoVer}
    BY <1>1
  <2>2. \A d \in Devs : known[d] \in Own(d) /\ inst[d] \in Own(d)
    BY <1>1 DEF Own, Init
  <2>3. \A p \in {"reg", "dl"} : \A d \in Devs : copy[p][d] \in Own(d)
    BY DEF Own, Init, NoCopy, NoMap
  <2> QED
    BY <2>1, <2>2, <2>3 DEF OwnFlash
<1>9. OwnList
  <2> SUFFICES ASSUME NEW i \in 1..n
               PROVE  /\ OwnEntry(list[i])
                      /\ inst[list[i].sn] = fw[list[i].sn]
    BY <1>1 DEF OwnList
  <2>1. /\ list[i].sn = Loaded[i] /\ list[i].ver = Ver0[Loaded[i]] /\ list[i].info = NoVer
        /\ Loaded[i] \in Devs
    BY <1>1, <1>2
  <2>2. inst[Loaded[i]] = Ver0[Loaded[i]]
    BY <1>1, <2>1
  <2> QED
    BY <2>1, <2>2 DEF OwnEntry, Own, Init
<1>10. OwnAsked /\ OwnJob /\ OwnReg
  BY DEF Init, OwnAsked, OwnJob, OwnReg, Idle
<1> QED
  BY <1>4, <1>5, <1>6, <1>7, <1>8, <1>9, <1>10 DEF Parts, Types, Owns

LEMMA TslInductive == Parts /\ [Next]_vars => Parts'
<1> SUFFICES ASSUME Parts, [Next]_vars
             PROVE  Parts'
  OBVIOUS
<1> USE TslAssumption
<1>1. CASE Hub
  BY <1>1, RegStep, UpdateStep, RemoveStep DEF Hub
<1>2. CASE Registering
  BY <1>2, RegFlashStep, LoadStep, AddStep, TaskStep DEF Registering
<1>3. CASE Thread
  <2>1. CASE thread_enter \/ look_found \/ look_nothing \/ thread_leaves
    BY <2>1, IdleThreadStep, FoundStep
  <2>2. CASE query_sent \/ query_waits \/ query_noted \/ fetch_ok \/ fetch_failed
    BY <2>2, QueryStep, FailStep, NoteStep, FetchStep
  <2>3. CASE fetch_null
    <3>1. Reboot /\ ops' \in 0..OpMax
      BY <2>3 DEF fetch_null, Parts, Types, RestType
    <3> QED
      BY <3>1, RebootStep
  <2>4. CASE dl_save_read \/ dl_save_write \/ dl_save_unwritten \/ dl_save_failed
    BY <2>4, SaveStep, SaveFailedStep
  <2>5. CASE dl_load \/ dl_load_failed \/ dl_done
    BY <2>5, ThreadLoadStep, FailStep, NoteStep
  <2> QED
    BY <1>3, <2>1, <2>2, <2>3, <2>4, <2>5 DEF Thread
<1>4. CASE Yield
  BY <1>4, UrlStep, LoadingStep DEF Yield
<1>5. CASE power_loss
  <2>1. Reboot /\ ops' \in 0..OpMax
    BY <1>5 DEF power_loss, Parts, Types, RestType, TslAssumption
  <2> QED
    BY <2>1, RebootStep
<1>6. CASE UNCHANGED vars
  BY <1>6, TslStutter
<1> QED
  BY <1>1, <1>2, <1>3, <1>4, <1>5, <1>6 DEF Next

\* TslInv holds in every reachable state.
THEOREM TslInvariant == TslSpec => []TslInv
<1>1. TslSpec => []Parts
  BY TslInit, TslInductive, PTL DEF TslSpec
<1> QED
  BY <1>1, InvParts, PTL

\* List, flash and threads keep their types: among others the download thread
\* works on a device of the list whenever it queries, fetches or stores.
THEOREM TslTypes == TslSpec => []TslTypeOK
<1>1. TslInv => TslTypeOK
  BY DEF TslInv
<1> QED
  BY <1>1, TslInvariant, PTL

\* As long as no device changes its version and none is removed under the
\* thread's hands, every file is the profile of its handle and a device
\* counted as done has the profile of its version.
THEOREM ProfilesAreOwn == TslSpec => []OwnProfile
<1>1. TslInv => OwnProfile
  BY DEF TslInv, OwnProfile, OwnFlash, OwnList, OwnEntry
<1> QED
  BY <1>1, TslInvariant, PTL
=============================================================================
