--------------------------- MODULE HubDevicesProof ---------------------------
(***************************************************************************)
(* Proofs about HubDevices: whichever threads change the list of           *)
(* sub-devices, the platform's list, the thing model's registrations and   *)
(* the counter follow it.  The list matters to them only by what it holds  *)
(* of each device (ItemOf): three lemmas say what adding, deleting and     *)
(* changing an item do to that, the rest does not look at positions.       *)
(***************************************************************************)
EXTENDS HubDevices, FiniteSetTheorems, TLAPS

ItemOf(d) == list[Index(d)]

\* One item a device, each of its type.
ListOK ==
  /\ list \in Seq(Item) /\ Len(list) <= ListMax
  /\ \A i, j \in DOMAIN list : list[i].sn = list[j].sn => i = j

\* The rest of HubTypeOK.
RestOK ==
  /\ held \in BOOLEAN /\ stale \in BOOLEAN /\ unauth \in Nat
  /\ tsl \in [Devs -> Vers \cup {NoVer}]
  /\ asked \in [Devs -> 0..AskMax]
  /\ plat \in [Devs -> [ver : Vers \cup {NoVer}, sta : BOOLEAN]]
  /\ app \in [at : {"idle", "report", "sta_report", "unreg", "clear"}, dev : Devs \cup {NoDev}]
  /\ yt \in [at : {"idle", "report", "failure"}, dev : Devs \cup {NoDev}]
  /\ tm \in [at : {"armed", "retry", "over"}, dev : Devs \cup {NoDev}]
  /\ adds \in 0..AddMax /\ upds \in 0..UpdMax

Counted == IsFiniteSet(Unauthenticated) /\ CountCovers

\* HubTypeOK is the two together.
LEMMA TypeSplits == HubTypeOK <=> ListOK /\ RestOK
BY DEF HubTypeOK, ListOK, RestOK

-----------------------------------------------------------------------------
(* The list.                                                               *)

\* find_dev_by_sn returns the position of the serial it was asked for.
LEMMA IndexFinds ==
  ASSUME NEW d, Listed(d)
  PROVE  Index(d) \in DOMAIN list /\ list[Index(d)].sn = d
BY DEF Listed, Index

Indexed ==
  \A e \in Devs : \A i \in DOMAIN list : list[i].sn = e => Listed(e) /\ Index(e) = i

\* An item is found under its serial, at no other place.
LEMMA IndexUnique == ListOK => Indexed
<1> SUFFICES ASSUME ListOK, NEW e \in Devs, NEW i \in DOMAIN list, list[i].sn = e
             PROVE  Listed(e) /\ Index(e) = i
  BY DEF Indexed
<1>1. Listed(e)
  BY DEF Listed
<1>2. Index(e) \in DOMAIN list /\ list[Index(e)].sn = e
  BY <1>1, IndexFinds
<1> QED
  BY <1>1, <1>2 DEF ListOK

\* What is listed has an item of its type.
LEMMA ItemType ==
  ASSUME ListOK, NEW d, Listed(d)
  PROVE  d \in Devs /\ ItemOf(d) \in Item /\ ItemOf(d).sn = d
<1>1. Index(d) \in DOMAIN list /\ list[Index(d)].sn = d
  BY IndexFinds
<1>2. list[Index(d)] \in Item
  BY <1>1 DEF ListOK
<1> QED
  BY <1>1, <1>2 DEF ItemOf, Item

\* The walk of hub_subdev_next stays among the serial numbers.
LEMMA NextType ==
  ASSUME ListOK, NEW d
  PROVE  NextDev(d) \in Devs \cup {NoDev}
<1>1. Listed(d) => Index(d) \in 1..Len(list)
  BY IndexFinds DEF ListOK
<1>2. \A i \in 1..Len(list) : list[i].sn \in Devs
  <2> SUFFICES ASSUME NEW i \in 1..Len(list)
               PROVE  list[i].sn \in Devs
    OBVIOUS
  <2>1. list[i] \in Item
    BY DEF ListOK
  <2> QED
    BY <2>1 DEF Item
<1>3. Len(list) \in Nat
  BY DEF ListOK
<1> QED
  BY <1>1, <1>2, <1>3 DEF NextDev

\* hub_add_do: the new item is unauthenticated, the others stay.
LEMMA Appending ==
  ASSUME HubAssumption, ListOK, NEW d \in Devs, NEW v \in Vers, ~Listed(d), Len(list) < ListMax,
         list' = Append(list, [sn |-> d, access |-> FALSE, ver |-> v, sta |-> FALSE])
  PROVE  /\ ListOK'
         /\ Listed(d)' /\ ItemOf(d)'.access = FALSE
         /\ \A e \in Devs : e # d => (Listed(e)' <=> Listed(e))
         /\ \A e \in Devs : Listed(e) => ItemOf(e)' = ItemOf(e)
<1> DEFINE new == [sn |-> d, access |-> FALSE, ver |-> v, sta |-> FALSE]
           n == Len(list) + 1
<1>1. /\ list' \in Seq(Item) /\ Len(list') = n /\ list'[n] = new
      /\ \A i \in 1..Len(list) : list'[i] = list[i]
  BY DEF ListOK, Item
<1>2. n <= ListMax /\ Len(list) \in Nat /\ DOMAIN list = 1..Len(list) /\ DOMAIN list' = 1..n
  BY <1>1 DEF HubAssumption, ListOK
<1>3. \A i \in 1..Len(list) : list'[i].sn # d
  BY <1>1, <1>2 DEF Listed
<1>4. \A i, j \in 1..n : list'[i].sn = list'[j].sn => i = j
  <2> SUFFICES ASSUME NEW i \in 1..n, NEW j \in 1..n, list'[i].sn = list'[j].sn
               PROVE  i = j
    OBVIOUS
  <2>1. list'[n].sn = d
    BY <1>1
  <2>2. CASE i = n \/ j = n
    BY <1>2, <1>3, <2>1, <2>2
  <2>3. CASE i \in 1..Len(list) /\ j \in 1..Len(list)
    BY <1>1, <1>2, <2>3 DEF ListOK
  <2> QED
    BY <1>2, <2>2, <2>3
<1>5. ListOK'
  BY <1>1, <1>2, <1>4 DEF ListOK
<1>6. \A e \in Devs : \A i \in 1..n : list'[i].sn = e => Listed(e)' /\ Index(e)' = i
  <2>1. ListOK' => Indexed'
    BY IndexUnique, PTL
  <2> QED
    BY <1>2, <1>5, <2>1 DEF Indexed
<1>7. Listed(d)' /\ ItemOf(d)'.access = FALSE
  <2>1. n \in 1..n /\ list'[n].sn = d
    BY <1>1, <1>2
  <2>2. Listed(d)' /\ Index(d)' = n
    BY <1>6, <2>1
  <2> QED
    BY <1>1, <2>2 DEF ItemOf
<1>8. \A e \in Devs : Listed(e) => Listed(e)' /\ ItemOf(e)' = ItemOf(e)
  <2> SUFFICES ASSUME NEW e \in Devs, Listed(e)
               PROVE  Listed(e)' /\ ItemOf(e)' = ItemOf(e)
    OBVIOUS
  <2> DEFINE k == Index(e)
  <2>1. k \in 1..Len(list) /\ list[k].sn = e
    BY <1>2, IndexFinds
  <2>2. list'[k] = list[k] /\ k \in 1..n
    BY <1>1, <1>2, <2>1
  <2>3. Listed(e)' /\ Index(e)' = k
    BY <1>6, <2>1, <2>2
  <2> QED
    BY <2>2, <2>3 DEF ItemOf
<1>9. \A e \in Devs : e # d /\ Listed(e)' => Listed(e)
  BY <1>1, <1>2 DEF Listed
<1> QED
  BY <1>5, <1>7, <1>8, <1>9

\* hub_del_do: the device is gone, the others stay.
LEMMA Removing ==
  ASSUME HubAssumption, ListOK, NEW d \in Devs, Listed(d), list' = Without(d)
  PROVE  /\ ListOK'
         /\ \A e \in Devs : Listed(e)' <=> Listed(e) /\ e # d
         /\ \A e \in Devs : Listed(e)' => ItemOf(e)' = ItemOf(e)
<1> DEFINE k == Index(d)
           n == Len(list) - 1
           old(i) == IF i < k THEN i ELSE i + 1
<1>1. k \in 1..Len(list) /\ list[k].sn = d /\ DOMAIN list = 1..Len(list) /\ Len(list) \in Nat
  BY IndexFinds DEF ListOK
<1>2. n \in Nat /\ n <= ListMax
  BY <1>1 DEF HubAssumption, ListOK
<1>3. \A i \in 1..n : old(i) \in 1..Len(list) /\ old(i) # k
  BY <1>1, <1>2
<1>4. \A m \in 1..Len(list) : m # k => \E i \in 1..n : old(i) = m
  <2> SUFFICES ASSUME NEW m \in 1..Len(list), m # k
               PROVE  \E i \in 1..n : old(i) = m
    OBVIOUS
  <2>1. CASE m < k
    <3>1. m \in 1..n /\ old(m) = m
      BY <1>1, <1>2, <2>1
    <3> QED
      BY <3>1
  <2>2. CASE m > k
    <3>1. m - 1 \in 1..n /\ old(m - 1) = m
      BY <1>1, <1>2, <2>2
    <3> QED
      BY <3>1
  <2> QED
    BY <1>1, <2>1, <2>2
<1>5. \A i, j \in 1..n : old(i) = old(j) => i = j
  BY <1>1, <1>2
<1>6. list' = [i \in 1..n |-> list[old(i)]]
  BY DEF Without
<1> HIDE DEF old, n
<1>7. list' \in Seq(Item) /\ Len(list') = n /\ DOMAIN list' = 1..n
  <2>1. \A i \in 1..n : list[old(i)] \in Item
    BY <1>1, <1>3 DEF ListOK
  <2> QED
    BY <1>2, <1>6, <2>1
<1>8. \A i \in 1..n : list'[i] = list[old(i)]
  BY <1>6
<1>9. ListOK'
  <2>1. \A i, j \in 1..n : list'[i].sn = list'[j].sn => i = j
    BY <1>1, <1>3, <1>5, <1>8 DEF ListOK
  <2> QED
    BY <1>2, <1>7, <2>1 DEF ListOK
<1>10. \A e \in Devs : \A i \in 1..n : list'[i].sn = e => Index(e)' = i
  <2>1. ListOK' => Indexed'
    BY IndexUnique, PTL
  <2> QED
    BY <1>7, <1>9, <2>1 DEF Indexed
<1>11. \A e \in Devs : Listed(e)' => Listed(e) /\ e # d /\ ItemOf(e)' = ItemOf(e)
  <2> SUFFICES ASSUME NEW e \in Devs, Listed(e)'
               PROVE  Listed(e) /\ e # d /\ ItemOf(e)' = ItemOf(e)
    OBVIOUS
  <2>1. PICK i \in 1..n : list'[i].sn = e
    BY <1>7 DEF Listed
  <2>2. list[old(i)].sn = e /\ old(i) \in DOMAIN list /\ old(i) # k
    BY <1>1, <1>3, <1>8, <2>1
  <2>3. e # d
    BY <1>1, <2>2 DEF ListOK
  <2>4. Listed(e) /\ Index(e) = old(i)
    BY <2>2, IndexUnique DEF Indexed
  <2>5. Index(e)' = i
    BY <1>10, <2>1
  <2> QED
    BY <1>8, <2>3, <2>4, <2>5 DEF ItemOf
<1>12. \A e \in Devs : Listed(e) /\ e # d => Listed(e)'
  <2> SUFFICES ASSUME NEW e \in Devs, Listed(e), e # d
               PROVE  Listed(e)'
    OBVIOUS
  <2>1. Index(e) \in 1..Len(list) /\ list[Index(e)].sn = e /\ Index(e) # k
    BY <1>1, IndexFinds
  <2>2. PICK i \in 1..n : old(i) = Index(e)
    BY <1>4, <2>1
  <2> QED
    BY <1>7, <1>8, <2>1, <2>2 DEF Listed
<1> QED
  BY <1>9, <1>11, <1>12

\* A change of one item: its serial stays, and so do the other items.
LEMMA Changing ==
  ASSUME ListOK, NEW d \in Devs, Listed(d), NEW item \in Item, item.sn = d,
         list' = [list EXCEPT ![Index(d)] = item]
  PROVE  /\ ListOK'
         /\ \A e \in Devs : Listed(e)' <=> Listed(e)
         /\ ItemOf(d)' = item
         /\ \A e \in Devs : Listed(e) /\ e # d => ItemOf(e)' = ItemOf(e)
<1> DEFINE k == Index(d)
<1>1. k \in DOMAIN list /\ list[k].sn = d
  BY IndexFinds
<1>2. /\ list' \in Seq(Item) /\ Len(list') = Len(list) /\ DOMAIN list' = DOMAIN list
      /\ list'[k] = item /\ \A i \in DOMAIN list : i # k => list'[i] = list[i]
  BY <1>1 DEF ListOK
<1>3. \A i \in DOMAIN list : list'[i].sn = list[i].sn
  BY <1>1, <1>2
<1>4. ListOK'
  BY <1>2, <1>3 DEF ListOK
<1>5. \A e \in Devs : Listed(e)' <=> Listed(e)
  BY <1>2, <1>3 DEF Listed
<1>6. \A e \in Devs : Listed(e) => Index(e)' = Index(e)
  <2> SUFFICES ASSUME NEW e \in Devs, Listed(e)
               PROVE  Index(e)' = Index(e)
    OBVIOUS
  <2>1. Index(e) \in DOMAIN list' /\ list'[Index(e)].sn = e
    BY <1>2, <1>3, IndexFinds
  <2>2. ListOK' => Indexed'
    BY IndexUnique, PTL
  <2> QED
    BY <1>4, <2>1, <2>2 DEF Indexed
<1>7. \A e \in Devs : Listed(e) /\ e # d => ItemOf(e)' = ItemOf(e)
  <2> SUFFICES ASSUME NEW e \in Devs, Listed(e), e # d
               PROVE  ItemOf(e)' = ItemOf(e)
    OBVIOUS
  <2>1. Index(e) \in DOMAIN list /\ Index(e) # k
    BY <1>1, IndexFinds
  <2> QED
    BY <1>2, <1>6, <2>1 DEF ItemOf
<1> QED
  BY <1>2, <1>4, <1>5, <1>6, <1>7 DEF ItemOf

\* An unchanged list reads as before.
LEMMA ListSame ==
  ASSUME UNCHANGED list
  PROVE  /\ ListOK' <=> ListOK
         /\ \A e \in Devs : Listed(e)' <=> Listed(e)
         /\ \A e \in Devs : ItemOf(e)' = ItemOf(e)
         /\ \A e \in Devs : Passed(e)' <=> Passed(e)
         /\ Relation' = Relation /\ Unauthenticated' = Unauthenticated
<1>1. ListOK' <=> ListOK
  BY DEF ListOK
<1>2. \A e : Listed(e)' <=> Listed(e)
  BY DEF Listed
<1>3. \A e : Index(e)' = Index(e)
  BY DEF Index
<1>4. \A e : Passed(e)' <=> Passed(e)
  BY <1>2, <1>3 DEF Passed
<1>5. Unauthenticated' = Unauthenticated
  BY <1>2, <1>4 DEF Unauthenticated
<1>6. Relation' = Relation
  BY <1>3, <1>4 DEF Relation
<1> QED
  BY <1>1, <1>2, <1>3, <1>4, <1>5, <1>6 DEF ItemOf

-----------------------------------------------------------------------------
(* The counter and the registrations.                                      *)

Parts ==
  /\ ListOK /\ RestOK /\ ReportCurrent /\ StatusesSuffice /\ AuthedRegistered
  /\ Counted

\* HubInv in the parts the proofs below work on.
LEMMA InvParts == HubInv <=> Parts
BY TypeSplits DEF HubInv, Parts, Counted

\* A device more or less among the unauthenticated ones, and g_unauth_count
\* with it.
LEMMA CountKept ==
  ASSUME Counted, unauth \in Nat, Unauthenticated' \subseteq Unauthenticated,
         unauth' = unauth
  PROVE  Counted'
<1>1. /\ IsFiniteSet(Unauthenticated')
      /\ Cardinality(Unauthenticated') <= Cardinality(Unauthenticated)
  BY FS_Subset DEF Counted
<1>2. Cardinality(Unauthenticated) \in Nat /\ Cardinality(Unauthenticated') \in Nat
  BY <1>1, FS_CardinalityType DEF Counted
<1> QED
  BY <1>1, <1>2 DEF Counted, CountCovers

LEMMA CountRaised ==
  ASSUME Counted, unauth \in Nat, NEW d,
         Unauthenticated' = Unauthenticated \cup {d}, unauth' = unauth + 1
  PROVE  Counted'
<1>1. /\ IsFiniteSet(Unauthenticated')
      /\ Cardinality(Unauthenticated') \in {Cardinality(Unauthenticated),
                                            Cardinality(Unauthenticated) + 1}
  BY FS_AddElement DEF Counted
<1>2. Cardinality(Unauthenticated) \in Nat
  BY FS_CardinalityType DEF Counted
<1> QED
  BY <1>1, <1>2 DEF Counted, CountCovers

LEMMA CountLowered ==
  ASSUME Counted, unauth \in Nat, NEW d \in Unauthenticated,
         Unauthenticated' = Unauthenticated \ {d}, unauth' = unauth - 1
  PROVE  Counted' /\ unauth' \in Nat
<1>1. /\ IsFiniteSet(Unauthenticated')
      /\ Cardinality(Unauthenticated') = Cardinality(Unauthenticated) - 1
  BY FS_RemoveElement DEF Counted
<1>2. Cardinality(Unauthenticated) \in Nat /\ Cardinality(Unauthenticated') \in Nat
  BY <1>1, FS_CardinalityType DEF Counted
<1> QED
  BY <1>1, <1>2 DEF Counted, CountCovers

\* hub_del_do, from either thread: what is deleted is neither authenticated
\* nor counted any more, and nobody else is touched.
LEMMA Deleting ==
  ASSUME HubAssumption, Parts, NEW d, Listed(d), Deletes(d)
  PROVE  /\ ListOK' /\ Counted' /\ unauth' \in Nat
         /\ tsl' \in [Devs -> Vers \cup {NoVer}]
         /\ \A e \in Devs : Passed(e)' => Passed(e) /\ tsl'[e] = tsl[e]
<1>1. d \in Devs /\ ItemOf(d) \in Item
  BY ItemType DEF Parts
<1>2. /\ ListOK'
      /\ \A e \in Devs : Listed(e)' <=> Listed(e) /\ e # d
      /\ \A e \in Devs : Listed(e)' => ItemOf(e)' = ItemOf(e)
  BY <1>1, Removing DEF Parts, Deletes
<1>3. \A e \in Devs : Passed(e)' <=> Passed(e) /\ e # d
  BY <1>2 DEF Passed, ItemOf
<1>4. unauth \in Nat /\ tsl \in [Devs -> Vers \cup {NoVer}]
  BY DEF Parts, RestOK
<1>5. tsl' \in [Devs -> Vers \cup {NoVer}] /\ \A e \in Devs : e # d => tsl'[e] = tsl[e]
  BY <1>4 DEF Deletes, TslUnreg
<1>6. Counted' /\ unauth' \in Nat
  <2>1. CASE Passed(d)
    <3>1. Unauthenticated' \subseteq Unauthenticated
      BY <1>2, <1>3 DEF Unauthenticated
    <3>2. unauth' = unauth
      BY <2>1 DEF Deletes
    <3> QED
      BY <1>4, <3>1, <3>2, CountKept DEF Parts
  <2>2. CASE ~Passed(d)
    <3>1. d \in Unauthenticated
      BY <1>1, <2>2 DEF Unauthenticated
    <3>2. Unauthenticated' = Unauthenticated \ {d}
      BY <1>2, <1>3 DEF Unauthenticated
    <3>3. unauth' = unauth - 1
      BY <2>2 DEF Deletes
    <3> QED
      BY <1>4, <3>1, <3>2, <3>3, CountLowered DEF Parts
  <2> QED
    BY <2>1, <2>2
<1> QED
  BY <1>2, <1>3, <1>5, <1>6

\* A step that leaves the list and the counter alone.
LEMMA FlashSame ==
  ASSUME Parts, UNCHANGED <<list, unauth>>
  PROVE  /\ ListOK' /\ Counted'
         /\ Relation' = Relation
         /\ \A e \in Devs : (Passed(e)' <=> Passed(e)) /\ ItemOf(e)' = ItemOf(e)
<1>1. Unauthenticated' = Unauthenticated
  BY ListSame
<1>2. Counted'
  BY <1>1, CountKept DEF Parts, RestOK
<1> QED
  BY <1>2, ListSame DEF Parts

\* A request for authentication changes nothing but the number of those
\* the platform has not answered.
LEMMA AuthDoType ==
  ASSUME HubAssumption, RestOK, NEW d, hub_subdev_auth_do(d), d \in Devs
  PROVE  asked' \in [Devs -> 0..AskMax]
<1>1. asked \in [Devs -> 0..AskMax] /\ AskMax \in Nat
  BY DEF RestOK, HubAssumption
<1> QED
  BY <1>1 DEF hub_subdev_auth_do

-----------------------------------------------------------------------------
(* One lemma per action.                                                   *)

LEMMA AddStep ==
  ASSUME HubAssumption, Parts, app = Idle,
         NEW d \in Devs, NEW v \in Vers, hub_add_do(d, v)
  PROVE  Parts'
<1>1. /\ ListOK' /\ Listed(d)' /\ ItemOf(d)'.access = FALSE
      /\ \A e \in Devs : e # d => (Listed(e)' <=> Listed(e))
      /\ \A e \in Devs : Listed(e) => ItemOf(e)' = ItemOf(e)
  BY Appending DEF Parts, hub_add_do
<1>2. ~Listed(d) /\ unauth' = unauth + 1 /\ unauth \in Nat
  BY DEF hub_add_do, Parts, RestOK
<1>3. \A e \in Devs : Passed(e)' <=> Passed(e)
  BY <1>1, <1>2 DEF Passed, ItemOf
<1>4. \A e \in Devs : Passed(e) => ItemOf(e)' = ItemOf(e)
  BY <1>1 DEF Passed
<1>5. RestOK'
  <2>1. asked' \in [Devs -> 0..AskMax]
    BY AuthDoType DEF hub_add_do, Parts
  <2>2. adds' \in 0..AddMax
    BY DEF hub_add_do, Parts, RestOK, HubAssumption
  <2>3. UNCHANGED <<held, tsl, plat, stale, app, yt, tm, upds>>
    BY DEF hub_add_do, threads
  <2>4. unauth' \in Nat
    BY <1>2
  <2> QED
    BY <2>1, <2>2, <2>3, <2>4 DEF Parts, RestOK
<1>6. Counted'
  <2>1. Unauthenticated' = Unauthenticated \cup {d}
    BY <1>1, <1>2, <1>3 DEF Unauthenticated, Passed
  <2> QED
    BY <1>2, <2>1, CountRaised DEF Parts
<1>7. ReportCurrent'
  <2>1. Relation' = Relation
    BY <1>3, <1>4 DEF Relation, ItemOf
  <2> QED
    BY <2>1 DEF ReportCurrent, hub_add_do, Parts, threads
<1>8. StatusesSuffice'
  BY DEF StatusesSuffice, hub_add_do, threads, Idle
<1>9. AuthedRegistered'
  BY <1>3 DEF AuthedRegistered, hub_add_do, Parts, threads
<1> QED
  BY <1>1, <1>5, <1>6, <1>7, <1>8, <1>9 DEF Parts

LEMMA DeleteStep ==
  ASSUME HubAssumption, Parts, app = Idle, ~held, NEW d \in Devs, hub_del_do(d)
  PROVE  Parts'
<1>1. /\ ListOK' /\ Counted' /\ unauth' \in Nat
      /\ tsl' \in [Devs -> Vers \cup {NoVer}]
      /\ \A e \in Devs : Passed(e)' => Passed(e) /\ tsl'[e] = tsl[e]
  BY Deleting DEF hub_del_do
<1>2. RestOK'
  BY <1>1 DEF hub_del_do, Deletes, Parts, RestOK, At
<1>3. ReportCurrent' /\ StatusesSuffice'
  BY DEF ReportCurrent, StatusesSuffice, hub_del_do, At
<1>4. AuthedRegistered'
  BY <1>1 DEF AuthedRegistered, hub_del_do, Deletes, Parts, Idle
<1> QED
  BY <1>1, <1>2, <1>3, <1>4 DEF Parts

\* A change of version or status keeps who is authenticated.
LEMMA ChangeKeeps ==
  ASSUME Parts, NEW d \in Devs, Listed(d), NEW item \in Item, item.sn = d,
         item.access = ItemOf(d).access, list' = [list EXCEPT ![Index(d)] = item],
         UNCHANGED unauth
  PROVE  /\ ListOK' /\ Counted'
         /\ \A e \in Devs : Passed(e)' <=> Passed(e)
         /\ \A e \in Devs : Passed(e) => ItemOf(e)'.ver = IF e = d THEN item.ver ELSE ItemOf(e).ver
<1>1. /\ ListOK' /\ ItemOf(d)' = item
      /\ \A e \in Devs : Listed(e)' <=> Listed(e)
      /\ \A e \in Devs : Listed(e) /\ e # d => ItemOf(e)' = ItemOf(e)
  BY Changing DEF Parts
<1>2. \A e \in Devs : Passed(e)' <=> Passed(e)
  BY <1>1 DEF Passed, ItemOf
<1>3. Unauthenticated' \subseteq Unauthenticated
  BY <1>1, <1>2 DEF Unauthenticated
<1>4. Counted'
  BY <1>3, CountKept DEF Parts, RestOK
<1> QED
  BY <1>1, <1>2, <1>4 DEF Passed

LEMMA VersionStep ==
  ASSUME HubAssumption, Parts, app = Idle, ~held,
         NEW d \in Devs, NEW v \in Vers, hub_ver_update_do(d, v)
  PROVE  Parts'
<1> DEFINE item == [ItemOf(d) EXCEPT !.ver = v]
<1>1. Listed(d) /\ ItemOf(d) \in Item /\ ItemOf(d).sn = d
  BY ItemType DEF hub_ver_update_do, Parts
<1>2. item \in Item /\ item.sn = d /\ item.access = ItemOf(d).access
  BY <1>1 DEF Item
<1>3. list' = [list EXCEPT ![Index(d)] = item] /\ UNCHANGED unauth
  BY DEF hub_ver_update_do, ItemOf
<1> HIDE DEF item
<1>4. ListOK' /\ Counted' /\ \A e \in Devs : Passed(e)' <=> Passed(e)
  BY <1>1, <1>2, <1>3, ChangeKeeps
<1>5. /\ tsl' \in [Devs -> Vers \cup {NoVer}]
      /\ tsl'[d] # NoVer /\ \A e \in Devs : e # d => tsl'[e] = tsl[e]
  <2>1. tsl \in [Devs -> Vers \cup {NoVer}] /\ v # NoVer
    BY DEF Parts, RestOK, HubAssumption
  <2> QED
    BY <2>1 DEF hub_ver_update_do, TslReg, TslUnreg
<1>6. RestOK'
  <2>1. upds' \in 0..UpdMax
    BY DEF hub_ver_update_do, Parts, RestOK, HubAssumption
  <2> QED
    BY <1>5, <2>1 DEF hub_ver_update_do, Parts, RestOK, At
<1>7. ReportCurrent' /\ StatusesSuffice'
  BY DEF ReportCurrent, StatusesSuffice, hub_ver_update_do, At
<1>8. AuthedRegistered'
  BY <1>4, <1>5 DEF AuthedRegistered, hub_ver_update_do, Parts, Idle
<1> QED
  BY <1>4, <1>6, <1>7, <1>8 DEF Parts

LEMMA StatusStep ==
  ASSUME HubAssumption, Parts, app = Idle, ~held,
         NEW d \in Devs, NEW online \in BOOLEAN, hub_status_update_do(d, online)
  PROVE  Parts'
<1> DEFINE item == [ItemOf(d) EXCEPT !.sta = online]
<1>1. Listed(d) /\ ItemOf(d) \in Item /\ ItemOf(d).sn = d
  BY ItemType DEF hub_status_update_do, Parts
<1>2. /\ item \in Item /\ item.sn = d
      /\ item.access = ItemOf(d).access /\ item.ver = ItemOf(d).ver
  BY <1>1 DEF Item
<1>3. list' = [list EXCEPT ![Index(d)] = item] /\ UNCHANGED unauth
  BY DEF hub_status_update_do, ItemOf
<1> HIDE DEF item
<1>4. /\ ListOK' /\ Counted'
      /\ \A e \in Devs : Passed(e)' <=> Passed(e)
      /\ \A e \in Devs : Passed(e) => ItemOf(e)'.ver = ItemOf(e).ver
  BY <1>1, <1>2, <1>3, ChangeKeeps
<1>5. RestOK'
  <2>1. upds' \in 0..UpdMax
    BY DEF hub_status_update_do, Parts, RestOK, HubAssumption
  <2> QED
    BY <2>1 DEF hub_status_update_do, Parts, RestOK, At
<1>6. ReportCurrent'
  BY DEF ReportCurrent, hub_status_update_do, At
<1>7. StatusesSuffice'
  <2> SUFFICES ASSUME yt.at # "report", ~stale, NEW e \in Devs
               PROVE  IF Passed(e)' THEN plat'[e].ver = ItemOf(e)'.ver ELSE plat'[e] = Absent
    BY DEF StatusesSuffice, hub_status_update_do, ItemOf
  <2>1. plat' = Relation
    BY DEF ReportCurrent, Parts, hub_status_update_do, Idle
  <2>2. plat'[e] = IF Passed(e) THEN [ver |-> ItemOf(e).ver, sta |-> ItemOf(e).sta] ELSE Absent
    BY <2>1 DEF Relation, ItemOf
  <2> QED
    BY <1>4, <2>2
<1>8. AuthedRegistered'
  BY <1>4 DEF AuthedRegistered, hub_status_update_do, Parts, Idle
<1> QED
  BY <1>4, <1>5, <1>6, <1>7, <1>8 DEF Parts

LEMMA CleanStep ==
  ASSUME HubAssumption, Parts, app = Idle, hub_clean_do
  PROVE  Parts'
<1>1. /\ ListOK' /\ Counted' /\ Relation' = Relation
      /\ \A e \in Devs : (Passed(e)' <=> Passed(e)) /\ ItemOf(e)' = ItemOf(e)
  BY FlashSame DEF hub_clean_do, flash
<1>2. RestOK'
  BY DEF hub_clean_do, flash, Parts, RestOK, At
<1>3. ReportCurrent' /\ StatusesSuffice' /\ AuthedRegistered'
  BY <1>1 DEF hub_clean_do, flash, Parts, ReportCurrent, StatusesSuffice, AuthedRegistered,
     At, Idle
<1> QED
  BY <1>1, <1>2, <1>3 DEF Parts

\* Every registration may be missing while the clean-up is under way.
LEMMA UnregStep ==
  ASSUME HubAssumption, Parts, hub_tsl_unreg_all
  PROVE  Parts'
<1>1. /\ ListOK' /\ Counted' /\ Relation' = Relation
      /\ \A e \in Devs : (Passed(e)' <=> Passed(e)) /\ ItemOf(e)' = ItemOf(e)
  BY FlashSame DEF hub_tsl_unreg_all, flash
<1>2. PICK d \in Devs \cup {NoDev} : d = NextDev(app.dev)
  BY NextType DEF Parts
<1>3. app' = [at |-> "unreg", dev |-> d] \/ app' = At("clear")
  BY <1>2 DEF hub_tsl_unreg_all
<1>4. tsl' \in [Devs -> Vers \cup {NoVer}]
  <2>1. tsl \in [Devs -> Vers \cup {NoVer}]
    BY DEF Parts, RestOK
  <2> QED
    BY <2>1 DEF hub_tsl_unreg_all, TslUnreg
<1>5. RestOK'
  BY <1>3, <1>4 DEF hub_tsl_unreg_all, flash, Parts, RestOK, At
<1>6. app.at = "unreg" /\ app'.at \in {"unreg", "clear"} /\ UNCHANGED <<yt, stale, plat>>
  BY <1>3 DEF hub_tsl_unreg_all, At
<1>7. ReportCurrent' /\ StatusesSuffice' /\ AuthedRegistered'
  BY <1>1, <1>6 DEF Parts, ReportCurrent, StatusesSuffice, AuthedRegistered
<1> QED
  BY <1>1, <1>5, <1>7 DEF Parts

LEMMA EraseStep ==
  ASSUME HubAssumption, Parts, clean_write
  PROVE  Parts'
<1>1. CASE list' = <<>> /\ app' = At("report") /\ UNCHANGED held
  <2>1. ListOK'
    BY <1>1 DEF ListOK, HubAssumption
  <2>2. \A e \in Devs : ~Passed(e)' /\ ~Listed(e)'
    BY <1>1 DEF Passed, Listed
  <2>3. Counted'
    <3>1. Unauthenticated' \subseteq Unauthenticated
      BY <2>2 DEF Unauthenticated
    <3> QED
      BY <3>1, CountKept DEF clean_write, Parts, RestOK
  <2>4. RestOK'
    BY <1>1 DEF clean_write, Parts, RestOK, At
  <2>5. ReportCurrent' /\ StatusesSuffice' /\ AuthedRegistered'
    BY <1>1, <2>2 DEF ReportCurrent, StatusesSuffice, AuthedRegistered, At
  <2> QED
    BY <2>1, <2>3, <2>4, <2>5 DEF Parts
<1>2. CASE held' = TRUE /\ app' = Idle /\ UNCHANGED list
  <2>1. /\ ListOK' /\ Counted' /\ Relation' = Relation
        /\ \A e \in Devs : (Passed(e)' <=> Passed(e)) /\ ItemOf(e)' = ItemOf(e)
    BY <1>2, FlashSame DEF clean_write
  <2>2. RestOK'
    BY <1>2 DEF clean_write, Parts, RestOK, Idle
  <2>3. app.at = "clear" /\ app'.at = "idle" /\ UNCHANGED <<yt, stale, plat, tsl>>
    BY <1>2 DEF clean_write, Idle
  <2>4. ReportCurrent' /\ StatusesSuffice' /\ AuthedRegistered'
    BY <1>2, <2>1, <2>3 DEF Parts, ReportCurrent, StatusesSuffice, AuthedRegistered
  <2> QED
    BY <2>1, <2>2, <2>4 DEF Parts
<1> QED
  BY <1>1, <1>2 DEF clean_write

\* The platform's list is of its type, whichever report it takes.
LEMMA RelationType ==
  ASSUME HubAssumption, Parts
  PROVE  /\ Relation \in [Devs -> [ver : Vers \cup {NoVer}, sta : BOOLEAN]]
         /\ Statuses \in [Devs -> [ver : Vers \cup {NoVer}, sta : BOOLEAN]]
<1>1. \A d \in Devs : Listed(d) => ItemOf(d) \in Item
  BY ItemType DEF Parts
<1>2. \A d \in Devs : Listed(d) => ItemOf(d).ver \in Vers /\ ItemOf(d).sta \in BOOLEAN
  BY <1>1 DEF Item
<1>3. Relation \in [Devs -> [ver : Vers \cup {NoVer}, sta : BOOLEAN]]
  BY <1>2 DEF Relation, Passed, ItemOf, Absent
<1>4. plat \in [Devs -> [ver : Vers \cup {NoVer}, sta : BOOLEAN]]
  BY DEF Parts, RestOK
<1>5. \A d \in Devs : Statuses[d] \in [ver : Vers \cup {NoVer}, sta : BOOLEAN]
  <2> SUFFICES ASSUME NEW d \in Devs
               PROVE  Statuses[d] \in [ver : Vers \cup {NoVer}, sta : BOOLEAN]
    OBVIOUS
  <2>1. plat[d] \in [ver : Vers \cup {NoVer}, sta : BOOLEAN]
    BY <1>4
  <2>2. CASE Listed(d) /\ plat[d] # Absent
    <3>1. Statuses[d] = [plat[d] EXCEPT !.sta = ItemOf(d).sta]
      BY <2>2 DEF Statuses, ItemOf
    <3>2. ItemOf(d).sta \in BOOLEAN
      BY <1>2, <2>2
    <3> QED
      BY <2>1, <3>1, <3>2
  <2>3. CASE ~(Listed(d) /\ plat[d] # Absent)
    BY <2>1, <2>3 DEF Statuses
  <2> QED
    BY <2>2, <2>3
<1>6. Statuses \in [Devs -> [ver : Vers \cup {NoVer}, sta : BOOLEAN]]
  BY <1>5 DEF Statuses
<1> QED
  BY <1>3, <1>6

\* A report of states is as good as a report of the list, as long as the
\* platform knows the devices and versions.
LEMMA StatusesAreRelation ==
  ASSUME HubAssumption, Parts, app.at = "sta_report", yt.at # "report", ~stale
  PROVE  Statuses = Relation
<1>1. \A d \in Devs : Statuses[d] = Relation[d]
  <2> SUFFICES ASSUME NEW d \in Devs
               PROVE  Statuses[d] = Relation[d]
    OBVIOUS
  <2>1. plat[d] \in [ver : Vers \cup {NoVer}, sta : BOOLEAN]
    BY DEF Parts, RestOK
  <2>2. CASE Passed(d)
    <3>1. plat[d].ver = ItemOf(d).ver
      BY <2>2 DEF Parts, StatusesSuffice, ItemOf
    <3>2. Listed(d)
      BY <2>2 DEF Passed
    <3>3. ItemOf(d) \in Item
      BY <3>2, ItemType DEF Parts
    <3>4. plat[d] # Absent
      BY <3>1, <3>3 DEF Item, Absent, HubAssumption
    <3>5. Statuses[d] = [plat[d] EXCEPT !.sta = ItemOf(d).sta]
      BY <3>2, <3>4 DEF Statuses, ItemOf
    <3>6. Relation[d] = [ver |-> ItemOf(d).ver, sta |-> ItemOf(d).sta]
      BY <2>2 DEF Relation, ItemOf
    <3> QED
      BY <2>1, <3>1, <3>5, <3>6
  <2>3. CASE ~Passed(d)
    <3>1. plat[d] = Absent
      BY <2>3 DEF Parts, StatusesSuffice
    <3> QED
      BY <2>3, <3>1 DEF Statuses, Relation
  <2> QED
    BY <2>2, <2>3
<1> QED
  BY <1>1 DEF Statuses, Relation

LEMMA AppReportStep ==
  ASSUME HubAssumption, Parts, app_reports
  PROVE  Parts'
<1>1. /\ ListOK' /\ Counted' /\ Relation' = Relation
      /\ \A e \in Devs : (Passed(e)' <=> Passed(e)) /\ ItemOf(e)' = ItemOf(e)
  BY FlashSame DEF app_reports, flash
<1>2. \/ plat' \in {Relation, Statuses} /\ stale' \in {FALSE, stale}
      \/ plat' = plat /\ stale' = TRUE
  BY DEF app_reports, hub_subdev_list_report, hub_subdev_sta_report
<1>3. RestOK'
  <2>1. plat' \in [Devs -> [ver : Vers \cup {NoVer}, sta : BOOLEAN]]
    BY <1>2, RelationType DEF Parts, RestOK
  <2>2. stale' \in BOOLEAN
    BY <1>2 DEF Parts, RestOK
  <2> QED
    BY <2>1, <2>2 DEF app_reports, flash, Parts, RestOK, Idle
<1>4. app' = Idle /\ UNCHANGED <<yt, tsl, held>>
  BY DEF app_reports, flash
<1>5. ReportCurrent'
  <2> SUFFICES ASSUME yt.at # "report", ~stale'
               PROVE  plat' = Relation
    BY <1>1, <1>4 DEF ReportCurrent
  <2>1. CASE app.at = "report" /\ hub_subdev_list_report
    BY <2>1 DEF hub_subdev_list_report
  <2>2. CASE app.at = "sta_report" /\ hub_subdev_sta_report
    BY <2>2, StatusesAreRelation DEF hub_subdev_sta_report
  <2> QED
    BY <2>1, <2>2 DEF app_reports
<1>6. StatusesSuffice'
  BY <1>4 DEF StatusesSuffice, Idle
<1>7. AuthedRegistered'
  <2>1. app.at \notin {"unreg", "clear"}
    BY DEF app_reports
  <2> QED
    BY <1>1, <1>4, <2>1 DEF AuthedRegistered, Parts
<1> QED
  BY <1>1, <1>3, <1>5, <1>6, <1>7 DEF Parts

LEMMA EventStep ==
  ASSUME HubAssumption, Parts, hub_extend_event_cb
  PROVE  Parts'
<1>1. /\ ListOK' /\ Counted' /\ Relation' = Relation
      /\ \A e \in Devs : (Passed(e)' <=> Passed(e)) /\ ItemOf(e)' = ItemOf(e)
  BY FlashSame DEF hub_extend_event_cb, flash
<1>2. RestOK'
  BY DEF hub_extend_event_cb, flash, Parts, RestOK, At
<1>3. yt'.at = "report" /\ UNCHANGED <<app, held, tsl>>
  BY DEF hub_extend_event_cb, flash, At
<1>4. ReportCurrent' /\ StatusesSuffice'
  BY <1>3 DEF ReportCurrent, StatusesSuffice
<1>5. AuthedRegistered'
  BY <1>1, <1>3 DEF AuthedRegistered, Parts
<1> QED
  BY <1>1, <1>2, <1>4, <1>5 DEF Parts

LEMMA YieldReportStep ==
  ASSUME HubAssumption, Parts, yt_reports
  PROVE  Parts'
<1>1. /\ ListOK' /\ Counted' /\ Relation' = Relation
      /\ \A e \in Devs : (Passed(e)' <=> Passed(e)) /\ ItemOf(e)' = ItemOf(e)
  BY FlashSame DEF yt_reports, flash
<1>2. \/ plat' = Relation /\ stale' = FALSE
      \/ plat' = plat /\ stale' = TRUE
  BY DEF yt_reports, hub_subdev_list_report
<1>3. RestOK'
  <2>1. plat' \in [Devs -> [ver : Vers \cup {NoVer}, sta : BOOLEAN]]
    BY <1>2, RelationType DEF Parts, RestOK
  <2>2. stale' \in BOOLEAN
    BY <1>2
  <2> QED
    BY <2>1, <2>2 DEF yt_reports, flash, Parts, RestOK, Idle
<1>4. ReportCurrent'
  BY <1>1, <1>2 DEF ReportCurrent
<1>5. StatusesSuffice'
  <2> SUFFICES ASSUME ~stale', NEW e \in Devs
               PROVE  IF Passed(e)' THEN plat'[e].ver = ItemOf(e)'.ver ELSE plat'[e] = Absent
    BY DEF StatusesSuffice, ItemOf
  <2>1. plat' = Relation
    BY <1>2
  <2>2. plat'[e] = IF Passed(e) THEN [ver |-> ItemOf(e).ver, sta |-> ItemOf(e).sta] ELSE Absent
    BY <2>1 DEF Relation, ItemOf
  <2> QED
    BY <1>1, <2>2
<1>6. AuthedRegistered'
  BY <1>1 DEF AuthedRegistered, Parts, yt_reports, flash
<1> QED
  BY <1>1, <1>3, <1>4, <1>5, <1>6 DEF Parts

\* A dropped answer changes the number of unanswered requests only.
LEMMA DroppedStep ==
  ASSUME HubAssumption, Parts, NEW d \in Devs, Answered(d), UNCHANGED <<list, tsl>>,
         yt' \in {yt, [at |-> "failure", dev |-> d]}
  PROVE  Parts'
<1>1. /\ ListOK' /\ Counted' /\ Relation' = Relation
      /\ \A e \in Devs : (Passed(e)' <=> Passed(e)) /\ ItemOf(e)' = ItemOf(e)
  BY FlashSame DEF Answered
<1>2. RestOK'
  <2>1. asked' \in [Devs -> 0..AskMax]
    BY DEF Answered, Parts, RestOK, HubAssumption
  <2> QED
    BY <2>1 DEF Answered, Parts, RestOK
<1>3. yt.at # "report" /\ yt'.at # "report"
  BY DEF Answered, Idle
<1>4. ReportCurrent'
  BY <1>1, <1>3 DEF ReportCurrent, Parts, Answered
<1>5. StatusesSuffice'
  BY <1>1, <1>3 DEF StatusesSuffice, Parts, Answered, ItemOf
<1>6. AuthedRegistered'
  BY <1>1 DEF AuthedRegistered, Parts, Answered
<1> QED
  BY <1>1, <1>2, <1>4, <1>5, <1>6 DEF Parts

LEMMA PassedStep ==
  ASSUME HubAssumption, Parts, NEW d \in Devs, hub_subdev_auth_passed(d)
  PROVE  Parts'
<1>1. CASE UNCHANGED <<list, tsl, yt>>
  BY <1>1, DroppedStep DEF hub_subdev_auth_passed
<1>2. CASE /\ Listed(d) /\ list' = [list EXCEPT ![Index(d)].access = TRUE]
           /\ tsl' = TslReg(tsl, d, list[Index(d)].ver)
           /\ yt' = At("report")
  <2> DEFINE item == [ItemOf(d) EXCEPT !.access = TRUE]
  <2>1. Listed(d) /\ ItemOf(d) \in Item /\ ItemOf(d).sn = d
    BY <1>2, ItemType DEF Parts
  <2>2. item \in Item /\ item.sn = d /\ item.access = TRUE
    BY <2>1 DEF Item
  <2>3. list' = [list EXCEPT ![Index(d)] = item]
    BY <1>2 DEF ItemOf
  <2> HIDE DEF item
  <2>4. /\ ListOK' /\ ItemOf(d)' = item
        /\ \A e \in Devs : Listed(e)' <=> Listed(e)
        /\ \A e \in Devs : Listed(e) /\ e # d => ItemOf(e)' = ItemOf(e)
    BY <2>1, <2>2, <2>3, Changing DEF Parts
  <2>5. \A e \in Devs : Passed(e)' <=> Passed(e) \/ e = d
    BY <2>1, <2>2, <2>4 DEF Passed, ItemOf
  <2>6. UNCHANGED <<held, unauth, plat, stale, app, tm, adds, upds>>
    BY DEF hub_subdev_auth_passed, Answered
  <2>7. Counted'
    <3>1. Unauthenticated' \subseteq Unauthenticated
      BY <2>4, <2>5 DEF Unauthenticated
    <3> QED
      BY <2>6, <3>1, CountKept DEF Parts, RestOK
  <2>8. /\ tsl' \in [Devs -> Vers \cup {NoVer}]
        /\ tsl'[d] # NoVer /\ \A e \in Devs : e # d => tsl'[e] = tsl[e]
    <3>1. tsl \in [Devs -> Vers \cup {NoVer}]
      BY DEF Parts, RestOK
    <3>2. list[Index(d)].ver \in Vers /\ NoVer \notin Vers
      BY <2>1 DEF ItemOf, Item, HubAssumption
    <3> QED
      BY <1>2, <3>1, <3>2 DEF TslReg
  <2>9. RestOK'
    <3>1. asked' \in [Devs -> 0..AskMax]
      BY DEF hub_subdev_auth_passed, Answered, Parts, RestOK, HubAssumption
    <3> QED
      BY <1>2, <2>6, <2>8, <3>1 DEF Parts, RestOK, At
  <2>10. ReportCurrent' /\ StatusesSuffice'
    BY <1>2 DEF ReportCurrent, StatusesSuffice, At
  <2>11. AuthedRegistered'
    BY <2>5, <2>6, <2>8 DEF AuthedRegistered, Parts
  <2> QED
    BY <2>4, <2>7, <2>9, <2>10, <2>11 DEF Parts
<1> QED
  BY <1>1, <1>2 DEF hub_subdev_auth_passed

LEMMA FailureStep ==
  ASSUME HubAssumption, Parts, NEW d \in Devs, hub_subdev_auth_failure(d)
  PROVE  Parts'
BY DroppedStep DEF hub_subdev_auth_failure

LEMMA FailureDeletesStep ==
  ASSUME HubAssumption, Parts, failure_deletes
  PROVE  Parts'
<1>1. CASE Listed(yt.dev) /\ Deletes(yt.dev) /\ yt' = At("report")
  <2>1. /\ ListOK' /\ Counted' /\ unauth' \in Nat
        /\ tsl' \in [Devs -> Vers \cup {NoVer}]
        /\ \A e \in Devs : Passed(e)' => Passed(e) /\ tsl'[e] = tsl[e]
    BY <1>1, Deleting
  <2>2. UNCHANGED <<held, asked, plat, stale, adds, upds, app, tm>>
    BY <1>1 DEF failure_deletes, Deletes
  <2>3. RestOK'
    BY <1>1, <2>1, <2>2 DEF Parts, RestOK, At
  <2>4. ReportCurrent' /\ StatusesSuffice'
    BY <1>1 DEF ReportCurrent, StatusesSuffice, At
  <2>5. AuthedRegistered'
    BY <2>1, <2>2 DEF AuthedRegistered, Parts
  <2> QED
    BY <2>1, <2>3, <2>4, <2>5 DEF Parts
<1>2. CASE yt' = Idle /\ UNCHANGED <<flash, tsl, asked, plat, stale, adds, upds>>
  <2>1. /\ ListOK' /\ Counted' /\ Relation' = Relation
        /\ \A e \in Devs : (Passed(e)' <=> Passed(e)) /\ ItemOf(e)' = ItemOf(e)
    BY <1>2, FlashSame DEF flash
  <2>2. yt.at = "failure" /\ UNCHANGED <<app, tm>>
    BY DEF failure_deletes
  <2>3. RestOK'
    BY <1>2, <2>2 DEF flash, Parts, RestOK, Idle
  <2>4. ReportCurrent'
    BY <1>2, <2>1, <2>2 DEF ReportCurrent, Parts
  <2>5. StatusesSuffice'
    BY <1>2, <2>1, <2>2 DEF StatusesSuffice, Parts, ItemOf
  <2>6. AuthedRegistered'
    BY <1>2, <2>1, <2>2 DEF AuthedRegistered, Parts, flash
  <2> QED
    BY <2>1, <2>3, <2>4, <2>5, <2>6 DEF Parts
<1> QED
  BY <1>1, <1>2 DEF failure_deletes

\* The timer thread touches nothing but its own place and the requests.
LEMMA TimerStep ==
  ASSUME HubAssumption, Parts, TimerThread
  PROVE  Parts'
<1>1. UNCHANGED <<flash, tsl, plat, stale, app, yt, adds, upds>>
  BY DEF TimerThread, auth_retry_timer_cb, retry_next
<1>2. /\ ListOK' /\ Counted' /\ Relation' = Relation
      /\ \A e \in Devs : (Passed(e)' <=> Passed(e)) /\ ItemOf(e)' = ItemOf(e)
  BY <1>1, FlashSame DEF flash
<1>3. RestOK'
  <2>1. CASE auth_retry_timer_cb
    BY <1>1, <2>1 DEF auth_retry_timer_cb, flash, Parts, RestOK, At
  <2>2. CASE retry_next
    <3>1. PICK d \in Devs \cup {NoDev} : d = NextDev(tm.dev)
      BY NextType DEF Parts
    <3>2. \/ d # NoDev /\ tm' = [at |-> "retry", dev |-> d]
          \/ tm' = At("over")
      BY <2>2, <3>1 DEF retry_next
    <3>3. asked' \in [Devs -> 0..AskMax]
      <4>1. asked \in [Devs -> 0..AskMax]
        BY DEF Parts, RestOK
      <4>2. \/ UNCHANGED asked
            \/ d \in Devs /\ hub_subdev_auth_do(d)
        BY <2>2, <3>1 DEF retry_next
      <4> QED
        BY <4>1, <4>2, AuthDoType DEF Parts
    <3> QED
      BY <1>1, <3>2, <3>3 DEF flash, Parts, RestOK, At
  <2> QED
    BY <2>1, <2>2 DEF TimerThread
<1>4. ReportCurrent'
  BY <1>1, <1>2 DEF ReportCurrent, Parts
<1>5. StatusesSuffice'
  BY <1>1, <1>2 DEF StatusesSuffice, Parts, ItemOf
<1>6. AuthedRegistered'
  BY <1>1, <1>2 DEF AuthedRegistered, Parts, flash
<1> QED
  BY <1>2, <1>3, <1>4, <1>5, <1>6 DEF Parts

\* After a restart the counter is exact and everything authenticated is
\* registered again.
LEMMA RestartStep ==
  ASSUME HubAssumption, Parts, hub_func_init
  PROVE  Parts'
<1>1. /\ ListOK' /\ Unauthenticated' = Unauthenticated
      /\ \A e \in Devs : Passed(e)' <=> Passed(e)
  BY ListSame DEF hub_func_init, Parts
<1>2. unauth' \in Nat /\ Counted'
  BY <1>1, FS_CardinalityType DEF hub_func_init, Parts, Counted, CountCovers
<1>3. \A e \in Devs : Passed(e) => list[Index(e)].ver \in Vers
  <2>1. \A e \in Devs : Passed(e) => ItemOf(e) \in Item
    BY ItemType DEF Parts, Passed
  <2> QED
    BY <2>1 DEF ItemOf, Item
<1>4. RestOK'
  BY <1>2, <1>3 DEF hub_func_init, Parts, RestOK, Idle, At
<1>5. ReportCurrent' /\ StatusesSuffice'
  BY DEF hub_func_init, ReportCurrent, StatusesSuffice
<1>6. AuthedRegistered'
  BY <1>1, <1>3 DEF hub_func_init, AuthedRegistered, HubAssumption
<1> QED
  BY <1>1, <1>2, <1>4, <1>5, <1>6 DEF Parts

LEMMA HubStutter ==
  ASSUME Parts, UNCHANGED vars
  PROVE  Parts'
<1>1. /\ ListOK' /\ Counted' /\ Relation' = Relation
      /\ \A e \in Devs : (Passed(e)' <=> Passed(e)) /\ ItemOf(e)' = ItemOf(e)
  BY FlashSame DEF vars, flash
<1>2. RestOK'
  BY DEF vars, flash, threads, Parts, RestOK
<1>3. ReportCurrent'
  BY <1>1 DEF vars, threads, ReportCurrent, Parts
<1>4. StatusesSuffice'
  BY <1>1 DEF vars, threads, StatusesSuffice, Parts, ItemOf
<1>5. AuthedRegistered'
  BY <1>1 DEF vars, threads, flash, AuthedRegistered, Parts
<1> QED
  BY <1>1, <1>2, <1>3, <1>4, <1>5 DEF Parts

-----------------------------------------------------------------------------

LEMMA HubInit == Init => Parts
<1> SUFFICES ASSUME Init
             PROVE  Parts
  OBVIOUS
<1>1. ListOK
  BY HubAssumption DEF Init, ListOK, HubAssumption
<1>2. \A d \in Devs : ~Listed(d) /\ ~Passed(d)
  BY DEF Init, Listed, Passed
<1>3. RestOK
  <2>1. 0 \in 0..AskMax /\ 0 \in 0..AddMax /\ 0 \in 0..UpdMax
    BY HubAssumption DEF HubAssumption
  <2>2. /\ tsl \in [Devs -> Vers \cup {NoVer}] /\ asked \in [Devs -> 0..AskMax]
        /\ plat \in [Devs -> [ver : Vers \cup {NoVer}, sta : BOOLEAN]]
    BY <2>1 DEF Init, Absent
  <2> QED
    BY <2>1, <2>2 DEF Init, RestOK, Idle, At
<1>4. Unauthenticated = {}
  BY <1>2 DEF Unauthenticated
<1>5. Counted
  BY <1>4, FS_EmptySet DEF Counted, CountCovers, Init
<1>6. ReportCurrent /\ StatusesSuffice /\ AuthedRegistered
  BY <1>2 DEF Init, ReportCurrent, StatusesSuffice, AuthedRegistered
<1> QED
  BY <1>1, <1>3, <1>5, <1>6 DEF Parts

LEMMA HubInductive == Parts /\ [Next]_vars => Parts'
<1> SUFFICES ASSUME Parts, [Next]_vars
             PROVE  Parts'
  OBVIOUS
<1> USE HubAssumption
<1>1. CASE HubCall
  BY <1>1, AddStep, DeleteStep, VersionStep, StatusStep, CleanStep DEF HubCall
<1>2. CASE CallGoesOn
  BY <1>2, UnregStep, EraseStep, AppReportStep DEF CallGoesOn
<1>3. CASE hub_extend_event_cb
  BY <1>3, EventStep
<1>4. CASE Answers
  BY <1>4, PassedStep, FailureStep DEF Answers
<1>5. CASE YieldGoesOn
  BY <1>5, YieldReportStep, FailureDeletesStep DEF YieldGoesOn
<1>6. CASE TimerThread
  BY <1>6, TimerStep
<1>7. CASE hub_func_init
  BY <1>7, RestartStep
<1>8. CASE UNCHANGED vars
  BY <1>8, HubStutter
<1> QED
  BY <1>1, <1>2, <1>3, <1>4, <1>5, <1>6, <1>7, <1>8 DEF Next

\* HubInv holds in every reachable state.
THEOREM HubInvariant == HubSpec => []HubInv
<1>1. HubSpec => []Parts
  BY HubInit, HubInductive, PTL DEF HubSpec
<1> QED
  BY <1>1, InvParts, PTL

\* The list stays within COMPONENT_HUB_SUBLIST_MAX and names no device twice,
\* and g_unauth_count does not go below zero.
THEOREM HubTypes == HubSpec => []HubTypeOK
<1>1. HubInv => HubTypeOK
  BY DEF HubInv
<1> QED
  BY <1>1, HubInvariant, PTL

\* When all is reported and no report was lost, the platform's list is the
\* list of authenticated devices, in whichever order the threads reported.
THEOREM PlatformIsCurrent == HubSpec => []ReportCurrent
<1>1. HubInv => ReportCurrent
  BY DEF HubInv
<1> QED
  BY <1>1, HubInvariant, PTL

\* An authenticated device is registered with the thing model, but during
\* and after a failed hub_clean_do.
THEOREM AuthenticatedAreRegistered == HubSpec => []AuthedRegistered
<1>1. HubInv => AuthedRegistered
  BY DEF HubInv
<1> QED
  BY <1>1, HubInvariant, PTL

\* The timer's callback does not skip its retry while a device waits for its
\* authentication.
THEOREM RetryNotSkipped == HubSpec => []CountCovers
<1>1. HubInv => CountCovers
  BY DEF HubInv
<1> QED
  BY <1>1, HubInvariant, PTL
=============================================================================
