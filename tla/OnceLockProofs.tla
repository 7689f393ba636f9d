--------------------------- MODULE OnceLockProofs ----------------------------
(***************************************************************************)
(* Theorems about module OnceLock for every set of threads: one table is   *)
(* built, every reference is valid, and the lock implements module Once.   *)
(***************************************************************************)
EXTENDS OnceLock, TLAPS

PCs == {"idle", "compare_exchange", "init", "store_ptr", "store_ready", "spin", "get_ready", "use"}

StateStore == [val : {UNINIT, INITING, READY}, view : View]

PtrStore == [val : Threads \cup {Null}, view : View]

TypeOK ==
    /\ stores \in [state : Seq(StateStore), ptr : Seq(PtrStore)]
    /\ view \in [Threads -> View]
    /\ pc \in [Threads -> PCs]
    /\ got \in [Threads -> Threads \cup {Null}]

\* The state goes through its three values once.
StateHistory ==
    /\ Len(stores.state) \in 1..3
    /\ stores.state[1].val = UNINIT
    /\ Len(stores.state) >= 2 => stores.state[2].val = INITING
    /\ Len(stores.state) = 3 => stores.state[3].val = READY

\* The pointer is stored once, after the state has left UNINIT.
PtrHistory ==
    /\ Len(stores.ptr) \in 1..2
    /\ stores.ptr[1].val = Null
    /\ Len(stores.ptr) = 2 => stores.ptr[2].val \in Threads /\ Len(stores.state) >= 2

\* The thread whose exchange succeeded, while it builds the table.
Builders == {t \in Threads : pc[t] \in {"init", "store_ptr", "store_ready"}}

\* The thread whose table is built: it has yet to publish it, or has.
Owner ==
    {t \in Threads : pc[t] \in {"store_ptr", "store_ready"}}
      \cup {stores.ptr[i].val : i \in {2} \cap DOMAIN stores.ptr}

\* Nobody knows of any other table.
TablesOwned ==
    /\ \A t \in Threads : view[t].tables \subseteq Owner
    /\ \A i \in DOMAIN stores.state : stores.state[i].view.tables \subseteq Owner
    /\ \A i \in DOMAIN stores.ptr : stores.ptr[i].view.tables \subseteq Owner

\* One thread builds, and how far it is decides what is published.
OneBuilder ==
    /\ \A t, u \in Builders : t = u
    /\ \A t \in Builders :
         /\ Len(stores.state) = 2
         /\ Len(stores.ptr) = IF pc[t] = "store_ready" THEN 2 ELSE 1
         /\ pc[t] # "init" => t \in view[t].tables
         /\ pc[t] = "store_ready" => stores.ptr[2].val = t /\ view[t].ptr >= 2

\* Before the exchange no call is past it.
NotStarted ==
    Len(stores.state) = 1 => \A t \in Threads : pc[t] \in {"idle", "compare_exchange"}

\* A view that comes with READY: of the pointer's store and of the table.
KnowsTable(v) ==
    /\ Len(stores.ptr) = 2
    /\ v.ptr >= 2
    /\ stores.ptr[2].val \in v.tables

ReadyCarriesTable ==
    Len(stores.state) = 3 => KnowsTable(stores.state[3].view)

\* What a thread that saw READY, and one that has its reference, knows.
ReadersKnow ==
    \A t \in Threads :
      /\ pc[t] \in {"get_ready", "use"} => Len(stores.state) = 3 /\ KnowsTable(view[t])
      /\ got[t] = IF pc[t] = "use" THEN stores.ptr[2].val ELSE Null

IInv ==
    /\ TypeOK
    /\ StateHistory
    /\ PtrHistory
    /\ TablesOwned
    /\ OneBuilder
    /\ NotStarted
    /\ ReadyCarriesTable
    /\ ReadersKnow

-----------------------------------------------------------------------------
(* Views.                                                                  *)

(* Joining views forgets nothing and adds only what one of them knows.     *)
LEMMA JoinGrows ==
    ASSUME NEW v \in View, NEW w \in View
    PROVE  /\ Join(v, w) \in View
           /\ Join(v, w).ptr >= v.ptr /\ Join(v, w).ptr >= w.ptr
           /\ Join(v, w).tables = v.tables \cup w.tables
BY DEF Join, Later, View

(* An Acquire load of the state adds to what the thread knows exactly what *)
(* came with the store it returned (once.rs:35, 40, 50).                   *)
LEMMA AcquiredState ==
    ASSUME TypeOK, NEW t \in Threads, NEW i \in DOMAIN stores.state
    PROVE  /\ stores.state[i] \in StateStore
           /\ Acquired(t, "state", i) \in View
           /\ Acquired(t, "state", i).ptr >= view[t].ptr
           /\ Acquired(t, "state", i).ptr >= stores.state[i].view.ptr
           /\ Acquired(t, "state", i).tables
                = view[t].tables \cup stores.state[i].view.tables
<1>1. i \in 1..Len(stores.state) /\ stores.state \in Seq(StateStore)
  BY DEF TypeOK
<1>2. stores.state[i] \in StateStore
  BY <1>1
<1>3. view[t] \in View /\ stores.state[i].view \in View
  BY <1>2 DEF TypeOK, StateStore
<1> DEFINE v == [view[t] EXCEPT !["state"] = i]
<1>4. v \in View /\ v.ptr = view[t].ptr /\ v.tables = view[t].tables
  BY <1>1, <1>3 DEF View
<1>5. Acquired(t, "state", i) = Join(v, stores.state[i].view)
  BY DEF Acquired
<1> HIDE DEF v
<1> QED BY <1>2, <1>3, <1>4, <1>5, JoinGrows

(* The same for the load of the pointer (once.rs:57).                      *)
LEMMA AcquiredPtr ==
    ASSUME TypeOK, NEW t \in Threads, NEW i \in Visible(t, "ptr")
    PROVE  /\ stores.ptr[i] \in PtrStore
           /\ Acquired(t, "ptr", i) \in View
           /\ Acquired(t, "ptr", i).ptr >= view[t].ptr
           /\ Acquired(t, "ptr", i).tables = view[t].tables \cup stores.ptr[i].view.tables
<1>1. /\ i \in DOMAIN stores.ptr /\ i \in 1..Len(stores.ptr) /\ view[t].ptr <= i
      /\ stores.ptr \in Seq(PtrStore)
  BY DEF TypeOK, Visible
<1>2. stores.ptr[i] \in PtrStore
  BY <1>1
<1>3. view[t] \in View /\ stores.ptr[i].view \in View
  BY <1>2 DEF TypeOK, PtrStore
<1> DEFINE v == [view[t] EXCEPT !["ptr"] = i]
<1>4. v \in View /\ v.ptr >= view[t].ptr /\ v.tables = view[t].tables
  BY <1>1, <1>3 DEF View
<1>5. Acquired(t, "ptr", i) = Join(v, stores.ptr[i].view)
  BY DEF Acquired
<1> HIDE DEF v
<1>6. Join(v, stores.ptr[i].view).ptr >= view[t].ptr
  <2>1. /\ v.ptr \in Nat /\ view[t].ptr \in Nat /\ Join(v, stores.ptr[i].view).ptr \in Nat
        /\ Join(v, stores.ptr[i].view).ptr >= v.ptr
    BY <1>3, <1>4, JoinGrows DEF View
  <2> QED BY <2>1, <1>4
<1> QED BY <1>2, <1>3, <1>4, <1>5, <1>6, JoinGrows

(* What a thread may know after it loaded a store of the state that tells  *)
(* it to go to a place outside the builder's: only the owner's table, and  *)
(* if the store is READY that table and its pointer (once.rs:35-54).       *)
LEMMA LearnedState ==
    ASSUME IInv, NEW t \in Threads, NEW i \in DOMAIN stores.state
    PROVE  /\ Acquired(t, "state", i) \in View
           /\ Acquired(t, "state", i).tables \subseteq Owner
           /\ i = 1 => stores.state[i].val = UNINIT
           /\ i = 2 => stores.state[i].val = INITING
           /\ i \in 1..3
           /\ stores.state[i].val = READY =>
                /\ Len(stores.state) = 3
                /\ KnowsTable(Acquired(t, "state", i))
<1> DEFINE a == Acquired(t, "state", i)
           s == stores.state[i]
<1>1. /\ s \in StateStore /\ a \in View /\ a.ptr >= s.view.ptr
      /\ a.tables = view[t].tables \cup s.view.tables
  BY AcquiredState DEF IInv
<1>2. i \in 1..Len(stores.state) /\ i \in 1..3
  BY DEF IInv, TypeOK, StateHistory
<1>3. a.tables \subseteq Owner
  BY <1>1, <1>2 DEF IInv, TablesOwned
<1>4. /\ i = 1 => s.val = UNINIT
      /\ i = 2 => s.val = INITING
  BY <1>2 DEF IInv, StateHistory
<1>5. ASSUME s.val = READY
      PROVE  Len(stores.state) = 3 /\ KnowsTable(a)
  <2>1. i = 3 /\ Len(stores.state) = 3
    BY <1>2, <1>4, <1>5 DEF IInv, StateHistory, UNINIT, INITING, READY
  <2>2. KnowsTable(s.view)
    BY <2>1 DEF IInv, ReadyCarriesTable
  <2>3. a.ptr \in Nat /\ s.view.ptr \in Nat
    BY <1>1 DEF View, StateStore
  <2>4. a.ptr >= 2
    BY <1>1, <2>2, <2>3 DEF KnowsTable
  <2> QED BY <1>1, <2>1, <2>2, <2>4 DEF KnowsTable
<1> QED BY <1>1, <1>2, <1>3, <1>4, <1>5

-----------------------------------------------------------------------------
(* The steps.                                                              *)

(* A thread that only loads, and stays outside the builder's places,       *)
(* keeps the invariant; what it learned must fit where it goes.            *)
LEMMA Loading ==
    ASSUME IInv, NEW t \in Threads, NEW a \in View, NEW next,
           a.tables \subseteq Owner,
           pc[t] \in {"idle", "compare_exchange", "spin"},
           next \in {"compare_exchange", "spin", "get_ready"},
           Len(stores.state) = 1 => next = "compare_exchange",
           next = "get_ready" => Len(stores.state) = 3 /\ KnowsTable(a),
           view' = [view EXCEPT ![t] = a],
           pc' = [pc EXCEPT ![t] = next],
           UNCHANGED <<stores, got>>
    PROVE  IInv'
<1>1. TypeOK'
  BY DEF IInv, TypeOK, PCs
<1>2. StateHistory' /\ PtrHistory'
  BY DEF IInv, StateHistory, PtrHistory
<1>3. Builders' = Builders /\ t \notin Builders
  BY DEF IInv, TypeOK, Builders
<1>4. Owner' = Owner
  BY DEF IInv, TypeOK, Owner
<1>5. TablesOwned'
  BY <1>4 DEF IInv, TypeOK, TablesOwned
<1>6. OneBuilder'
  BY <1>3 DEF IInv, TypeOK, OneBuilder, Builders
<1>7. NotStarted'
  BY DEF IInv, TypeOK, NotStarted
<1>8. ReadyCarriesTable'
  BY DEF IInv, ReadyCarriesTable, KnowsTable
<1>9. ReadersKnow'
  BY DEF IInv, TypeOK, ReadersKnow, KnowsTable
<1> QED BY <1>1, <1>2, <1>5, <1>6, <1>7, <1>8, <1>9 DEF IInv

(* Loads of the state before the exchange and in the spin loop.            *)
LEMMA LoadKeeps ==
    ASSUME IInv, NEW t \in Threads, NEW i, NEW here, NEW otherwise,
           \/ here = "idle" /\ otherwise = "compare_exchange"
           \/ here = "spin" /\ otherwise = "spin",
           LoadState(t, here, i, otherwise)
    PROVE  IInv'
<1> DEFINE next == IF stores.state[i].val = READY THEN "get_ready" ELSE otherwise
<1>1. /\ i \in DOMAIN stores.state /\ pc[t] = here
      /\ view' = [view EXCEPT ![t] = Acquired(t, "state", i)]
      /\ pc' = [pc EXCEPT ![t] = next]
      /\ UNCHANGED <<stores, got>>
  BY DEF LoadState, At, Visible
<1>2. Len(stores.state) = 1 => next = "compare_exchange"
  BY <1>1, LearnedState DEF IInv, NotStarted
<1>3. next = "get_ready" => Len(stores.state) = 3 /\ KnowsTable(Acquired(t, "state", i))
  BY <1>1, LearnedState
<1>4. Acquired(t, "state", i) \in View /\ Acquired(t, "state", i).tables \subseteq Owner
  BY <1>1, LearnedState
<1>5. /\ pc[t] \in {"idle", "compare_exchange", "spin"}
      /\ next \in {"compare_exchange", "spin", "get_ready"}
  BY <1>1
<1> HIDE DEF next
<1> QED BY <1>1, <1>2, <1>3, <1>4, <1>5, Loading
(* A failed exchange is such a load too: its store is not UNINIT, so some  *)
(* thread has exchanged already (once.rs:39-43, 49).                       *)
LEMMA FailedExchangeKeeps ==
    ASSUME IInv, NEW t \in Threads, NEW i \in DOMAIN stores.state,
           stores.state[i].val # UNINIT,
           At(t, "compare_exchange", "spin"),
           view' = [view EXCEPT ![t] = Acquired(t, "state", i)],
           UNCHANGED <<stores, got>>
    PROVE  IInv'
<1>1. Len(stores.state) # 1
  BY LearnedState
<1>2. Acquired(t, "state", i) \in View /\ Acquired(t, "state", i).tables \subseteq Owner
  BY LearnedState
<1>3. pc[t] = "compare_exchange" /\ pc' = [pc EXCEPT ![t] = "spin"]
  BY DEF At
<1> QED BY <1>1, <1>2, <1>3, Loading

(* The exchange that succeeds found the first store the last one; its      *)
(* thread becomes the only builder (once.rs:39-43).                        *)
LEMMA ExchangeKeeps ==
    ASSUME IInv, NEW t \in Threads, NEW i \in Exchangeable(t),
           At(t, "compare_exchange", "init"),
           Released(t, "state", Acquired(t, "state", i), INITING),
           UNCHANGED got
    PROVE  IInv'
<1> DEFINE a == Acquired(t, "state", i)
           w == [a EXCEPT !["state"] = Len(stores.state) + 1]
           new == [val |-> INITING, view |-> w]
<1>1. /\ stores.state \in Seq(StateStore) /\ stores.ptr \in Seq(PtrStore)
      /\ stores = [state |-> stores.state, ptr |-> stores.ptr]
  BY DEF IInv, TypeOK
<1>2. i = 1 /\ Len(stores.state) = 1
  <2>1. i = Len(stores.state) /\ stores.state[i].val = UNINIT
    BY DEF Exchangeable
  <2>2. StateHistory
    BY DEF IInv
  <2>3. CASE Len(stores.state) = 1
    BY <2>1, <2>3
  <2>4. CASE Len(stores.state) = 2
    BY <2>1, <2>2, <2>4 DEF StateHistory, UNINIT, INITING
  <2>5. CASE Len(stores.state) = 3
    BY <2>1, <2>2, <2>5 DEF StateHistory, UNINIT, READY
  <2> QED BY <2>2, <2>3, <2>4, <2>5 DEF StateHistory
<1>3. /\ Len(stores.ptr) = 1 /\ Builders = {} /\ Owner = {}
      /\ pc[t] = "compare_exchange"
  <2>1. Len(stores.ptr) = 1
    BY <1>2 DEF IInv, PtrHistory
  <2>2. \A u \in Threads : pc[u] \in {"idle", "compare_exchange"}
    BY <1>2 DEF IInv, NotStarted
  <2>3. {2} \cap DOMAIN stores.ptr = {}
    BY <1>1, <2>1
  <2> QED BY <2>1, <2>2, <2>3 DEF Builders, Owner, At
<1>4. a \in View /\ a.tables = {}
  BY <1>1, <1>2, <1>3, LearnedState
<1>5. w \in View /\ w.tables = {}
  BY <1>1, <1>2, <1>4 DEF View
<1> HIDE DEF a
<1>6. /\ stores' = [stores EXCEPT !["state"] = Append(@, new)]
      /\ view' = [view EXCEPT ![t] = w]
      /\ pc' = [pc EXCEPT ![t] = "init"]
      /\ got' = got
  BY DEF Released, At, a
<1> HIDE DEF w
<1>7. /\ stores'.ptr = stores.ptr
      /\ stores'.state = Append(stores.state, new)
      /\ stores' = [state |-> stores'.state, ptr |-> stores'.ptr]
  BY <1>1, <1>6
<1>8. new \in StateStore
  BY <1>5 DEF StateStore
<1>9. /\ Len(stores'.state) = 2 /\ stores'.state \in Seq(StateStore)
      /\ stores'.state[1] = stores.state[1] /\ stores'.state[2] = new
  BY <1>1, <1>2, <1>7, <1>8
<1>10. TypeOK'
  BY <1>1, <1>5, <1>6, <1>7, <1>9 DEF IInv, TypeOK, PCs
<1>11. StateHistory' /\ PtrHistory'
  BY <1>7, <1>9 DEF IInv, StateHistory, PtrHistory
<1>12. Owner' = {}
  BY <1>3, <1>6, <1>7 DEF IInv, TypeOK, Owner
<1>13. TablesOwned'
  <2>1. \A u \in Threads : view'[u].tables \subseteq {}
    BY <1>3, <1>5, <1>6 DEF IInv, TypeOK, TablesOwned
  <2>2. \A j \in DOMAIN stores'.state : stores'.state[j].view.tables \subseteq {}
    BY <1>1, <1>2, <1>3, <1>5, <1>9 DEF IInv, TablesOwned
  <2>3. \A j \in DOMAIN stores'.ptr : stores'.ptr[j].view.tables \subseteq {}
    BY <1>3, <1>7 DEF IInv, TablesOwned
  <2> QED BY <1>12, <2>1, <2>2, <2>3 DEF TablesOwned
<1>14. OneBuilder'
  <2>1. Builders' = {t}
    BY <1>3, <1>6 DEF IInv, TypeOK, Builders
  <2> QED BY <1>3, <1>6, <1>7, <1>9, <2>1 DEF IInv, TypeOK, OneBuilder
<1>15. NotStarted' /\ ReadyCarriesTable'
  BY <1>9 DEF NotStarted, ReadyCarriesTable
<1>16. ReadersKnow'
  <2>1. \A u \in Threads : pc[u] \in {"idle", "compare_exchange"} /\ got[u] = Null
    BY <1>2 DEF IInv, NotStarted, ReadersKnow
  <2> QED BY <1>6, <2>1 DEF IInv, TypeOK, ReadersKnow
<1> QED
  BY <1>10, <1>11, <1>13, <1>14, <1>15, <1>16 DEF IInv
(* Filling the table makes the builder its owner (once.rs:44).             *)
LEMMA InitTableKeeps ==
    ASSUME IInv, NEW t \in Threads, InitTable(t)
    PROVE  IInv'
<1>1. /\ pc[t] = "init" /\ pc' = [pc EXCEPT ![t] = "store_ptr"]
      /\ view' = [view EXCEPT ![t].tables = @ \cup {t}]
      /\ stores' = stores /\ got' = got
  BY DEF InitTable, At
<1>2. /\ t \in Builders /\ Len(stores.state) = 2 /\ Len(stores.ptr) = 1
      /\ \A u \in Builders : u = t
  BY <1>1 DEF IInv, OneBuilder, Builders
<1>3. Owner = {} /\ Owner' = {t}
  <2>1. {2} \cap DOMAIN stores.ptr = {}
    BY <1>2 DEF IInv, TypeOK
  <2>2. \A u \in Threads : pc[u] \notin {"store_ptr", "store_ready"}
    BY <1>1, <1>2 DEF Builders
  <2>3. \A u \in Threads : pc'[u] \in {"store_ptr", "store_ready"} <=> u = t
    BY <1>1, <2>2 DEF IInv, TypeOK
  <2> QED BY <1>1, <2>1, <2>2, <2>3 DEF Owner
<1>4. /\ view'[t] \in View /\ view'[t].tables = view[t].tables \cup {t}
      /\ \A u \in Threads \ {t} : view'[u] = view[u]
  <2>1. view \in [Threads -> View] /\ view[t] \in View
    BY DEF IInv, TypeOK
  <2>2. view'[t] = [view[t] EXCEPT !.tables = @ \cup {t}]
    BY <1>1, <2>1
  <2>3. \A u \in Threads \ {t} : view'[u] = view[u]
    BY <1>1, <2>1
  <2> QED BY <2>1, <2>2, <2>3 DEF View
<1>5. TypeOK'
  <2>1. view' \in [Threads -> View]
    BY <1>1, <1>4 DEF IInv, TypeOK
  <2> QED BY <1>1, <2>1 DEF IInv, TypeOK, PCs
<1>6. StateHistory' /\ PtrHistory'
  BY <1>1 DEF IInv, StateHistory, PtrHistory
<1>7. TablesOwned'
  BY <1>1, <1>3, <1>4 DEF IInv, TablesOwned
<1>8. OneBuilder'
  <2>1. Builders' = {t}
    BY <1>1, <1>2 DEF IInv, TypeOK, Builders
  <2> QED BY <1>1, <1>2, <1>4, <2>1 DEF IInv, TypeOK, OneBuilder
<1>9. NotStarted' /\ ReadyCarriesTable'
  BY <1>1, <1>2 DEF NotStarted, ReadyCarriesTable
<1>10. ReadersKnow'
  <2>1. \A u \in Threads : pc[u] \notin {"get_ready", "use"} /\ got[u] = Null
    BY <1>2 DEF IInv, ReadersKnow
  <2> QED BY <1>1, <2>1 DEF IInv, TypeOK, ReadersKnow
<1> QED
  BY <1>5, <1>6, <1>7, <1>8, <1>9, <1>10 DEF IInv

(* Publishing the pointer: the Release store carries the table along       *)
(* (once.rs:45).                                                           *)
LEMMA StorePtrKeeps ==
    ASSUME IInv, NEW t \in Threads, StorePtr(t)
    PROVE  IInv'
<1> DEFINE w == [view[t] EXCEPT !["ptr"] = Len(stores.ptr) + 1]
           new == [val |-> t, view |-> w]
<1>1. /\ stores.state \in Seq(StateStore) /\ stores.ptr \in Seq(PtrStore)
      /\ stores = [state |-> stores.state, ptr |-> stores.ptr]
  BY DEF IInv, TypeOK
<1>2. pc[t] = "store_ptr" /\ t \in Builders
  BY DEF StorePtr, At, Builders
<1>3. /\ Len(stores.state) = 2 /\ Len(stores.ptr) = 1
      /\ \A u \in Builders : u = t
      /\ t \in view[t].tables
  BY <1>2 DEF IInv, OneBuilder
<1>4. w \in View /\ w.ptr = 2 /\ w.tables = view[t].tables
  <2>1. view[t] \in View /\ Len(stores.ptr) + 1 = 2
    BY <1>3 DEF IInv, TypeOK
  <2> QED BY <2>1 DEF View
<1>5. /\ stores' = [stores EXCEPT !["ptr"] = Append(@, new)]
      /\ view' = [view EXCEPT ![t] = w]
      /\ pc' = [pc EXCEPT ![t] = "store_ready"]
      /\ got' = got
  BY DEF StorePtr, Released, At
<1> HIDE DEF w
<1>6. /\ stores'.state = stores.state
      /\ stores'.ptr = Append(stores.ptr, new)
      /\ stores' = [state |-> stores'.state, ptr |-> stores'.ptr]
  BY <1>1, <1>5
<1>7. new \in PtrStore /\ new.val = t /\ new.view = w
  BY <1>4 DEF PtrStore
<1>8. /\ Len(stores'.ptr) = 2 /\ stores'.ptr \in Seq(PtrStore)
      /\ stores'.ptr[1] = stores.ptr[1] /\ stores'.ptr[2] = new
  BY <1>1, <1>3, <1>6, <1>7
<1>9. TypeOK'
  BY <1>1, <1>4, <1>5, <1>6, <1>8 DEF IInv, TypeOK, PCs
<1>10. StateHistory' /\ PtrHistory'
  <2>1. StateHistory'
    BY <1>6 DEF IInv, StateHistory
  <2>2. PtrHistory'
    <3>1. stores'.ptr[1].val = Null /\ stores'.ptr[2].val \in Threads
      BY <1>7, <1>8 DEF IInv, PtrHistory
    <3>2. Len(stores'.state) >= 2 /\ Len(stores'.ptr) \in 1..2
      BY SMTT(30), <1>3, <1>6, <1>8
    <3> QED BY <3>1, <3>2 DEF PtrHistory
  <2> QED BY <2>1, <2>2
<1>11. Owner = {t} /\ Owner' = {t}
  <2>1. {2} \cap DOMAIN stores.ptr = {} /\ {2} \cap DOMAIN stores'.ptr = {2}
    BY <1>1, <1>3, <1>8
  <2>2. \A u \in Threads : pc[u] \in {"store_ptr", "store_ready"} <=> u = t
    BY <1>2, <1>3 DEF Builders
  <2>3. \A u \in Threads : pc'[u] \in {"store_ptr", "store_ready"} <=> u = t
    BY <1>5, <2>2 DEF IInv, TypeOK
  <2> QED BY <1>8, <2>1, <2>2, <2>3 DEF Owner
<1>12. TablesOwned'
  <2>1. \A u \in Threads : view'[u].tables \subseteq {t}
    BY <1>4, <1>5, <1>11 DEF IInv, TypeOK, TablesOwned
  <2>2. \A j \in DOMAIN stores'.state : stores'.state[j].view.tables \subseteq {t}
    BY <1>6, <1>11 DEF IInv, TablesOwned
  <2>3. \A j \in DOMAIN stores'.ptr : stores'.ptr[j].view.tables \subseteq {t}
    BY <1>1, <1>3, <1>4, <1>8, <1>11 DEF IInv, TablesOwned
  <2> QED BY <1>11, <2>1, <2>2, <2>3 DEF TablesOwned
<1>13. OneBuilder'
  <2>1. Builders' = {t}
    BY <1>3, <1>5 DEF IInv, TypeOK, Builders
  <2>2. view'[t] = w /\ pc'[t] = "store_ready"
    BY <1>5 DEF IInv, TypeOK
  <2> QED BY <1>3, <1>4, <1>6, <1>8, <2>1, <2>2 DEF OneBuilder
<1>14. NotStarted' /\ ReadyCarriesTable'
  <2>1. Len(stores'.state) = 2
    BY <1>3, <1>6
  <2> QED BY <2>1 DEF NotStarted, ReadyCarriesTable
<1>15. ReadersKnow'
  <2>1. \A u \in Threads : pc[u] \notin {"get_ready", "use"} /\ got[u] = Null
    BY <1>3 DEF IInv, ReadersKnow
  <2> QED BY <1>5, <2>1 DEF IInv, TypeOK, ReadersKnow
<1> QED
  BY <1>9, <1>10, <1>12, <1>13, <1>14, <1>15 DEF IInv

(* Announcing the table: the Release store of READY carries the pointer's  *)
(* store and the table along (once.rs:46-47).                              *)
LEMMA StoreReadyKeeps ==
    ASSUME IInv, NEW t \in Threads, StoreReady(t)
    PROVE  IInv'
<1> DEFINE w == [view[t] EXCEPT !["state"] = Len(stores.state) + 1]
           new == [val |-> READY, view |-> w]
<1>1. /\ stores.state \in Seq(StateStore) /\ stores.ptr \in Seq(PtrStore)
      /\ stores = [state |-> stores.state, ptr |-> stores.ptr]
  BY DEF IInv, TypeOK
<1>2. pc[t] = "store_ready" /\ t \in Builders
  BY DEF StoreReady, At, Builders
<1>3. /\ Len(stores.state) = 2 /\ Len(stores.ptr) = 2
      /\ \A u \in Builders : u = t
      /\ stores.ptr[2].val = t /\ t \in view[t].tables /\ view[t].ptr >= 2
  BY <1>2 DEF IInv, OneBuilder
<1>4. w \in View /\ w.ptr >= 2 /\ w.tables = view[t].tables
  BY <1>3 DEF IInv, TypeOK, View
<1>5. /\ stores' = [stores EXCEPT !["state"] = Append(@, new)]
      /\ view' = [view EXCEPT ![t] = w]
      /\ pc' = [pc EXCEPT ![t] = "get_ready"]
      /\ got' = got
  BY DEF StoreReady, Released, At
<1> HIDE DEF w
<1>6. /\ stores'.ptr = stores.ptr
      /\ stores'.state = Append(stores.state, new)
      /\ stores' = [state |-> stores'.state, ptr |-> stores'.ptr]
  BY <1>1, <1>5
<1>7. new \in StateStore
  BY <1>4 DEF StateStore
<1>8. /\ Len(stores'.state) = 3 /\ stores'.state \in Seq(StateStore)
      /\ stores'.state[1] = stores.state[1] /\ stores'.state[2] = stores.state[2]
      /\ stores'.state[3] = new
  BY SMTT(30), <1>1, <1>3, <1>6, <1>7
<1>9. TypeOK'
  BY <1>1, <1>4, <1>5, <1>6, <1>8 DEF IInv, TypeOK, PCs
<1>10. StateHistory' /\ PtrHistory'
  <2>1. StateHistory'
    BY <1>3, <1>8 DEF IInv, StateHistory
  <2>2. PtrHistory'
    BY <1>6, <1>8 DEF IInv, PtrHistory
  <2> QED BY <2>1, <2>2
<1>11. Owner = {t} /\ Owner' = {t}
  <2>1. {2} \cap DOMAIN stores.ptr = {2}
    BY <1>1, <1>3
  <2>2. \A u \in Threads : pc[u] \in {"store_ptr", "store_ready"} <=> u = t
    BY <1>2, <1>3 DEF Builders
  <2>3. \A u \in Threads : pc'[u] \notin {"store_ptr", "store_ready"}
    BY <1>5, <2>2 DEF IInv, TypeOK
  <2> QED BY <1>3, <1>6, <2>1, <2>2, <2>3 DEF Owner
<1>12. TablesOwned'
  <2>1. \A u \in Threads : view'[u].tables \subseteq {t}
    BY <1>4, <1>5, <1>11 DEF IInv, TypeOK, TablesOwned
  <2>2. \A j \in DOMAIN stores'.ptr : stores'.ptr[j].view.tables \subseteq {t}
    BY <1>6, <1>11 DEF IInv, TablesOwned
  <2>3. \A j \in DOMAIN stores'.state : stores'.state[j].view.tables \subseteq {t}
    BY <1>1, <1>3, <1>4, <1>8, <1>11 DEF IInv, TablesOwned
  <2> QED BY <1>11, <2>1, <2>2, <2>3 DEF TablesOwned
<1>13. OneBuilder'
  <2>1. Builders' = {}
    BY <1>3, <1>5 DEF IInv, TypeOK, Builders
  <2> QED BY <2>1 DEF OneBuilder
<1>14. NotStarted'
  BY <1>8 DEF NotStarted
<1>15. ReadyCarriesTable'
  BY <1>3, <1>4, <1>6, <1>8 DEF ReadyCarriesTable, KnowsTable
<1>16. ReadersKnow'
  <2>1. \A u \in Threads : pc[u] \notin {"get_ready", "use"} /\ got[u] = Null
    BY <1>3 DEF IInv, ReadersKnow
  <2>2. \A u \in Threads : /\ pc'[u] = "get_ready" => u = t
                           /\ pc'[u] # "use" /\ got'[u] = Null
    BY <1>5, <2>1 DEF IInv, TypeOK
  <2>3. view'[t] = w
    BY <1>5 DEF IInv, TypeOK
  <2> QED BY <1>3, <1>4, <1>6, <1>8, <2>2, <2>3 DEF ReadersKnow, KnowsTable
<1> QED
  BY <1>9, <1>10, <1>12, <1>13, <1>14, <1>15, <1>16 DEF IInv
(* A thread that saw READY loads the pointer: it can only get the store    *)
(* that published the table (once.rs:56-60).                               *)
LEMMA GetReadyKeeps ==
    ASSUME IInv, NEW t \in Threads, GetReady(t)
    PROVE  /\ IInv'
           /\ got' = [got EXCEPT ![t] = stores.ptr[2].val]
<1>1. PICK i \in Visible(t, "ptr") :
        /\ pc[t] = "get_ready" /\ pc' = [pc EXCEPT ![t] = "use"]
        /\ view' = [view EXCEPT ![t] = Acquired(t, "ptr", i)]
        /\ got' = [got EXCEPT ![t] = stores.ptr[i].val]
        /\ stores' = stores
  BY DEF GetReady, At
<1> DEFINE a == Acquired(t, "ptr", i)
<1>2. Len(stores.state) = 3 /\ KnowsTable(view[t])
  BY <1>1 DEF IInv, ReadersKnow
<1>3. /\ stores.ptr \in Seq(PtrStore) /\ view[t] \in View
      /\ Len(stores.ptr) = 2
  BY <1>2 DEF IInv, TypeOK, KnowsTable
<1>4. i = 2
  BY <1>2, <1>3 DEF Visible, KnowsTable, View
<1>5. /\ stores.ptr[i] \in PtrStore /\ a \in View /\ a.ptr >= view[t].ptr
      /\ a.tables = view[t].tables \cup stores.ptr[i].view.tables
  BY AcquiredPtr DEF IInv
<1>6. KnowsTable(a)
  BY <1>2, <1>3, <1>5 DEF KnowsTable, View
<1>7. a.tables \subseteq Owner
  BY <1>3, <1>4, <1>5 DEF IInv, TablesOwned
<1> HIDE DEF a
<1>8. view' = [view EXCEPT ![t] = a]
  BY <1>1 DEF a
<1>9. stores.ptr[2].val \in Threads
  BY <1>3 DEF IInv, PtrHistory
<1>10. TypeOK'
  BY <1>1, <1>4, <1>5, <1>8, <1>9 DEF IInv, TypeOK, PCs
<1>11. StateHistory' /\ PtrHistory'
  BY <1>1 DEF IInv, StateHistory, PtrHistory
<1>12. Builders' = Builders /\ Owner' = Owner /\ t \notin Builders
  BY <1>1 DEF IInv, TypeOK, Builders, Owner
<1>13. TablesOwned'
  BY <1>1, <1>7, <1>8, <1>12 DEF IInv, TypeOK, TablesOwned
<1>14. OneBuilder'
  BY <1>1, <1>8, <1>12 DEF IInv, TypeOK, OneBuilder, Builders
<1>15. NotStarted' /\ ReadyCarriesTable'
  BY <1>1, <1>2 DEF IInv, NotStarted, ReadyCarriesTable, KnowsTable
<1>16. ReadersKnow'
  BY <1>1, <1>2, <1>4, <1>6, <1>8 DEF IInv, TypeOK, ReadersKnow, KnowsTable
<1> QED
  BY <1>1, <1>4, <1>10, <1>11, <1>13, <1>14, <1>15, <1>16 DEF IInv

(* Returning the reference forgets nothing about memory.                   *)
LEMMA DropKeeps ==
    ASSUME IInv, NEW t \in Threads, Drop(t)
    PROVE  IInv'
<1>1. /\ pc[t] = "use" /\ pc' = [pc EXCEPT ![t] = "idle"]
      /\ got' = [got EXCEPT ![t] = Null]
      /\ stores' = stores /\ view' = view
  BY DEF Drop, At
<1>2. Len(stores.state) = 3
  BY <1>1 DEF IInv, ReadersKnow
<1>3. TypeOK'
  BY <1>1 DEF IInv, TypeOK, PCs
<1>4. StateHistory' /\ PtrHistory'
  BY <1>1 DEF IInv, StateHistory, PtrHistory
<1>5. Builders' = Builders /\ Owner' = Owner /\ t \notin Builders
  BY <1>1 DEF IInv, TypeOK, Builders, Owner
<1>6. TablesOwned'
  BY <1>1, <1>5 DEF IInv, TablesOwned
<1>7. OneBuilder'
  BY <1>1, <1>5 DEF IInv, TypeOK, OneBuilder, Builders
<1>8. NotStarted' /\ ReadyCarriesTable'
  BY <1>1, <1>2 DEF IInv, NotStarted, ReadyCarriesTable, KnowsTable
<1>9. ReadersKnow'
  BY <1>1 DEF IInv, TypeOK, ReadersKnow, KnowsTable
<1> QED
  BY <1>3, <1>4, <1>6, <1>7, <1>8, <1>9 DEF IInv

-----------------------------------------------------------------------------
(* The invariant holds: whatever stores the loads return, in whatever      *)
(* order the threads run (once.rs:31-60).                                  *)
THEOREM Invariance == Spec => []IInv
<1>1. Init => IInv
  <2> SUFFICES ASSUME Init PROVE IInv
    OBVIOUS
  <2>1. NoView \in View /\ NoView.tables = {}
    BY DEF NoView, View
  <2>2. /\ stores.state = <<[val |-> UNINIT, view |-> NoView]>>
        /\ stores.ptr = <<[val |-> Null, view |-> NoView]>>
    BY DEF Init
  <2>3. TypeOK
    BY <2>1 DEF Init, TypeOK, PCs, StateStore, PtrStore
  <2>4. StateHistory /\ PtrHistory
    BY <2>2 DEF StateHistory, PtrHistory
  <2>5. TablesOwned
    BY <2>1, <2>2 DEF Init, TablesOwned
  <2>6. OneBuilder /\ NotStarted /\ ReadyCarriesTable
    BY <2>2 DEF Init, OneBuilder, Builders, NotStarted, ReadyCarriesTable
  <2>7. ReadersKnow
    BY DEF Init, ReadersKnow
  <2> QED BY <2>3, <2>4, <2>5, <2>6, <2>7 DEF IInv
<1>2. IInv /\ [Next]_vars => IInv'
  <2> SUFFICES ASSUME IInv, [Next]_vars PROVE IInv'
    OBVIOUS
  <2>1. ASSUME NEW t \in Threads, Call(t) PROVE IInv'
    BY <2>1, LoadKeeps DEF Call
  <2>2. ASSUME NEW t \in Threads, NEW i \in 1..Len(stores.state), Spin(t, i) PROVE IInv'
    BY <2>2, LoadKeeps DEF Spin
  <2>3. ASSUME NEW t \in Threads, CompareExchange(t) PROVE IInv'
    BY <2>3, ExchangeKeeps, FailedExchangeKeeps DEF CompareExchange, Visible
  <2>4. ASSUME NEW t \in Threads, Step(t) PROVE IInv'
    BY <2>3, <2>4, InitTableKeeps, StorePtrKeeps, StoreReadyKeeps, GetReadyKeeps DEF Step
  <2>5. ASSUME NEW t \in Threads, Drop(t) PROVE IInv'
    BY <2>5, DropKeeps
  <2>6. CASE UNCHANGED vars
    BY <2>6 DEF vars, IInv, TypeOK, StateHistory, PtrHistory, TablesOwned, Owner,
       OneBuilder, Builders, NotStarted, ReadyCarriesTable, ReadersKnow, KnowsTable
  <2> QED BY <2>1, <2>2, <2>4, <2>5, <2>6 DEF Next
<1> QED BY <1>1, <1>2, PTL DEF Spec

(* Two threads never both run init, whatever the loads before the exchange *)
(* returned (once.rs:35-44).                                               *)
THEOREM TableBuiltOnce == Spec => []InitOnce
<1>1. IInv => InitOnce
  <2> SUFFICES ASSUME IInv, NEW t \in Built, NEW u \in Built PROVE t = u
    BY DEF InitOnce
  <2>1. t \in Threads /\ u \in Threads /\ t \in Owner /\ u \in Owner
    BY DEF Built, IInv, TablesOwned
  <2>2. CASE Len(stores.ptr) = 1
    <3>1. {2} \cap DOMAIN stores.ptr = {}
      BY <2>2 DEF IInv, TypeOK
    <3> QED BY <2>1, <3>1 DEF Owner, IInv, OneBuilder, Builders
  <2>3. CASE Len(stores.ptr) = 2
    <3>1. \A b \in Owner : b = stores.ptr[2].val
      BY <2>3 DEF Owner, IInv, OneBuilder, Builders
    <3> QED BY <2>1, <3>1
  <2> QED BY <2>2, <2>3 DEF IInv, PtrHistory
<1> QED BY <1>1, Invariance, PTL

(* The unsafe block of get_ready neither follows null nor races with the   *)
(* thread that filled the table (once.rs:56-60).                           *)
THEOREM ReferencesValid == Spec => []ReferenceValid
<1>1. IInv => ReferenceValid
  <2> SUFFICES ASSUME IInv, NEW t \in Threads, pc[t] = "use"
               PROVE  got[t] # Null /\ got[t] \in view[t].tables
    BY DEF ReferenceValid
  <2>1. got[t] = stores.ptr[2].val /\ KnowsTable(view[t])
    BY DEF IInv, ReadersKnow
  <2>2. stores.ptr[2].val \in Threads
    BY <2>1 DEF IInv, PtrHistory, KnowsTable
  <2> QED BY <2>1, <2>2, OnceAssumption DEF KnowsTable
<1> QED BY <1>1, Invariance, PTL
-----------------------------------------------------------------------------
(* The refinement of module Once.  Its table is the value of the last      *)
(* store to the pointer.                                                   *)

\* A step that leaves the pointer's stores and every call's result alone.
LEMMA Stutters ==
    ASSUME stores'.ptr = stores.ptr, got' = got
    PROVE  UNCHANGED <<PublishedTable, got>>
BY DEF PublishedTable

(* Publishing the pointer is the abstract Build: no table was there, and   *)
(* it is the table of the publishing thread (once.rs:45).                  *)
LEMMA PublishBuilds ==
    ASSUME IInv, NEW t \in Threads, StorePtr(t)
    PROVE  O!Build(t)
<1> DEFINE new == [val |-> t, view |-> [view[t] EXCEPT !["ptr"] = Len(stores.ptr) + 1]]
<1>1. t \in Builders /\ pc[t] = "store_ptr"
  BY DEF StorePtr, At, Builders
<1>2. Len(stores.ptr) = 1 /\ stores.ptr[1].val = Null /\ stores.ptr \in Seq(PtrStore)
  BY <1>1 DEF IInv, TypeOK, OneBuilder, PtrHistory
<1>3. stores' = [stores EXCEPT !["ptr"] = Append(@, new)] /\ got' = got
  BY DEF StorePtr, Released
<1>4. new.val = t
  OBVIOUS
<1> HIDE DEF new
<1>5. stores'.ptr = Append(stores.ptr, new)
  BY <1>3 DEF IInv, TypeOK
<1>6. Len(stores'.ptr) = 2 /\ stores'.ptr[2] = new
  BY <1>2, <1>5
<1> QED BY <1>2, <1>3, <1>4, <1>6 DEF O!Build, PublishedTable

(* Loading the pointer is the abstract Return (once.rs:56-60).             *)
LEMMA LoadReturns ==
    ASSUME IInv, NEW t \in Threads, GetReady(t)
    PROVE  O!Return(t)
<1>1. /\ pc[t] = "get_ready" /\ stores' = stores
      /\ got' = [got EXCEPT ![t] = stores.ptr[2].val]
  BY GetReadyKeeps DEF GetReady, At
<1>2. Len(stores.ptr) = 2 /\ got[t] = Null
  BY <1>1 DEF IInv, ReadersKnow, KnowsTable
<1>3. stores.ptr[2].val # Null
  BY <1>2, OnceAssumption DEF IInv, PtrHistory
<1> QED BY <1>1, <1>2, <1>3 DEF O!Return, PublishedTable

(* Every call of the lock returns the one table: each step is a step of    *)
(* the abstract lock or changes nothing it shows (once.rs:31-60).          *)
THEOREM LockImplementsOnce == Spec => ImplementsOnce
<1>1. Init => O!Init
  BY DEF Init, O!Init, PublishedTable
<1>2. IInv /\ [Next]_vars => [O!Next]_<<PublishedTable, got>>
  <2> SUFFICES ASSUME IInv, [Next]_vars PROVE [O!Next]_<<PublishedTable, got>>
    OBVIOUS
  <2>1. ASSUME NEW t \in Threads, \/ Call(t) \/ InitTable(t) \/ StoreReady(t)
                                  \/ CompareExchange(t)
                                  \/ \E i \in 1..Len(stores.state) : Spin(t, i)
        PROVE  UNCHANGED <<PublishedTable, got>>
    <3>1. stores'.ptr = stores.ptr /\ got' = got
      BY <2>1 DEF Call, Spin, LoadState, InitTable, StoreReady, CompareExchange, Released,
         IInv, TypeOK
    <3> QED BY <3>1, Stutters
  <2>2. ASSUME NEW t \in Threads, StorePtr(t) PROVE O!Next
    BY <2>2, PublishBuilds DEF O!Next
  <2>3. ASSUME NEW t \in Threads, GetReady(t) PROVE O!Next
    BY <2>3, LoadReturns DEF O!Next
  <2>4. ASSUME NEW t \in Threads, Drop(t) PROVE O!Next
    <3>1. /\ pc[t] = "use" /\ stores' = stores
          /\ got' = [got EXCEPT ![t] = Null]
      BY <2>4 DEF Drop, At
    <3>2. got[t] # Null
      BY <3>1, OnceAssumption DEF IInv, PtrHistory, ReadersKnow, KnowsTable
    <3>3. O!Drop(t)
      BY <3>1, <3>2 DEF O!Drop, PublishedTable
    <3> QED BY <3>3 DEF O!Next
  <2>5. CASE UNCHANGED vars
    BY <2>5, Stutters DEF vars
  <2> QED BY <2>1, <2>2, <2>3, <2>4, <2>5 DEF Next, Step
<1> QED BY <1>1, <1>2, Invariance, PTL DEF Spec, ImplementsOnce, O!Spec
=============================================================================
