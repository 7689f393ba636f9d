------------------------------ MODULE OnceLock ------------------------------
(***************************************************************************)
(* The OnceLock of builds without std (src/src/once.rs), which guards the  *)
(* lookup tables of the CAVLC parser (src/src/cavlc.rs:294-301).           *)
(*                                                                         *)
(* Threads share two atomics.  Memory is the release/acquire fragment of   *)
(* the language's memory model: each atomic has the sequence of its        *)
(* stores, a thread's load may return any store that is not older than the *)
(* last one of that atomic the thread knows of, and an Acquire load of a   *)
(* Release store brings the storing thread's knowledge along.  A thread    *)
(* that follows a pointer to a table without knowing of the writes that    *)
(* filled it is a data race.                                               *)
(***************************************************************************)
EXTENDS Naturals, Sequences, FiniteSets

CONSTANTS Threads, Null

ASSUME OnceAssumption == Null \notin Threads

UNINIT  == "UNINIT"
INITING == "INITING"
READY   == "READY"

VARIABLES
    stores,  \* the stores to each atomic, in modification order
    view,    \* what each thread knows of
    pc,      \* where each thread is in get_or_init
    got      \* the pointer that the thread's call returned

vars == <<stores, view, pc, got>>

\* A view: the last store known to each atomic, and the tables, named by
\* the thread that built them, whose contents are known.
View == [state : Nat, ptr : Nat, tables : SUBSET Threads]

Later(a, b) == IF a < b THEN b ELSE a

Join(v, w) ==
    [state |-> Later(v.state, w.state), ptr |-> Later(v.ptr, w.ptr),
     tables |-> v.tables \cup w.tables]

NoView == [state |-> 1, ptr |-> 1, tables |-> {}]

(* AtomicU8::new(UNINIT) and AtomicPtr::new(null): a static's initial      *)
(* values are known to every thread.                                       *)
Init ==
    /\ stores = [state |-> <<[val |-> UNINIT, view |-> NoView]>>,
                 ptr |-> <<[val |-> Null, view |-> NoView]>>]
    /\ view = [t \in Threads |-> NoView]
    /\ pc = [t \in Threads |-> "idle"]
    /\ got = [t \in Threads |-> Null]

-----------------------------------------------------------------------------
\* The stores that a load of the atomic by t may return.
Visible(t, atomic) == {i \in DOMAIN stores[atomic] : view[t][atomic] <= i}

\* Mutant: a load with Ordering::Relaxed.
AcquiredRelaxed(t, atomic, i) == [view[t] EXCEPT ![atomic] = i]

\* What t knows after a load with Ordering::Acquire returned store i.
Acquired(t, atomic, i) == Join([view[t] EXCEPT ![atomic] = i], stores[atomic][i].view)

\* A store with Ordering::Release by a thread that knows v.
Released(t, atomic, v, val) ==
    LET w == [v EXCEPT ![atomic] = Len(stores[atomic]) + 1]
    IN  /\ stores' = [stores EXCEPT ![atomic] = Append(@, [val |-> val, view |-> w])]
        /\ view' = [view EXCEPT ![t] = w]

At(t, here, next) == pc[t] = here /\ pc' = [pc EXCEPT ![t] = next]

\* A load of state that tells whether the table is ready.
LoadState(t, here, i, otherwise) ==
    /\ i \in Visible(t, "state")
    /\ view' = [view EXCEPT ![t] = Acquired(t, "state", i)]
    /\ At(t, here, IF stores.state[i].val = READY THEN "get_ready" ELSE otherwise)
    /\ UNCHANGED <<stores, got>>

-----------------------------------------------------------------------------
(* get_or_init, one action per access to the atomics.                      *)

Call(t) == \E i \in 1..Len(stores.state) : LoadState(t, "idle", i, "compare_exchange")

\* Mutant: a load and a store instead of a read-modify-write.
ExchangeableLoaded(t) == {i \in Visible(t, "state") : stores.state[i].val = UNINIT}

\* The stores on which the exchange succeeds: a read-modify-write acts on
\* the last one.
Exchangeable(t) == {i \in {Len(stores.state)} : stores.state[i].val = UNINIT}

\* When the exchange fails it is a load of some other value.
CompareExchange(t) ==
    \/ \E i \in Exchangeable(t) :
         /\ At(t, "compare_exchange", "init")
         /\ Released(t, "state", Acquired(t, "state", i), INITING)
         /\ UNCHANGED got
    \/ \E i \in Visible(t, "state") :
         /\ stores.state[i].val # UNINIT
         /\ At(t, "compare_exchange", "spin")
         /\ view' = [view EXCEPT ![t] = Acquired(t, "state", i)]
         /\ UNCHANGED <<stores, got>>

\* Box::into_raw(Box::new(init())): the table's contents are written.
InitTable(t) ==
    /\ At(t, "init", "store_ptr")
    /\ view' = [view EXCEPT ![t].tables = @ \cup {t}]
    /\ UNCHANGED <<stores, got>>

StorePtr(t) ==
    /\ At(t, "store_ptr", "store_ready")
    /\ Released(t, "ptr", view[t], t)
    /\ UNCHANGED got

\* Mutant: the state is left as it is.
StoreReadyNever(t) ==
    /\ At(t, "store_ready", "get_ready")
    /\ UNCHANGED <<stores, view, got>>

StoreReady(t) ==
    /\ At(t, "store_ready", "get_ready")
    /\ Released(t, "state", view[t], READY)
    /\ UNCHANGED got

Spin(t, i) == LoadState(t, "spin", i, "spin")

GetReady(t) ==
    \E i \in Visible(t, "ptr") :
      /\ At(t, "get_ready", "use")
      /\ view' = [view EXCEPT ![t] = Acquired(t, "ptr", i)]
      /\ got' = [got EXCEPT ![t] = stores.ptr[i].val]
      /\ UNCHANGED stores

\* The caller is done with the table; it will ask for it again.
Drop(t) ==
    /\ At(t, "use", "idle")
    /\ got' = [got EXCEPT ![t] = Null]
    /\ UNCHANGED <<stores, view>>

Step(t) ==
    \/ CompareExchange(t) \/ InitTable(t) \/ StorePtr(t) \/ StoreReady(t) \/ GetReady(t)

Next ==
    \E t \in Threads :
      \/ Call(t) \/ Step(t) \/ Drop(t)
      \/ \E i \in 1..Len(stores.state) : Spin(t, i)

Spec == Init /\ [][Next]_vars

(* A thread inside a call is scheduled, and a store becomes visible to a   *)
(* thread that keeps loading, as the language asks of implementations:     *)
(* some load of the spin loop returns the last store.  A caller need not   *)
(* ever call.                                                              *)
FairSpec ==
    /\ Spec
    /\ \A t \in Threads : WF_vars(Step(t)) /\ WF_vars(Spin(t, Len(stores.state)))

-----------------------------------------------------------------------------
Built == {t \in Threads : t \in view[t].tables}

(* Whatever loads return, two threads never both run init, although both   *)
(* may have seen the lock uninitialised (once.rs:35-43).                   *)
InitOnce == \A t, u \in Built : t = u

(* A reference that a call returned points to a table, whose contents      *)
(* the caller knows: the unsafe block of get_ready (once.rs:57-59) neither *)
(* follows null, as its debug_assert says, nor races with the thread that  *)
(* filled the table.                                                       *)
ReferenceValid ==
    \A t \in Threads : pc[t] = "use" => got[t] # Null /\ got[t] \in view[t].tables

(* The lock is the abstract one: every call returns the one table.         *)
PublishedTable ==
    LET last == stores.ptr[Len(stores.ptr)] IN last.val

O == INSTANCE Once WITH table <- PublishedTable

ImplementsOnce == O!Spec

(* A call returns, also for a thread that has to wait for another one's    *)
(* table (once.rs:50-52).                                                  *)
EveryCallReturns == \A t \in Threads : pc[t] \in {"compare_exchange", "spin"} ~> pc[t] = "use"
=============================================================================
