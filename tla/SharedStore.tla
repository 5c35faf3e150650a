----------------------------- MODULE SharedStore -----------------------------
(***************************************************************************)
(* What the shared configurations promise the crew, without packets: a     *)
(* table of whole profiles that are put and loaded in one step each.       *)
(* A load takes its time, and may return any profile the entry has held    *)
(* since it began. A put in a newer layout, or the first one, pins the     *)
(* table and wipes the other entries; a put in an older layout and a load  *)
(* in any other do not happen.                                             *)
(***************************************************************************)
EXTENDS Naturals

CONSTANTS Throttles, Entries, Profiles, Layout, Unset, None

VARIABLES
    version,        \* the layout of each throttle's firmware
    entries, pin,   \* the table and its layout
    working,        \* the working configuration of each throttle
    loading,        \* the entry a throttle is loading
    reading         \* what it has held meanwhile

vars == <<version, entries, pin, working, loading, reading>>

Own(t) == {p \in Profiles : Layout[p] = version[t]}

Init ==
    /\ entries = [e \in Entries |-> None] /\ pin = Unset
    /\ \A t \in Throttles: working[t] \in Own(t)
    /\ loading = [t \in Throttles |-> None]
    /\ reading = [t \in Throttles |-> {}]

Put(t, e) ==
    /\ \E p \in Own(t):
         \/ /\ pin = version[t]
            /\ entries' = [entries EXCEPT ![e] = p] /\ pin' = pin
         \/ /\ pin = Unset \/ version[t] > pin
            /\ entries' = [x \in Entries |-> IF x = e THEN p ELSE None] /\ pin' = version[t]
    /\ reading' = [u \in Throttles |->
                     IF loading[u] = None THEN {} ELSE reading[u] \union {entries'[loading[u]]}]
    /\ UNCHANGED <<version, working, loading>>

Open(t, e) ==
    /\ loading[t] = None
    /\ loading' = [loading EXCEPT ![t] = e]
    /\ reading' = [reading EXCEPT ![t] = {entries[e]}]
    /\ UNCHANGED <<version, entries, pin, working>>

Load(t) ==
    /\ \E p \in reading[t] \intersect Own(t): working' = [working EXCEPT ![t] = p]
    /\ UNCHANGED <<version, entries, pin, loading, reading>>

Close(t) ==
    /\ loading' = [loading EXCEPT ![t] = None]
    /\ reading' = [reading EXCEPT ![t] = {}]
    /\ UNCHANGED <<version, entries, pin, working>>

Edit(t) ==
    /\ loading[t] = None
    /\ \E p \in Own(t): working' = [working EXCEPT ![t] = p]
    /\ UNCHANGED <<version, entries, pin, loading, reading>>

Next ==
    \E t \in Throttles:
      Load(t) \/ Close(t) \/ Edit(t) \/ \E e \in Entries: Put(t, e) \/ Open(t, e)

Spec == Init /\ [][Next]_vars
=============================================================================
