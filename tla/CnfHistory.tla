------------------------------ MODULE CnfHistory ------------------------------
(***************************************************************************)
(* The properties of the shared configurations: CnfSync with history       *)
(* variables, and the abstract table it implements.                        *)
(***************************************************************************)
EXTENDS CnfSync

VARIABLES
    seen,           \* what the entry of a push or pull has held since the sync began
    disturbed,      \* since then the base station has dropped the push, or the entry pulled
                    \* has changed; or the push set out behind an earlier one
    confirmed       \* the last push of the throttle was confirmed twice

history == <<seen, disturbed, confirmed>>
hvars == <<vars, history>>

HInit ==
    /\ Init
    /\ seen = [t \in Throttles |-> {}]
    /\ disturbed = [t \in Throttles |-> FALSE]
    /\ confirmed = [t \in Throttles |-> FALSE]

Transfers(o) == o.kind \in {"push", "pull"}
Continues(t) == op[t].kind = op'[t].kind

\* Packets of the throttle's earlier pushes are not sent yet, or answered and not read.
Unsettled(t) ==
    \/ \E i \in DOMAIN txq[t]: txq[t][i].type = "push"
    \/ \E i \in DOMAIN replies[t]: replies[t][i].type = "push"

Remember ==
    /\ seen' = [t \in Throttles |->
         IF Transfers(op'[t])
         THEN (IF Continues(t) THEN seen[t] ELSE {}) \union {entries'[op'[t].entry]} ELSE {}]
    /\ disturbed' = [t \in Throttles |->
         \/ /\ Transfers(op'[t]) /\ Continues(t)
            /\ \/ disturbed[t]
               \/ op[t].kind = "push" /\ session.who = t /\ session'.who # t
               \/ op[t].kind = "pull" /\ entries'[op[t].entry] # entries[op[t].entry]
         \/ op'[t].kind = "push" /\ ~Continues(t) /\ Unsettled(t)']
    /\ confirmed' = [t \in Throttles |->
         IF op'[t].kind = "push" /\ op[t].kind # "push" THEN screen[t] = "wipe" ELSE confirmed[t]]

HNext == Next /\ Remember
HSpec == HInit /\ [][HNext]_hvars
HFairSpec == HSpec /\ \A t \in Throttles: WF_hvars(Syncing(t) /\ Remember)

HTypeOK ==
    /\ TypeOK
    /\ seen \in [Throttles -> SUBSET (Profiles \union {None})]
    /\ disturbed \in [Throttles -> BOOLEAN]
    /\ confirmed \in [Throttles -> BOOLEAN]

-----------------------------------------------------------------------------
(* Properties.                                                             *)

Shows(t, outcomes) == op[t].stage = "SHOW" /\ op[t].outcome \in outcomes

\* "SAVED!" is the truth: since the push began the table has held, in that entry, the
\* profile the push set out with (syncPushSharedCnf, the stale replies of cnfSendAndWait).
SavedIsStored ==
    \A t \in Throttles: op[t].kind = "push" /\ Shows(t, {"OK"}) => buf[t] \in seen[t]

\* A checksum failure or a malformed reply is never the throttle's own making: retries,
\* lost and late replies and leftovers in the queues do not mix up the chunks. Only a base
\* station that has dropped the push does, a push of the entry being loaded, or an earlier
\* push of the throttle's own whose packets are still on their way.
NoFalseAlarm ==
    \A t \in Throttles: Shows(t, {"CHECKSUM_FAIL", "BAD_ENTRY"}) /\ Transfers(op[t])
      => disturbed[t]

\* What the crew reads at the end of a transfer is true: SAVED! means stored, and a failure
\* of the data is not one of the throttle's own making.
OutcomesTrue == SavedIsStored /\ NoFalseAlarm

\* No push wipes what others have saved unless its crew has confirmed it twice, however
\* the table changes between the check and the push (3415-3440).
NoSilentWipe ==
    [][\A e \in Entries: entries[e] # None /\ entries'[e] = None => confirmed[session.who]]_hvars

\* What a throttle runs on is of its own layout, and what the table holds is of the layout
\* pinned, through upgrades of the table under transfers in progress (289-291).
LayoutsMatch ==
    /\ \A t \in Throttles: Layout[working[t]] = version[t]
    /\ \A e \in Entries: entries[e] # None => Layout[entries[e]] = pin

\* The throttles and the base station are a table of whole profiles: no interleaving of
\* transfers, loss, retry or restart tears a profile, stores or loads one of the wrong
\* layout, or loads one the entry did not hold.
Store == INSTANCE SharedStore WITH
    Unset <- CNF_VERSION_UNSET,
    loading <- [t \in Throttles |-> IF op[t].kind = "pull" THEN op[t].entry ELSE None],
    reading <- [t \in Throttles |-> IF op[t].kind = "pull" THEN seen[t] ELSE {}]

ImplementsStore == Store!Spec

\* A sync ends, whatever is lost.
SyncEnds == \A t \in Throttles: op[t].kind # "none" ~> op[t].kind = "none"
=============================================================================
