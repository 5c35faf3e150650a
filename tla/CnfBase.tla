------------------------------- MODULE CnfBase -------------------------------
(***************************************************************************)
(* The base station that keeps the shared locomotive configurations, N01   *)
(* to N20, as the throttle of cst-sync.c sees it over the radio.           *)
(*                                                                         *)
(* Its code is in another repository. What this one says of it is here:    *)
(* the table, the pinned layout version and the answers are those of the   *)
(* stand-in of cst-cfgnetwork/tests/test_cnf_radio_io.py, FakeCabbus; that *)
(* one transfer keeps the others out, and is forgotten when it falls       *)
(* silent, is what the comments of cst-sync.c and the readers of its busy  *)
(* status rely on. It may also restart, which forgets a transfer too.      *)
(*                                                                         *)
(* A profile is a function from its chunks to their contents. The CRC-16   *)
(* of a buffer is taken to tell buffers apart: it is the buffer.           *)
(***************************************************************************)
EXTENDS Naturals, Sequences

CONSTANTS
    Throttles,      \* the throttles that share the base station
    Entries,        \* the entries of the table (20)
    Chunks,         \* DATA packets of a transfer (13)
    Profiles,       \* what a working configuration can hold
    Layout,         \* the layout version a profile was written in
    Fleets,         \* the firmware versions the throttles may have
    RxDepth,        \* replies on their way to each throttle at a time
    None

CNF_VERSION_UNSET == 255
Layouts == 0..(CNF_VERSION_UNSET - 1)
Pieces == UNION {{p[c] : c \in 1..Chunks} : p \in Profiles}
Buffers == [1..Chunks -> Pieces \union {None}]
Blank == [c \in 1..Chunks |-> None]

ASSUME TransferAssumption ==
    /\ Chunks \in Nat \ {0} /\ RxDepth \in [Throttles -> Nat]
    /\ None \notin Pieces /\ None \notin Profiles
    /\ None \notin Throttles /\ None \notin Entries
ASSUME ProfileAssumption ==
    /\ Profiles \subseteq [1..Chunks -> Pieces]
    /\ Layout \in [Profiles -> Layouts]
    /\ Fleets \subseteq [Throttles -> Layouts]

VARIABLES
    version,        \* EEPROM_LAYOUT_VERSION of each throttle's firmware
    entries,        \* the table
    pin,            \* the layout version of the whole table
    session,        \* the transfer in progress, or the last one committed
    scratch,        \* what the pushing throttle has sent so far
    replies         \* replies to each throttle, in the air or in mrbeeRxQueue, in order

base == <<entries, pin, session, scratch, replies>>

NoSession == [kind |-> "none", who |-> None, entry |-> None, advance |-> FALSE]
Session == [kind : {"none", "push", "pull", "pushed"}, who : Throttles \union {None},
            entry : Entries \union {None}, advance : BOOLEAN]

Request == [type : {"status", "push", "pull"}, sub : {"BEGIN", "DATA", "COMMIT", "DONE"},
            entry : Entries \union {None}, chunk : 0..Chunks,
            piece : Pieces \union {None}, crc : Buffers \union {None}]
Statuses == {"OK", "BUSY", "BAD_ENTRY", "EMPTY", "CHECKSUM_FAIL", "VERSION_MISMATCH"}
Reply == [type : {"push", "pull"}, sub : {"BEGIN", "DATA", "COMMIT"}, entry : Entries,
          chunk : 0..Chunks, status : Statuses, version : Layouts \union {CNF_VERSION_UNSET},
          crc : Profiles \union {None}, piece : Pieces \union {None}]

-----------------------------------------------------------------------------
BaseInit ==
    /\ version \in Fleets
    /\ entries = [e \in Entries |-> None]
    /\ pin = CNF_VERSION_UNSET
    /\ session = NoSession
    /\ scratch = Blank
    /\ replies = [t \in Throttles |-> <<>>]

\* A reply reaches the throttle or is lost.
Answer(t, m, status, crc, piece) ==
    \/ UNCHANGED replies
    \/ /\ Len(replies[t]) < RxDepth[t]
       /\ replies' = [replies EXCEPT ![t] =
             Append(@, [type |-> m.type, sub |-> m.sub, entry |-> m.entry, chunk |-> m.chunk,
                        status |-> status, version |-> pin, crc |-> crc, piece |-> piece])]

Refuse(t, m, status) ==
    /\ Answer(t, m, status, None, None)
    /\ UNCHANGED <<entries, pin, session, scratch>>

Busy(t) == session.kind \in {"push", "pull"} /\ session.who # t
Serves(t, m, kinds) == session.kind \in kinds /\ session.who = t /\ session.entry = m.entry
OlderThanPin(t) == pin # CNF_VERSION_UNSET /\ version[t] < pin
Advances(t) == pin = CNF_VERSION_UNSET \/ version[t] > pin

PushBegin(t, m) ==
    /\ m.type = "push" /\ m.sub = "BEGIN"
    /\ \/ Busy(t) /\ Refuse(t, m, "BUSY")
       \/ ~Busy(t) /\ OlderThanPin(t) /\ Refuse(t, m, "VERSION_MISMATCH")
       \/ /\ ~Busy(t) /\ ~OlderThanPin(t)
          /\ session' = [kind |-> "push", who |-> t, entry |-> m.entry, advance |-> Advances(t)]
          /\ scratch' = Blank
          /\ Answer(t, m, "OK", None, None)
          /\ UNCHANGED <<entries, pin>>

PushData(t, m) ==
    /\ m.type = "push" /\ m.sub = "DATA"
    /\ \/ ~Serves(t, m, {"push"}) /\ Refuse(t, m, "BAD_ENTRY")
       \/ /\ Serves(t, m, {"push"})
          /\ scratch' = [scratch EXCEPT ![m.chunk] = m.piece]
          /\ Answer(t, m, "OK", None, None)
          /\ UNCHANGED <<entries, pin, session>>

\* The entry is written, and the first push of a layout also wipes every other entry.
\* A repeated COMMIT finds the same buffer and is answered in the same way.
PushCommit(t, m) ==
    /\ m.type = "push" /\ m.sub = "COMMIT"
    /\ \/ ~Serves(t, m, {"push", "pushed"}) /\ Refuse(t, m, "BAD_ENTRY")
       \/ Serves(t, m, {"push", "pushed"}) /\ scratch # m.crc /\ Refuse(t, m, "CHECKSUM_FAIL")
       \/ /\ Serves(t, m, {"push", "pushed"}) /\ scratch = m.crc
          /\ entries' = [e \in Entries |-> IF e = m.entry THEN scratch
                                           ELSE IF session.advance THEN None ELSE entries[e]]
          /\ pin' = IF session.advance THEN version[t] ELSE pin
          /\ session' = [session EXCEPT !.kind = "pushed"]
          /\ Answer(t, m, "OK", None, None)
          /\ UNCHANGED scratch

\* An empty entry is held like any other, until DONE.
PullBegin(t, m) ==
    /\ m.type = "pull" /\ m.sub = "BEGIN"
    /\ \/ Busy(t) /\ Refuse(t, m, "BUSY")
       \/ /\ ~Busy(t)
          /\ session' = [kind |-> "pull", who |-> t, entry |-> m.entry, advance |-> FALSE]
          /\ scratch' = Blank
          /\ Answer(t, m, IF entries[m.entry] = None THEN "EMPTY" ELSE "OK",
                    entries[m.entry], None)
          /\ UNCHANGED <<entries, pin>>

\* Read straight from the table, whoever holds it by now.
PullData(t, m) ==
    /\ m.type = "pull" /\ m.sub = "DATA"
    /\ \/ entries[m.entry] = None /\ Refuse(t, m, "BAD_ENTRY")
       \/ /\ entries[m.entry] # None
          /\ Answer(t, m, "OK", None, entries[m.entry][m.chunk])
          /\ UNCHANGED <<entries, pin, session, scratch>>

PullDone(t, m) ==
    /\ m.type = "pull" /\ m.sub = "DONE"
    /\ session' = IF Serves(t, m, {"pull"}) THEN NoSession ELSE session
    /\ UNCHANGED <<entries, pin, scratch, replies>>

\* What the base station makes of packet m from throttle t.
Serve(t, m) ==
    \/ PushBegin(t, m) \/ PushData(t, m) \/ PushCommit(t, m)
    \/ PullBegin(t, m) \/ PullData(t, m) \/ PullDone(t, m)

\* The transfer is forgotten: nothing was heard of it for 3 s, or the station restarted.
Forget ==
    /\ session # NoSession
    /\ session' = NoSession
    /\ scratch' = Blank
    /\ UNCHANGED <<entries, pin, replies>>

BaseTypeOK ==
    /\ version \in [Throttles -> Layouts]
    /\ entries \in [Entries -> Profiles \union {None}]
    /\ pin \in Layouts \union {CNF_VERSION_UNSET}
    /\ session \in Session
    /\ scratch \in Buffers
    /\ replies \in [Throttles -> Seq(Reply)]
=============================================================================
