------------------------------- MODULE CnfSync -------------------------------
(***************************************************************************)
(* The throttle's side of the shared configurations: cst-sync.c, with the  *)
(* LOAD and SAVE screens of mrbw-cst.c that call it.                       *)
(*                                                                         *)
(* A sync blocks the main loop. Each of its requests is sent and waited    *)
(* for up to MaxRetries times; the reply is the first one received of the  *)
(* right type, step, entry and (DATA only) chunk. Sending puts the request *)
(* at the end of the transmit queue and transmits the head of that queue,  *)
(* which is another packet when the queue was not empty.                   *)
(*                                                                         *)
(* One record per throttle holds the sync in progress. Its stages are the  *)
(* requests BEGIN, DATA and COMMIT, then "DONE" (the request nobody waits  *)
(* for) and "SHOW" (the result is displayed). The replies a throttle       *)
(* waits for, in the air or received, are one queue, so an attempt may     *)
(* time out and find the reply later.                                      *)
(*                                                                         *)
(* Between syncs the loop drains both queues; a sync the crew starts finds *)
(* no old reply, because results stay on the screen and the loop turns     *)
(* before a key is read again.                                             *)
(***************************************************************************)
EXTENDS CnfBase

CONSTANTS
    MaxRetries,     \* CNF_CHUNK_MAX_RETRIES (3)
    Backlog,        \* status packets each loop may have left in its transmit queue
    QueueDepth,     \* MRBUS_TX_BUFFER_DEPTH (16)
    Wants           \* what each crew does: "query" (rests on an entry), "pull" (LOAD),
                    \* "peek" (SAVE), "edit" (saves another working configuration)

ASSUME SyncAssumption ==
    /\ MaxRetries \in Nat \ {0}
    /\ Backlog \in [Throttles -> Nat] /\ QueueDepth \in Nat \ {0}
    /\ Wants \in [Throttles -> SUBSET {"query", "pull", "peek", "edit"}]

\* 16 packets, 13 chunks: the queue is too short to hold the BEGIN of a peek, its DONE and
\* behind them the DATA packets of a whole push and its COMMIT.
ASSUME QueueAssumption == QueueDepth <= Chunks + 3

VARIABLES
    screen,         \* "picker", or one of the two confirmations of an upgrading push
    slot,           \* the entry those are about
    op,             \* the sync in progress
    buf,            \* cnfSyncScratch, of a push or a pull in progress
    working,        \* WORKING_CONFIG in EEPROM
    txq             \* mrbeeTxQueue

sync == <<screen, slot, op, buf, working>>
vars == <<version, base, sync, txq>>

Kinds == {"none", "query", "peek", "pull", "push"}
Outcomes == {"OK", "BUSY", "BAD_ENTRY", "EMPTY", "CHECKSUM_FAIL", "TIMEOUT_BEGIN",
             "TIMEOUT_DATA", "TIMEOUT_COMMIT", "VERSION_MISMATCH"}
Op == [kind : Kinds, entry : Entries \union {None},
       stage : {"BEGIN", "DATA", "COMMIT", "DONE", "SHOW"}, chunk : 1..Chunks,
       attempt : 0..MaxRetries, waiting : BOOLEAN,
       crc : Profiles \union {None},                        \* expectedCrc
       peeked : Layouts \union {CNF_VERSION_UNSET},         \* peekedVersion
       outcome : Outcomes \union {None}]

NewOp(kind, e) ==
    [kind |-> kind, entry |-> e, stage |-> "BEGIN", chunk |-> 1, attempt |-> 0,
     waiting |-> FALSE, crc |-> None, peeked |-> CNF_VERSION_UNSET, outcome |-> None]
NoOp == NewOp("none", None)

Own(t) == {p \in Profiles : Layout[p] = version[t]}

Init ==
    /\ BaseInit
    /\ working \in [Throttles -> Profiles] /\ \A t \in Throttles: working[t] \in Own(t)
    /\ screen = [t \in Throttles |-> "picker"]
    /\ slot = [t \in Throttles |-> None]
    /\ op = [t \in Throttles |-> NoOp]
    /\ buf = [t \in Throttles |-> Blank]
    /\ txq = [t \in Throttles |-> <<>>]

-----------------------------------------------------------------------------
(* Sending.                                                                *)

StatusPacket == [type |-> "status", sub |-> "BEGIN", entry |-> None, chunk |-> 0,
                 piece |-> None, crc |-> None]

Wire(kind) == IF kind = "push" THEN "push" ELSE "pull"

\* The request of the stage o is in.
Asked(o, b) ==
    [type |-> Wire(o.kind), sub |-> o.stage, entry |-> o.entry,
     chunk |-> IF o.stage = "DATA" THEN o.chunk ELSE 0,
     piece |-> IF o.kind = "push" /\ o.stage = "DATA" THEN b[o.chunk] ELSE None,
     crc |-> IF o.stage = "COMMIT" THEN b ELSE None]

Pushed(q, m) == IF Len(q) < QueueDepth THEN Append(q, m) ELSE q

\* The head of q goes on the air and is lost, or served.
Transmit(t, q) ==
    /\ txq' = [txq EXCEPT ![t] = Tail(q)]
    /\ UNCHANGED base \/ Serve(t, Head(q))

Send(t, m) == Transmit(t, Pushed(txq[t], m))

-----------------------------------------------------------------------------
(* cnfSendAndWait.                                                         *)

Attempt(t) ==
    /\ op[t].kind # "none" /\ op[t].stage \in {"BEGIN", "DATA", "COMMIT"}
    /\ ~op[t].waiting
    /\ op' = [op EXCEPT ![t].waiting = TRUE]
    /\ Send(t, Asked(op[t], buf[t]))
    /\ UNCHANGED <<version, screen, slot, buf, working>>

\* The next stage, or the end of the sync with its result.
Goes(t, stage, chunk) ==
    op' = [op EXCEPT ![t].stage = stage, ![t].chunk = chunk, ![t].attempt = 0,
                     ![t].waiting = FALSE]
Ends(t, stage, outcome) ==
    op' = [op EXCEPT ![t].stage = stage, ![t].chunk = 1, ![t].attempt = 0,
                     ![t].waiting = FALSE, ![t].outcome = outcome]

\* Mutant: an attempt that timed out does not count.
RetriedForEver(t) == [op EXCEPT ![t].waiting = FALSE]

Retried(t) == [op EXCEPT ![t].attempt = @ + 1, ![t].waiting = FALSE]

Silence == [BEGIN |-> "TIMEOUT_BEGIN", DATA |-> "TIMEOUT_DATA", COMMIT |-> "TIMEOUT_COMMIT"]

\* No matching reply in time: again, or give up. The query tells the base station first.
\* The limit of 15 s on a whole transfer is never reached: the attempts allow 14.72 s.
TimeOut(t) ==
    /\ op[t].waiting
    /\ IF op[t].attempt + 1 < MaxRetries
         THEN op' = Retried(t)
         ELSE Ends(t, IF op[t].kind = "query" /\ op[t].stage = "DATA" THEN "DONE" ELSE "SHOW",
                   Silence[op[t].stage])
    /\ UNCHANGED <<version, base, screen, slot, buf, working, txq>>

\* Mutant: the chunk of a DATA reply is not looked at.
MatchesAnyChunk(r, o) ==
    r.type = Wire(o.kind) /\ r.sub = o.stage /\ r.entry = o.entry

Matches(r, o) ==
    /\ r.type = Wire(o.kind) /\ r.sub = o.stage /\ r.entry = o.entry
    /\ o.stage = "DATA" => r.chunk = o.chunk

\* A reply is taken from the receive queue.
Pops(t) ==
    /\ op[t].waiting /\ replies[t] # <<>>
    /\ replies' = [replies EXCEPT ![t] = Tail(@)]
    /\ UNCHANGED <<version, entries, pin, session, scratch, screen, slot, working, txq>>

Discard(t) ==
    /\ Pops(t)
    /\ ~Matches(Head(replies[t]), op[t])
    /\ UNCHANGED <<op, buf>>

-----------------------------------------------------------------------------
(* What the caller makes of the reply it waited for.                       *)

\* Mutant: a profile of a newer layout is loaded.
RefusesOlder(t, r) == r.version # CNF_VERSION_UNSET /\ r.version < version[t]

\* A pulled entry of another layout is refused, but for one nobody has pinned.
RefusesLayout(t, r) == r.version # CNF_VERSION_UNSET /\ r.version # version[t]

Begun(t) ==
    LET r == Head(replies[t]) IN
    /\ Pops(t)
    /\ op[t].stage = "BEGIN" /\ op[t].kind # "peek" /\ Matches(r, op[t])
    /\ \/ r.status # "OK" /\ Ends(t, "SHOW", r.status)
       \/ /\ r.status = "OK" /\ op[t].kind = "pull" /\ RefusesLayout(t, r)
          /\ Ends(t, "DONE", "VERSION_MISMATCH")
       \/ /\ r.status = "OK" /\ ~(op[t].kind = "pull" /\ RefusesLayout(t, r))
          /\ op' = [op EXCEPT ![t].stage = "DATA", ![t].attempt = 0, ![t].waiting = FALSE,
                              ![t].crc = IF op[t].kind = "pull" THEN r.crc ELSE None]
    /\ UNCHANGED buf

\* The peek wants the version only, and any status but two will do.
Peeked(t) ==
    LET r == Head(replies[t]) IN
    /\ Pops(t)
    /\ op[t].stage = "BEGIN" /\ op[t].kind = "peek" /\ Matches(r, op[t])
    /\ op' = [op EXCEPT ![t].stage = "DONE", ![t].attempt = 0, ![t].waiting = FALSE,
                        ![t].peeked = r.version,
                        ![t].outcome = IF r.status \in {"BUSY", "BAD_ENTRY"} THEN r.status ELSE "OK"]
    /\ UNCHANGED buf

\* Mutant: the buffer is written whatever its checksum.
OkAnyway(b, crc) == "OK"

Verified(b, crc) == IF b = crc THEN "OK" ELSE "CHECKSUM_FAIL"

\* A chunk is acknowledged, or has arrived. The query needs the first one only.
Chunked(t) ==
    LET r == Head(replies[t])
        last == op[t].chunk = Chunks
        filled == [buf[t] EXCEPT ![op[t].chunk] = r.piece]
    IN
    /\ Pops(t)
    /\ op[t].stage = "DATA" /\ Matches(r, op[t])
    /\ \/ /\ r.status # "OK" /\ UNCHANGED buf
          /\ Ends(t, IF op[t].kind = "query" THEN "DONE" ELSE "SHOW", "BAD_ENTRY")
       \/ /\ r.status = "OK" /\ op[t].kind = "query" /\ UNCHANGED buf
          /\ Ends(t, "DONE", "OK")
       \/ /\ r.status = "OK" /\ op[t].kind = "push" /\ UNCHANGED buf
          /\ IF last THEN Goes(t, "COMMIT", 1) ELSE Goes(t, "DATA", op[t].chunk + 1)
       \/ /\ r.status = "OK" /\ op[t].kind = "pull"
          /\ buf' = [buf EXCEPT ![t] = filled]
          /\ IF last THEN Ends(t, "DONE", Verified(filled, op[t].crc))
             ELSE Goes(t, "DATA", op[t].chunk + 1)

Committed(t) ==
    LET r == Head(replies[t]) IN
    /\ Pops(t)
    /\ op[t].stage = "COMMIT" /\ Matches(r, op[t])
    /\ Ends(t, "SHOW", IF r.status = "OK" THEN "OK" ELSE "CHECKSUM_FAIL")
    /\ UNCHANGED buf

\* Mutant: only a table never pinned asks for the confirmations.
UpgradesUnsetOnly(t, v) == v = CNF_VERSION_UNSET

\* A push that would pin the table to a newer layout, and so wipe it, is confirmed twice.
Upgrades(t, v) == v = CNF_VERSION_UNSET \/ v < version[t]

Stored(o, b, w) == IF o.kind = "pull" /\ o.outcome = "OK" THEN b ELSE w

\* DONE is sent, and not waited for. A verified pull is then written to EEPROM; after a
\* peek the push starts at once, or the confirmations come up.
Done(t) ==
    /\ op[t].stage = "DONE"
    /\ Send(t, Asked(op[t], buf[t]))
    /\ IF op[t].kind = "peek" /\ op[t].outcome = "OK"
         THEN IF Upgrades(t, op[t].peeked)
                THEN /\ op' = [op EXCEPT ![t] = NoOp]
                     /\ screen' = [screen EXCEPT ![t] = "upgrade"]
                     /\ slot' = [slot EXCEPT ![t] = op[t].entry]
                     /\ UNCHANGED <<buf, working>>
                ELSE /\ op' = [op EXCEPT ![t] = NewOp("push", op[t].entry)]
                     /\ buf' = [buf EXCEPT ![t] = working[t]]
                     /\ UNCHANGED <<screen, slot, working>>
         ELSE /\ op' = [op EXCEPT ![t].stage = "SHOW"]
              /\ working' = [working EXCEPT ![t] = Stored(op[t], buf[t], @)]
              /\ UNCHANGED <<screen, slot, buf>>
    /\ UNCHANGED version

-----------------------------------------------------------------------------
(* The screens.                                                            *)

\* displaySyncResult; then back to the last screen.
Show(t) ==
    /\ op[t].stage = "SHOW"
    /\ op' = [op EXCEPT ![t] = NoOp]
    /\ buf' = [buf EXCEPT ![t] = Blank]
    /\ screen' = [screen EXCEPT ![t] = "picker"]
    /\ slot' = [slot EXCEPT ![t] = None]
    /\ UNCHANGED <<version, base, working, txq>>

Idle(t) == op[t].kind = "none"

\* A sync the crew asks for.
Starts(t, kind, e) ==
    /\ Idle(t) /\ replies[t] = <<>>
    /\ op' = [op EXCEPT ![t] = NewOp(kind, e)]
    /\ buf' = [buf EXCEPT ![t] = IF kind = "push" THEN working[t] ELSE Blank]
    /\ UNCHANGED <<version, base, working, txq>>

\* The picker at rest on an entry previews it; DOWN on a chosen one loads, or checks the
\* table before it saves.
FromPicker(t) ==
    /\ screen[t] = "picker"
    /\ \E kind \in Wants[t] \ {"edit"}, e \in Entries: Starts(t, kind, e)
    /\ UNCHANGED <<screen, slot>>

\* DOWN on "UPGRADE BASE?", then on "WIPE N01-20?"; MENU leaves either.
ConfirmUpgrade(t) ==
    /\ Idle(t) /\ screen[t] = "upgrade"
    /\ screen' = [screen EXCEPT ![t] = "wipe"]
    /\ UNCHANGED <<version, base, slot, op, buf, working, txq>>

ConfirmWipe(t) ==
    /\ screen[t] = "wipe"
    /\ Starts(t, "push", slot[t])
    /\ UNCHANGED <<screen, slot>>

Leave(t) ==
    /\ Idle(t) /\ screen[t] # "picker"
    /\ screen' = [screen EXCEPT ![t] = "picker"]
    /\ slot' = [slot EXCEPT ![t] = None]
    /\ UNCHANGED <<version, base, op, buf, working, txq>>

\* Elsewhere in the menus the crew saves another working configuration.
Edit(t) ==
    /\ Idle(t) /\ screen[t] = "picker" /\ "edit" \in Wants[t]
    /\ \E p \in Own(t): working' = [working EXCEPT ![t] = p]
    /\ UNCHANGED <<version, base, screen, slot, op, buf, txq>>

-----------------------------------------------------------------------------
(* The main loop between syncs. Bound: Backlog status packets.              *)

QueueStatus(t) ==
    /\ Idle(t) /\ Len(txq[t]) < Backlog[t]
    /\ txq' = [txq EXCEPT ![t] = Pushed(@, StatusPacket)]
    /\ UNCHANGED <<version, base, sync>>

LoopTransmit(t) ==
    /\ Idle(t) /\ txq[t] # <<>>
    /\ Transmit(t, txq[t])
    /\ UNCHANGED <<version, sync>>

\* PktHandler has no use for a reply nobody waits for.
LoopReceive(t) ==
    /\ Idle(t) /\ replies[t] # <<>>
    /\ replies' = [replies EXCEPT ![t] = Tail(@)]
    /\ UNCHANGED <<version, entries, pin, session, scratch, sync, txq>>

-----------------------------------------------------------------------------
Syncing(t) ==
    \/ Attempt(t) \/ TimeOut(t) \/ Discard(t) \/ Begun(t) \/ Peeked(t) \/ Chunked(t)
    \/ Committed(t) \/ Done(t) \/ Show(t)
Crew(t) ==
    FromPicker(t) \/ ConfirmUpgrade(t) \/ ConfirmWipe(t) \/ Leave(t) \/ Edit(t)
Loop(t) == QueueStatus(t) \/ LoopTransmit(t) \/ LoopReceive(t)

Next ==
    \/ \E t \in Throttles: Syncing(t) \/ Crew(t) \/ Loop(t)
    \/ Forget /\ UNCHANGED <<version, sync, txq>>

Spec == Init /\ [][Next]_vars

\* A sync in progress never stops by itself.
FairSpec == Spec /\ \A t \in Throttles: WF_vars(Syncing(t))

-----------------------------------------------------------------------------
TypeOK ==
    /\ BaseTypeOK
    /\ screen \in [Throttles -> {"picker", "upgrade", "wipe"}]
    /\ slot \in [Throttles -> Entries \union {None}]
    /\ op \in [Throttles -> Op]
    /\ buf \in [Throttles -> Buffers]
    /\ working \in [Throttles -> Profiles]
    /\ txq \in [Throttles -> Seq(Request)]
=============================================================================
