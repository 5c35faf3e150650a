------------------------------ MODULE CnfProofs ------------------------------
(***************************************************************************)
(* Proofs about CnfSync: its variables keep their types, nothing of a      *)
(* foreign layout is stored or run on, and no push wipes the table unless  *)
(* its crew has confirmed it twice.                                        *)
(*                                                                         *)
(* The first two are not inductive by themselves: a profile is on its way  *)
(* in requests, replies and buffers before it is stored or loaded, and     *)
(* IInv says of which layout it is at each station.                        *)
(*                                                                         *)
(* The third rests on what may happen to the pinned layout between the     *)
(* check before the confirmations and the push, which are separate         *)
(* transfers. The pin only rises, so that every version a reply or a peek  *)
(* has reported is a lower bound of it, and a push that went on without    *)
(* the confirmations never finds a table it would upgrade: WInv.           *)
(***************************************************************************)
EXTENDS CnfHistory, TLAPS

OfLayout(v) == {p \in Profiles : Layout[p] = v}

(* A request a throttle of layout v may send: the entry and the chunk exist, *)
(* and a COMMIT carries a profile of its layout.                             *)
Requests(v) ==
    {m \in Request :
       /\ m.type # "status" => m.entry \in Entries
       /\ m.type # "status" /\ m.sub = "DATA" => m.chunk \in 1..Chunks
       /\ m.type = "push" /\ m.sub = "COMMIT" => m.crc \in OfLayout(v)}

(* A reply that does not name a profile of another layout than it reports. *)
Replies ==
    {r \in Reply :
       r.type = "pull" /\ r.sub = "BEGIN" /\ r.status = "OK"
         => r.version # CNF_VERSION_UNSET /\ r.crc \in OfLayout(r.version)}

TableOfLayout ==
    \A e \in Entries: entries[e] # None =>
       pin # CNF_VERSION_UNSET /\ entries[e] \in OfLayout(pin)

(* A push that does not move the pin is by a throttle of the layout pinned. *)
SessionOfLayout ==
    session.kind \in {"push", "pushed"} =>
       session.who \in Throttles /\ (~session.advance => pin = version[session.who])

BaseInv ==
    /\ version \in [Throttles -> Layouts]
    /\ entries \in [Entries -> Profiles \union {None}]
    /\ pin \in Layouts \union {CNF_VERSION_UNSET}
    /\ session \in Session
    /\ scratch \in Buffers
    /\ replies \in [Throttles -> Seq(Replies)]
    /\ TableOfLayout
    /\ SessionOfLayout

QueuesFit ==
    /\ txq \in [Throttles -> Seq(Request)]
    /\ \A t \in Throttles: txq[t] \in Seq(Requests(version[t]))

ScreensFit ==
    /\ screen \in [Throttles -> {"picker", "upgrade", "wipe"}]
    /\ slot \in [Throttles -> Entries \union {None}]
    /\ \A t \in Throttles: screen[t] # "picker" => slot[t] \in Entries

OpFits(o) ==
    /\ o \in Op
    /\ o.kind # "none" => o.entry \in Entries
    /\ o.kind = "none" => o.stage = "BEGIN" /\ ~o.waiting
    /\ o.waiting => o.stage \in {"BEGIN", "DATA", "COMMIT"}

OpsFit == op \in [Throttles -> Op] /\ \A t \in Throttles: OpFits(op[t])

(* What a push sends, what a pull is told to expect, and what it has verified. *)
TransferOfLayout(v, o, b) ==
    /\ o.kind = "push" => b \in OfLayout(v)
    /\ o.kind = "pull" /\ o.stage = "DATA" => o.crc \in OfLayout(v)
    /\ o.kind = "pull" /\ o.stage = "DONE" /\ o.outcome = "OK" => b \in OfLayout(v)

TransfersOfLayout ==
    /\ buf \in [Throttles -> Buffers]
    /\ \A t \in Throttles: TransferOfLayout(version[t], op[t], buf[t])

WorkingOfLayout ==
    /\ working \in [Throttles -> Profiles]
    /\ \A t \in Throttles: working[t] \in OfLayout(version[t])

IInv ==
    BaseInv /\ QueuesFit /\ ScreensFit /\ OpsFit /\ TransfersOfLayout /\ WorkingOfLayout

-----------------------------------------------------------------------------
(* Sequences and profiles.                                                   *)

(* The head of a queue is one of its members, and the tail is a queue of them. *)
LEMMA HeadAndTail ==
    ASSUME NEW S, NEW q \in Seq(S), q # <<>>
    PROVE  Head(q) \in S /\ Tail(q) \in Seq(S)
  OBVIOUS

(* Pushing leaves a queue of the same kind that is not empty, full or not. *)
LEMMA PushedFits ==
    ASSUME NEW S, NEW q \in Seq(S), NEW m \in S
    PROVE  Pushed(q, m) \in Seq(S) /\ Pushed(q, m) # <<>>
  <1>1. CASE Len(q) < QueueDepth
    <2>1. Append(q, m) \in Seq(S) /\ Len(Append(q, m)) = Len(q) + 1
      OBVIOUS
    <2> QED BY <1>1, <2>1 DEF Pushed
  <1>2. CASE ~(Len(q) < QueueDepth)
    BY <1>2, SyncAssumption DEF Pushed
  <1> QED BY <1>1, <1>2

(* A profile is a buffer without gaps. *)
LEMMA ProfilesAreBuffers ==
    /\ Profiles \subseteq Buffers /\ Blank \in Buffers
    /\ \A v: OfLayout(v) \subseteq Profiles
    /\ \A p \in Profiles, c \in 1..Chunks: p[c] \in Pieces
    /\ None \notin Profiles
  BY ProfileAssumption, TransferAssumption DEF Buffers, Blank, OfLayout

LEMMA VersionsAreSet == CNF_VERSION_UNSET \notin Layouts
  BY DEF Layouts, CNF_VERSION_UNSET

-----------------------------------------------------------------------------
(* The base station.                                                         *)

(* Whatever it answers is a truthful reply, if BEGIN of a pull names what the *)
(* table holds.                                                               *)
LEMMA AnswersTruthfully ==
    ASSUME replies \in [Throttles -> Seq(Replies)],
           pin \in Layouts \union {CNF_VERSION_UNSET},
           NEW t \in Throttles, NEW m \in Request,
           m.type \in {"push", "pull"}, m.sub \in {"BEGIN", "DATA", "COMMIT"},
           m.entry \in Entries,
           NEW status \in Statuses, NEW crc \in Profiles \union {None},
           NEW piece \in Pieces \union {None},
           m.type = "pull" /\ m.sub = "BEGIN" /\ status = "OK"
             => pin # CNF_VERSION_UNSET /\ crc \in OfLayout(pin),
           Answer(t, m, status, crc, piece)
    PROVE  replies' \in [Throttles -> Seq(Replies)]
  <1> DEFINE r == [type |-> m.type, sub |-> m.sub, entry |-> m.entry, chunk |-> m.chunk,
                   status |-> status, version |-> pin, crc |-> crc, piece |-> piece]
  <1>1. m.chunk \in 0..Chunks
    BY DEF Request
  <1>2. r \in Reply
    BY <1>1 DEF Reply
  <1>3. r \in Replies
    BY <1>2 DEF Replies
  <1>4. CASE UNCHANGED replies
    BY <1>4
  <1>5. CASE replies' = [replies EXCEPT ![t] = Append(@, r)]
    <2>1. Append(replies[t], r) \in Seq(Replies)
      <3> HIDE DEF r
      <3> QED BY <1>3
    <2> QED BY <1>5, <2>1
  <1> QED BY <1>4, <1>5 DEF Answer

(* Every request a throttle may send leaves the table and the replies in order. *)
LEMMA ServeKeeps ==
    ASSUME BaseInv, NEW t \in Throttles, NEW m \in Requests(version[t]),
           Serve(t, m), UNCHANGED version
    PROVE  BaseInv'
  <1> DEFINE v == version[t]
  <1>0. /\ v \in Layouts /\ v # CNF_VERSION_UNSET
        /\ m \in Request
        /\ m.type # "status" => m.entry \in Entries
        /\ m.type # "status" /\ m.sub = "DATA" => m.chunk \in 1..Chunks
        /\ m.type = "push" /\ m.sub = "COMMIT" => m.crc \in OfLayout(v)
    BY VersionsAreSet DEF BaseInv, Requests
  <1>A. \A status \in Statuses:
           Refuse(t, m, status) /\ m.type \in {"push", "pull"}
             /\ m.sub \in {"BEGIN", "DATA", "COMMIT"} /\ status # "OK" => BaseInv'
    <2> SUFFICES ASSUME NEW status \in Statuses, Refuse(t, m, status),
                        m.type \in {"push", "pull"}, m.sub \in {"BEGIN", "DATA", "COMMIT"},
                        status # "OK"
                 PROVE  BaseInv'
      OBVIOUS
    <2>1. replies' \in [Throttles -> Seq(Replies)]
      BY <1>0, AnswersTruthfully DEF BaseInv, Refuse
    <2> QED BY <2>1 DEF Refuse, BaseInv, TableOfLayout, SessionOfLayout
  <1>1. CASE PushBegin(t, m)
    <2>1. CASE Busy(t) /\ Refuse(t, m, "BUSY")
      BY <1>1, <1>A, <2>1 DEF PushBegin, Statuses
    <2>2. CASE ~Busy(t) /\ OlderThanPin(t) /\ Refuse(t, m, "VERSION_MISMATCH")
      BY <1>1, <1>A, <2>2 DEF PushBegin, Statuses
    <2>3. CASE /\ ~Busy(t) /\ ~OlderThanPin(t)
               /\ session' = [kind |-> "push", who |-> t, entry |-> m.entry,
                              advance |-> Advances(t)]
               /\ scratch' = Blank
               /\ Answer(t, m, "OK", None, None)
               /\ UNCHANGED <<entries, pin>>
      <3>1. replies' \in [Throttles -> Seq(Replies)]
        BY <1>0, <1>1, <2>3, AnswersTruthfully DEF BaseInv, PushBegin, Statuses
      <3>2. Advances(t) \in BOOLEAN
        BY DEF Advances
      <3>3. session' \in Session
        <4> HIDE DEF v
        <4> QED BY <1>0, <1>1, <2>3, <3>2 DEF PushBegin, Session
      <3>4. ~Advances(t) => pin = version[t]
        <4>1. version[t] \in Nat /\ pin \in Nat
          <5>1. Layouts \subseteq Nat /\ CNF_VERSION_UNSET \in Nat
            BY DEF Layouts, CNF_VERSION_UNSET
          <5>2. version[t] \in Layouts /\ pin \in Layouts \union {CNF_VERSION_UNSET}
            BY DEF BaseInv
          <5> HIDE DEF v
          <5> QED BY <5>1, <5>2
        <4>2. ~OlderThanPin(t)
          BY <2>3
        <4> QED BY <4>1, <4>2 DEF Advances, OlderThanPin
      <3>5. SessionOfLayout'
        BY <2>3, <3>4 DEF SessionOfLayout
      <3>6. TableOfLayout'
        BY <2>3 DEF TableOfLayout, BaseInv
      <3>7. scratch' \in Buffers
        BY <2>3, ProfilesAreBuffers
      <3> QED BY <2>3, <3>1, <3>3, <3>5, <3>6, <3>7 DEF BaseInv
    <2> QED BY <1>1, <2>1, <2>2, <2>3 DEF PushBegin
  <1>2. CASE PushData(t, m)
    <2>1. CASE ~Serves(t, m, {"push"}) /\ Refuse(t, m, "BAD_ENTRY")
      BY <1>2, <1>A, <2>1 DEF PushData, Statuses
    <2>2. CASE /\ Serves(t, m, {"push"})
               /\ scratch' = [scratch EXCEPT ![m.chunk] = m.piece]
               /\ Answer(t, m, "OK", None, None)
               /\ UNCHANGED <<entries, pin, session>>
      <3>1. replies' \in [Throttles -> Seq(Replies)]
        BY <1>0, <1>2, <2>2, AnswersTruthfully DEF BaseInv, PushData, Statuses
      <3>2. scratch' \in Buffers
        BY <1>0, <2>2 DEF Buffers, Request, BaseInv
      <3> QED BY <2>2, <3>1, <3>2 DEF BaseInv, TableOfLayout, SessionOfLayout
    <2> QED BY <1>2, <2>1, <2>2 DEF PushData
  <1>3. CASE PushCommit(t, m)
    <2>1. CASE ~Serves(t, m, {"push", "pushed"}) /\ Refuse(t, m, "BAD_ENTRY")
      BY <1>3, <1>A, <2>1 DEF PushCommit, Statuses
    <2>2. CASE Serves(t, m, {"push", "pushed"}) /\ scratch # m.crc
                 /\ Refuse(t, m, "CHECKSUM_FAIL")
      BY <1>3, <1>A, <2>2 DEF PushCommit, Statuses
    <2>3. CASE /\ Serves(t, m, {"push", "pushed"}) /\ scratch = m.crc
               /\ entries' = [e \in Entries |-> IF e = m.entry THEN scratch
                                                ELSE IF session.advance THEN None ELSE entries[e]]
               /\ pin' = IF session.advance THEN version[t] ELSE pin
               /\ session' = [session EXCEPT !.kind = "pushed"]
               /\ Answer(t, m, "OK", None, None)
               /\ UNCHANGED scratch
      <3>1. replies' \in [Throttles -> Seq(Replies)]
        BY <1>0, <1>3, <2>3, AnswersTruthfully DEF BaseInv, PushCommit, Statuses
      <3>2. pin' = v
        BY <2>3 DEF BaseInv, SessionOfLayout, Serves
      <3>3. scratch \in OfLayout(v) /\ scratch \in Profiles
        BY <1>0, <1>3, <2>3, ProfilesAreBuffers DEF PushCommit
      <3>4. entries' \in [Entries -> Profiles \union {None}]
        BY <2>3, <3>3 DEF BaseInv
      <3>5. TableOfLayout'
        <4> SUFFICES ASSUME NEW e \in Entries, entries'[e] # None
                     PROVE  pin' # CNF_VERSION_UNSET /\ entries'[e] \in OfLayout(pin')
          BY DEF TableOfLayout, OfLayout
        <4>1. CASE e = m.entry
          BY <1>0, <2>3, <3>2, <3>3, <4>1
        <4>2. CASE e # m.entry
          <5>1. ~session.advance /\ entries'[e] = entries[e] /\ pin' = pin
            BY <2>3, <4>2
          <5> QED BY <5>1 DEF BaseInv, TableOfLayout
        <4> QED BY <4>1, <4>2
      <3>6. session' \in Session /\ SessionOfLayout'
        BY <2>3, <3>2 DEF BaseInv, Session, SessionOfLayout, Serves
      <3>7. pin' \in Layouts
        BY <1>0, <3>2
      <3> QED BY <2>3, <3>1, <3>4, <3>5, <3>6, <3>7 DEF BaseInv
    <2> QED BY <1>3, <2>1, <2>2, <2>3 DEF PushCommit
  <1>4. CASE PullBegin(t, m)
    <2>1. CASE Busy(t) /\ Refuse(t, m, "BUSY")
      BY <1>4, <1>A, <2>1 DEF PullBegin, Statuses
    <2>2. CASE /\ ~Busy(t)
               /\ session' = [kind |-> "pull", who |-> t, entry |-> m.entry, advance |-> FALSE]
               /\ scratch' = Blank
               /\ Answer(t, m, IF entries[m.entry] = None THEN "EMPTY" ELSE "OK",
                         entries[m.entry], None)
               /\ UNCHANGED <<entries, pin>>
      <3> DEFINE held == entries[m.entry]
                 status == IF held = None THEN "EMPTY" ELSE "OK"
      <3>1. held \in Profiles \union {None} /\ status \in Statuses
        BY <1>0, <1>4 DEF BaseInv, PullBegin, Statuses
      <3>2. status = "OK" => pin # CNF_VERSION_UNSET /\ held \in OfLayout(pin)
        BY <1>0, <1>4 DEF BaseInv, TableOfLayout, PullBegin
      <3>3. Answer(t, m, status, held, None)
        BY <2>2
      <3>4. replies' \in [Throttles -> Seq(Replies)]
        <4> HIDE DEF held, status
        <4> QED BY <1>0, <1>4, <3>1, <3>2, <3>3, AnswersTruthfully DEF BaseInv, PullBegin
      <3>5. session' \in Session /\ SessionOfLayout'
        BY <1>0, <1>4, <2>2 DEF Session, SessionOfLayout, PullBegin
      <3>6. TableOfLayout' /\ scratch' \in Buffers
        BY <2>2, ProfilesAreBuffers DEF TableOfLayout, BaseInv
      <3> QED BY <2>2, <3>4, <3>5, <3>6 DEF BaseInv
    <2> QED BY <1>4, <2>1, <2>2 DEF PullBegin
  <1>5. CASE PullData(t, m)
    <2>1. CASE entries[m.entry] = None /\ Refuse(t, m, "BAD_ENTRY")
      BY <1>5, <1>A, <2>1 DEF PullData, Statuses
    <2>2. CASE /\ entries[m.entry] # None
               /\ Answer(t, m, "OK", None, entries[m.entry][m.chunk])
               /\ UNCHANGED <<entries, pin, session, scratch>>
      <3>1. entries[m.entry][m.chunk] \in Pieces
        BY <1>0, <1>5, <2>2, ProfilesAreBuffers DEF BaseInv, PullData
      <3>2. replies' \in [Throttles -> Seq(Replies)]
        BY <1>0, <1>5, <2>2, <3>1, AnswersTruthfully DEF BaseInv, PullData, Statuses
      <3> QED BY <2>2, <3>2 DEF BaseInv, TableOfLayout, SessionOfLayout
    <2> QED BY <1>5, <2>1, <2>2 DEF PullData
  <1>6. CASE PullDone(t, m)
    <2>1. NoSession \in Session /\ NoSession.kind = "none"
      BY DEF NoSession, Session
    <2>2. session' \in Session /\ SessionOfLayout'
      BY <1>6, <2>1 DEF PullDone, BaseInv, SessionOfLayout
    <2> QED BY <1>6, <2>2 DEF PullDone, BaseInv, TableOfLayout
  <1> QED BY <1>1, <1>2, <1>3, <1>4, <1>5, <1>6 DEF Serve

-----------------------------------------------------------------------------
(* Sending and receiving.                                                    *)

(* The head of any queue of the throttle's requests may go on the air. *)
LEMMA TransmitKeeps ==
    ASSUME BaseInv, QueuesFit, NEW t \in Throttles, NEW q \in Seq(Requests(version[t])),
           q # <<>>, Transmit(t, q), UNCHANGED version
    PROVE  BaseInv' /\ QueuesFit'
  <1>1. Head(q) \in Requests(version[t]) /\ Tail(q) \in Seq(Requests(version[t]))
    BY HeadAndTail
  <1>2. BaseInv'
    <2>1. CASE UNCHANGED base
      BY <2>1 DEF base, BaseInv, TableOfLayout, SessionOfLayout
    <2>2. CASE Serve(t, Head(q))
      BY <1>1, <2>2, ServeKeeps
    <2> QED BY <2>1, <2>2 DEF Transmit
  <1>3. Tail(q) \in Seq(Request)
    BY <1>1 DEF Requests
  <1>4. txq' = [txq EXCEPT ![t] = Tail(q)]
    BY DEF Transmit
  <1>5. QueuesFit'
    BY <1>1, <1>3, <1>4 DEF QueuesFit, Requests
  <1> QED BY <1>2, <1>5

(* A request that fits may be sent at any time. *)
LEMMA SendKeeps ==
    ASSUME BaseInv, QueuesFit, NEW t \in Throttles, NEW m \in Requests(version[t]),
           Send(t, m), UNCHANGED version
    PROVE  BaseInv' /\ QueuesFit'
  <1>1. txq[t] \in Seq(Requests(version[t]))
    BY DEF QueuesFit
  <1> QED BY <1>1, PushedFits, TransmitKeeps DEF Send

(* The request of every stage fits. *)
LEMMA AskedFits ==
    ASSUME NEW v, NEW o, OpFits(o), o.kind # "none", o.stage # "SHOW",
           NEW b \in Buffers, TransferOfLayout(v, o, b)
    PROVE  Asked(o, b) \in Requests(v)
  <1>1. /\ o.entry \in Entries /\ o.chunk \in 1..Chunks
        /\ o.stage \in {"BEGIN", "DATA", "COMMIT", "DONE"}
    BY DEF OpFits, Op
  <1>2. Wire(o.kind) \in {"push", "pull"} /\ (Wire(o.kind) = "push" => o.kind = "push")
    BY DEF Wire
  <1>3. b[o.chunk] \in Pieces \union {None}
    BY <1>1 DEF Buffers
  <1>4. /\ Asked(o, b).type = Wire(o.kind) /\ Asked(o, b).sub = o.stage
        /\ Asked(o, b).entry = o.entry
        /\ Asked(o, b).chunk = IF o.stage = "DATA" THEN o.chunk ELSE 0
        /\ Asked(o, b).crc = IF o.stage = "COMMIT" THEN b ELSE None
    BY DEF Asked
  <1>5. Asked(o, b) \in Request
    BY <1>1, <1>2, <1>3, TransferAssumption DEF Asked, Request
  <1> QED BY <1>1, <1>2, <1>4, <1>5 DEF Requests, TransferOfLayout

(* Taking a reply from the queue. *)
LEMMA PopKeeps ==
    ASSUME BaseInv, NEW t \in Throttles, replies[t] # <<>>,
           replies' = [replies EXCEPT ![t] = Tail(@)],
           UNCHANGED <<version, entries, pin, session, scratch>>
    PROVE  BaseInv' /\ Head(replies[t]) \in Replies
  <1>1. Head(replies[t]) \in Replies /\ Tail(replies[t]) \in Seq(Replies)
    BY HeadAndTail DEF BaseInv
  <1> QED BY <1>1 DEF BaseInv, TableOfLayout, SessionOfLayout

-----------------------------------------------------------------------------
(* The sync in progress.                                                     *)

Others(t) ==
    \A u \in Throttles \ {t}: op'[u] = op[u] /\ buf'[u] = buf[u] /\ working'[u] = working[u]

(* A step of throttle t keeps the invariant if it does so for t itself. *)
LEMMA StepOfOne ==
    ASSUME IInv, NEW t \in Throttles, UNCHANGED version,
           BaseInv', QueuesFit', ScreensFit',
           op' \in [Throttles -> Op], buf' \in [Throttles -> Buffers],
           working' \in [Throttles -> Profiles], Others(t),
           OpFits(op'[t]), TransferOfLayout(version[t], op'[t], buf'[t]),
           working'[t] \in OfLayout(version[t])
    PROVE  IInv'
  <1>1. OpsFit'
    <2> SUFFICES ASSUME NEW u \in Throttles PROVE OpFits(op'[u])
      BY DEF OpsFit, OpFits
    <2>1. CASE u = t
      BY <2>1
    <2>2. CASE u # t
      BY <2>2 DEF Others, IInv, OpsFit
    <2> QED BY <2>1, <2>2
  <1>2. TransfersOfLayout'
    <2> SUFFICES ASSUME NEW u \in Throttles PROVE TransferOfLayout(version[u], op'[u], buf'[u])
      BY DEF TransfersOfLayout, TransferOfLayout, OfLayout
    <2>1. CASE u = t
      BY <2>1
    <2>2. CASE u # t
      BY <2>2 DEF Others, IInv, TransfersOfLayout
    <2> QED BY <2>1, <2>2
  <1>3. WorkingOfLayout'
    BY DEF WorkingOfLayout, Others, IInv, OfLayout
  <1> QED BY <1>1, <1>2, <1>3 DEF IInv

LEMMA NewOpFits ==
    /\ \A kind \in Kinds, e \in Entries: OpFits(NewOp(kind, e))
    /\ OpFits(NoOp)
  <1>1. 1 \in 1..Chunks /\ 0 \in 0..MaxRetries
    BY TransferAssumption, SyncAssumption
  <1>2. \A kind \in Kinds, e \in Entries \union {None}: NewOp(kind, e) \in Op
    BY <1>1 DEF NewOp, Op, Kinds
  <1>3. \A kind, e: /\ NewOp(kind, e).kind = kind /\ NewOp(kind, e).entry = e
                    /\ ~NewOp(kind, e).waiting
                    /\ NewOp(kind, e).stage = "BEGIN"
    BY DEF NewOp
  <1> QED BY <1>2, <1>3 DEF NoOp, OpFits, Kinds

(* The end of a sync, or of its waiting. *)
LEMMA EndsFits ==
    ASSUME OpsFit, NEW t \in Throttles, op[t].waiting, NEW stage \in {"DONE", "SHOW"},
           NEW outcome \in Outcomes, Ends(t, stage, outcome)
    PROVE  /\ op' \in [Throttles -> Op] /\ OpFits(op'[t])
           /\ op'[t].kind = op[t].kind /\ op'[t].stage = stage /\ op'[t].outcome = outcome
           /\ \A u \in Throttles \ {t}: op'[u] = op[u]
  <1>1. op[t] \in Op /\ OpFits(op[t])
    BY DEF OpsFit
  <1>2. op'[t] = [op[t] EXCEPT !.stage = stage, !.chunk = 1, !.attempt = 0,
                               !.waiting = FALSE, !.outcome = outcome]
    BY DEF Ends, OpsFit
  <1>3. op'[t] \in Op
    <2>1. 1 \in 1..Chunks /\ 0 \in 0..MaxRetries
      BY TransferAssumption, SyncAssumption
    <2>2. op'[t] = [kind |-> op[t].kind, entry |-> op[t].entry, stage |-> stage, chunk |-> 1,
                    attempt |-> 0, waiting |-> FALSE, crc |-> op[t].crc,
                    peeked |-> op[t].peeked, outcome |-> outcome]
      BY ONLY <1>1, <1>2 DEF Op
    <2> QED BY <1>1, <2>1, <2>2 DEF Op
  <1> QED BY <1>1, <1>2, <1>3 DEF OpsFit, Ends, OpFits

(* The next stage, or another attempt. *)
LEMMA GoesFits ==
    ASSUME OpsFit, NEW t \in Throttles, op[t].waiting, NEW stage \in {"DATA", "COMMIT"},
           NEW chunk \in 1..Chunks, Goes(t, stage, chunk)
    PROVE  /\ op' \in [Throttles -> Op] /\ OpFits(op'[t])
           /\ op'[t].kind = op[t].kind /\ op'[t].stage = stage /\ op'[t].crc = op[t].crc
           /\ \A u \in Throttles \ {t}: op'[u] = op[u]
  <1>1. op[t] \in Op /\ OpFits(op[t])
    BY DEF OpsFit
  <1>2. op'[t] = [op[t] EXCEPT !.stage = stage, !.chunk = chunk, !.attempt = 0,
                               !.waiting = FALSE]
    BY DEF Goes, OpsFit
  <1>3. op'[t] \in Op
    <2>1. 0 \in 0..MaxRetries
      BY SyncAssumption
    <2>2. op'[t] = [kind |-> op[t].kind, entry |-> op[t].entry, stage |-> stage,
                    chunk |-> chunk, attempt |-> 0, waiting |-> FALSE, crc |-> op[t].crc,
                    peeked |-> op[t].peeked, outcome |-> op[t].outcome]
      BY ONLY <1>1, <1>2 DEF Op
    <2> QED BY <1>1, <2>1, <2>2 DEF Op
  <1> QED BY <1>1, <1>2, <1>3 DEF OpsFit, Goes, OpFits

-----------------------------------------------------------------------------
(* One lemma per action of a sync.                                           *)

(* What the invariant says of the throttle that moves. *)
LEMMA AtThrottle ==
    ASSUME IInv, NEW t \in Throttles
    PROVE  /\ OpsFit /\ OpFits(op[t]) /\ op[t] \in Op
           /\ buf[t] \in Buffers /\ TransferOfLayout(version[t], op[t], buf[t])
           /\ working[t] \in OfLayout(version[t]) /\ working[t] \in Profiles
           /\ version[t] \in Layouts
           /\ op \in [Throttles -> Op] /\ buf \in [Throttles -> Buffers]
           /\ working \in [Throttles -> Profiles]
           /\ BaseInv /\ QueuesFit /\ ScreensFit
  BY DEF IInv, OpsFit, OpFits, TransfersOfLayout, WorkingOfLayout, BaseInv

(* A sync may end at any point, if what a pull hands over is verified. *)
LEMMA EndKeeps ==
    ASSUME IInv, NEW t \in Throttles, op[t].waiting,
           NEW stage \in {"DONE", "SHOW"}, NEW outcome \in Outcomes,
           Ends(t, stage, outcome), BaseInv', QueuesFit',
           UNCHANGED <<version, screen, slot, working>>,
           buf' \in [Throttles -> Buffers], \A u \in Throttles \ {t}: buf'[u] = buf[u],
           op[t].kind # "pull" => buf'[t] = buf[t],
           op[t].kind = "pull" /\ stage = "DONE" /\ outcome = "OK"
             => buf'[t] \in OfLayout(version[t])
    PROVE  IInv'
  <1>1. /\ op' \in [Throttles -> Op] /\ OpFits(op'[t])
        /\ op'[t].kind = op[t].kind /\ op'[t].stage = stage /\ op'[t].outcome = outcome
        /\ \A u \in Throttles \ {t}: op'[u] = op[u]
    BY AtThrottle, EndsFits
  <1>2. TransferOfLayout(version[t], op'[t], buf'[t])
    BY <1>1, AtThrottle DEF TransferOfLayout
  <1>3. ScreensFit' /\ Others(t)
    BY <1>1, AtThrottle DEF ScreensFit, Others
  <1> QED BY <1>1, <1>2, <1>3, AtThrottle, StepOfOne

LEMMA AttemptKeeps ==
    ASSUME IInv, NEW t \in Throttles, Attempt(t)
    PROVE  IInv'
  <1> USE AtThrottle
  <1>1. Asked(op[t], buf[t]) \in Requests(version[t])
    BY AskedFits DEF Attempt
  <1>2. BaseInv' /\ QueuesFit'
    BY <1>1, SendKeeps DEF Attempt
  <1>3. op'[t] = [op[t] EXCEPT !.waiting = TRUE] /\ \A u \in Throttles \ {t}: op'[u] = op[u]
    BY DEF Attempt
  <1>4. op'[t] \in Op
    BY <1>3 DEF Op
  <1>5. OpFits(op'[t]) /\ TransferOfLayout(version[t], op'[t], buf[t])
    BY <1>3, <1>4 DEF OpFits, TransferOfLayout, Attempt
  <1>6. op' \in [Throttles -> Op]
    BY <1>4 DEF Attempt
  <1>7. ScreensFit' /\ Others(t) /\ buf' = buf /\ working' = working /\ UNCHANGED version
    BY <1>3 DEF ScreensFit, Others, Attempt
  <1> QED BY <1>2, <1>3, <1>5, <1>6, <1>7, StepOfOne

(* A step that leaves the base station and the queue alone. *)
LEMMA QuietKeeps ==
    ASSUME BaseInv, QueuesFit, UNCHANGED <<version, base, txq>>
    PROVE  BaseInv' /\ QueuesFit'
  BY DEF base, BaseInv, TableOfLayout, SessionOfLayout, QueuesFit, Requests, OfLayout

LEMMA TimeOutKeeps ==
    ASSUME IInv, NEW t \in Throttles, TimeOut(t)
    PROVE  IInv'
  <1> USE AtThrottle
  <1>1. op[t].waiting /\ BaseInv' /\ QueuesFit' /\ UNCHANGED <<version, screen, slot, buf, working>>
    BY QuietKeeps DEF TimeOut
  <1>2. CASE op[t].attempt + 1 < MaxRetries
    <2>1. op' = Retried(t)
      BY <1>2 DEF TimeOut
    <2>2. op[t].attempt + 1 \in 0..MaxRetries
      BY <1>2, SyncAssumption DEF Op
    <2>3. /\ op'[t] = [op[t] EXCEPT !.attempt = @ + 1, !.waiting = FALSE]
          /\ \A u \in Throttles \ {t}: op'[u] = op[u]
      BY <2>1 DEF Retried
    <2>4. op'[t] \in Op
      BY <2>2, <2>3 DEF Op
    <2>5. OpFits(op'[t]) /\ TransferOfLayout(version[t], op'[t], buf[t])
      BY <2>3, <2>4 DEF OpFits, TransferOfLayout
    <2>6. op' \in [Throttles -> Op]
      BY <2>1, <2>4 DEF Retried
    <2>7. ScreensFit' /\ Others(t)
      BY <1>1, <2>3 DEF ScreensFit, Others
    <2> QED BY <1>1, <2>5, <2>6, <2>7, StepOfOne
  <1>3. CASE ~(op[t].attempt + 1 < MaxRetries)
    <2> DEFINE stage == IF op[t].kind = "query" /\ op[t].stage = "DATA" THEN "DONE" ELSE "SHOW"
    <2>1. Ends(t, stage, Silence[op[t].stage])
      BY <1>3 DEF TimeOut
    <2>2. Silence[op[t].stage] \in Outcomes
      BY DEF TimeOut, OpFits, Silence, Outcomes
    <2>3. stage \in {"DONE", "SHOW"} /\ (op[t].kind = "pull" => stage = "SHOW")
      OBVIOUS
    <2> HIDE DEF stage
    <2> QED BY <1>1, <2>1, <2>2, <2>3, EndKeeps
  <1> QED BY <1>2, <1>3

(* Taking a reply leaves everything but the transfer in order. *)
LEMMA PopsKeeps ==
    ASSUME IInv, NEW t \in Throttles, Pops(t)
    PROVE  /\ BaseInv' /\ QueuesFit' /\ ScreensFit'
           /\ UNCHANGED <<version, screen, slot, working>>
           /\ Head(replies[t]) \in Replies /\ Head(replies[t]) \in Reply /\ op[t].waiting
  <1>1. BaseInv' /\ Head(replies[t]) \in Replies
    BY PopKeeps DEF Pops, IInv
  <1>2. QueuesFit' /\ ScreensFit'
    BY DEF Pops, IInv, QueuesFit, ScreensFit, Requests, OfLayout
  <1> QED BY <1>1, <1>2 DEF Pops, Replies

LEMMA DiscardKeeps ==
    ASSUME IInv, NEW t \in Throttles, Discard(t)
    PROVE  IInv'
  <1>1. Pops(t) /\ UNCHANGED <<op, buf>>
    BY DEF Discard
  <1>2. Others(t)
    BY <1>1, PopsKeeps DEF Others
  <1> QED BY <1>1, <1>2, PopsKeeps, AtThrottle, StepOfOne

LEMMA CommittedKeeps ==
    ASSUME IInv, NEW t \in Throttles, Committed(t)
    PROVE  IInv'
  <1> DEFINE outcome == IF Head(replies[t]).status = "OK" THEN "OK" ELSE "CHECKSUM_FAIL"
  <1>1. Pops(t) /\ UNCHANGED buf /\ Ends(t, "SHOW", outcome) /\ outcome \in Outcomes
    BY DEF Committed, Outcomes
  <1> HIDE DEF outcome
  <1> QED BY <1>1, PopsKeeps, AtThrottle, EndKeeps

LEMMA BegunKeeps ==
    ASSUME IInv, NEW t \in Throttles, Begun(t)
    PROVE  IInv'
  <1> USE AtThrottle
  <1> DEFINE r == Head(replies[t])
  <1>1. Pops(t) /\ UNCHANGED buf /\ op[t].stage = "BEGIN" /\ op[t].waiting
    BY DEF Begun, Pops
  <1>2. BaseInv' /\ QueuesFit' /\ ScreensFit' /\ UNCHANGED <<version, screen, slot, working>>
    BY <1>1, PopsKeeps
  <1>3. r \in Reply /\ r \in Replies
    BY <1>1, PopsKeeps
  <1>4. r.type = Wire(op[t].kind) /\ r.sub = "BEGIN"
    BY DEF Begun, Matches
  <1> HIDE DEF r
  <1>5. CASE r.status # "OK" /\ Ends(t, "SHOW", r.status)
    <2>1. r.status \in Outcomes
      BY <1>3 DEF Reply, Statuses, Outcomes
    <2> QED BY <1>1, <1>2, <1>5, <2>1, EndKeeps
  <1>6. CASE Ends(t, "DONE", "VERSION_MISMATCH")
    <2>1. "VERSION_MISMATCH" \in Outcomes
      BY DEF Outcomes
    <2> QED BY <1>1, <1>2, <1>6, <2>1, EndKeeps
  <1>7. CASE /\ r.status = "OK" /\ ~(op[t].kind = "pull" /\ RefusesLayout(t, r))
             /\ op' = [op EXCEPT ![t].stage = "DATA", ![t].attempt = 0, ![t].waiting = FALSE,
                                 ![t].crc = IF op[t].kind = "pull" THEN r.crc ELSE None]
    <2> DEFINE crc == IF op[t].kind = "pull" THEN r.crc ELSE None
    <2>1. crc \in Profiles \union {None}
      BY <1>3 DEF Reply
    <2>2. op[t].kind = "pull" => crc \in OfLayout(version[t])
      <3>1. op[t].kind = "pull" => r.type = "pull"
        BY <1>4 DEF Wire
      <3> QED BY <1>3, <1>4, <1>7, <3>1 DEF Replies, RefusesLayout
    <2> HIDE DEF crc
    <2>3. op' = [op EXCEPT ![t].stage = "DATA", ![t].attempt = 0, ![t].waiting = FALSE,
                           ![t].crc = crc]
      BY <1>7 DEF crc
    <2>4. op'[t] = [kind |-> op[t].kind, entry |-> op[t].entry, stage |-> "DATA",
                    chunk |-> op[t].chunk, attempt |-> 0, waiting |-> FALSE, crc |-> crc,
                    peeked |-> op[t].peeked, outcome |-> op[t].outcome]
      <3>1. op \in [Throttles -> Op] /\ op[t] \in Op
        BY AtThrottle
      <3> QED BY ONLY <2>3, <3>1 DEF Op
    <2>5. 0 \in 0..MaxRetries
      BY SyncAssumption
    <2>6. op'[t] \in Op
      BY <2>1, <2>4, <2>5 DEF Op
    <2>7. OpFits(op'[t]) /\ TransferOfLayout(version[t], op'[t], buf[t])
      BY <1>1, <2>2, <2>4, <2>6 DEF OpFits, TransferOfLayout
    <2>8. op' \in [Throttles -> Op]
      BY <2>3, <2>4, <2>6
    <2>9. Others(t)
      BY <1>1, <1>2, <2>3 DEF Others
    <2> QED BY <1>1, <1>2, <2>7, <2>8, <2>9, StepOfOne
  <1> QED BY <1>5, <1>6, <1>7 DEF Begun, r

LEMMA PeekedKeeps ==
    ASSUME IInv, NEW t \in Throttles, Peeked(t)
    PROVE  IInv'
  <1> USE AtThrottle
  <1> DEFINE r == Head(replies[t])
             outcome == IF r.status \in {"BUSY", "BAD_ENTRY"} THEN r.status ELSE "OK"
  <1>1. Pops(t) /\ UNCHANGED buf /\ op[t].kind = "peek"
    BY DEF Peeked
  <1>2. BaseInv' /\ QueuesFit' /\ ScreensFit' /\ UNCHANGED <<version, screen, slot, working>>
    BY <1>1, PopsKeeps
  <1>3. r \in Reply
    BY <1>1, PopsKeeps
  <1>4. r.version \in Layouts \union {CNF_VERSION_UNSET} /\ outcome \in Outcomes
    BY <1>3 DEF Reply, Statuses, Outcomes
  <1>5. op' = [op EXCEPT ![t].stage = "DONE", ![t].attempt = 0, ![t].waiting = FALSE,
                         ![t].peeked = r.version, ![t].outcome = outcome]
    BY DEF Peeked
  <1> HIDE DEF r, outcome
  <1>6. op'[t] = [kind |-> op[t].kind, entry |-> op[t].entry, stage |-> "DONE",
                  chunk |-> op[t].chunk, attempt |-> 0, waiting |-> FALSE,
                  crc |-> op[t].crc, peeked |-> r.version, outcome |-> outcome]
    <2>1. op \in [Throttles -> Op] /\ op[t] \in Op
      BY AtThrottle
    <2> QED BY ONLY <1>5, <2>1 DEF Op
  <1>7. 0 \in 0..MaxRetries
    BY SyncAssumption
  <1>8. op'[t] \in Op
    BY <1>4, <1>6, <1>7 DEF Op
  <1>9. OpFits(op'[t]) /\ TransferOfLayout(version[t], op'[t], buf[t])
    BY <1>1, <1>6, <1>8 DEF OpFits, TransferOfLayout
  <1>10. op' \in [Throttles -> Op]
    BY <1>5, <1>6, <1>8
  <1>11. Others(t)
    BY <1>1, <1>2, <1>5 DEF Others
  <1> QED BY <1>1, <1>2, <1>9, <1>10, <1>11, StepOfOne

(* Another chunk of the same transfer, or its COMMIT. *)
LEMMA GoKeeps ==
    ASSUME IInv, NEW t \in Throttles, op[t].waiting, op[t].stage = "DATA",
           NEW stage \in {"DATA", "COMMIT"}, NEW chunk \in 1..Chunks,
           Goes(t, stage, chunk), BaseInv', QueuesFit',
           UNCHANGED <<version, screen, slot, working>>,
           buf' \in [Throttles -> Buffers], \A u \in Throttles \ {t}: buf'[u] = buf[u],
           op[t].kind # "pull" => buf'[t] = buf[t]
    PROVE  IInv'
  <1>1. /\ op' \in [Throttles -> Op] /\ OpFits(op'[t])
        /\ op'[t].kind = op[t].kind /\ op'[t].stage = stage /\ op'[t].crc = op[t].crc
        /\ \A u \in Throttles \ {t}: op'[u] = op[u]
    BY AtThrottle, GoesFits
  <1>2. TransferOfLayout(version[t], op'[t], buf'[t])
    BY <1>1, AtThrottle DEF TransferOfLayout
  <1>3. ScreensFit' /\ Others(t)
    BY <1>1, AtThrottle DEF ScreensFit, Others
  <1> QED BY <1>1, <1>2, <1>3, AtThrottle, StepOfOne

LEMMA ChunkedKeeps ==
    ASSUME IInv, NEW t \in Throttles, Chunked(t)
    PROVE  IInv'
  <1> USE AtThrottle
  <1> DEFINE r == Head(replies[t])
             last == op[t].chunk = Chunks
             filled == [buf[t] EXCEPT ![op[t].chunk] = r.piece]
  <1>1. Pops(t) /\ op[t].stage = "DATA" /\ op[t].waiting
    BY DEF Chunked, Pops
  <1>2. BaseInv' /\ QueuesFit' /\ UNCHANGED <<version, screen, slot, working>>
    BY <1>1, PopsKeeps
  <1>3. r \in Reply
    BY <1>1, PopsKeeps
  <1>4. op[t].chunk \in 1..Chunks /\ 1 \in 1..Chunks
        /\ (op[t].chunk # Chunks => op[t].chunk + 1 \in 1..Chunks)
    BY TransferAssumption DEF Op
  <1>5. filled \in Buffers
    BY <1>3, <1>4 DEF Buffers, Reply
  <1>6. Verified(filled, op[t].crc) \in Outcomes
        /\ (Verified(filled, op[t].crc) = "OK" => filled = op[t].crc)
    BY DEF Verified, Outcomes
  <1>7. {"OK", "BAD_ENTRY"} \subseteq Outcomes
    BY DEF Outcomes
  <1>8. \/ UNCHANGED buf /\ Ends(t, IF op[t].kind = "query" THEN "DONE" ELSE "SHOW", "BAD_ENTRY")
        \/ UNCHANGED buf /\ op[t].kind = "query" /\ Ends(t, "DONE", "OK")
        \/ /\ UNCHANGED buf
           /\ IF last THEN Goes(t, "COMMIT", 1) ELSE Goes(t, "DATA", op[t].chunk + 1)
        \/ /\ op[t].kind = "pull" /\ buf' = [buf EXCEPT ![t] = filled]
           /\ IF last THEN Ends(t, "DONE", Verified(filled, op[t].crc))
              ELSE Goes(t, "DATA", op[t].chunk + 1)
    BY DEF Chunked
  <1> HIDE DEF r, last, filled
  <1>9. CASE UNCHANGED buf /\ Ends(t, IF op[t].kind = "query" THEN "DONE" ELSE "SHOW", "BAD_ENTRY")
    <2>1. CASE op[t].kind = "query"
      BY <1>1, <1>2, <1>7, <1>9, <2>1, EndKeeps
    <2>2. CASE op[t].kind # "query"
      BY <1>1, <1>2, <1>7, <1>9, <2>2, EndKeeps
    <2> QED BY <2>1, <2>2
  <1>10. CASE UNCHANGED buf /\ op[t].kind = "query" /\ Ends(t, "DONE", "OK")
    BY <1>1, <1>2, <1>7, <1>10, EndKeeps
  <1>11. CASE /\ UNCHANGED buf
              /\ IF last THEN Goes(t, "COMMIT", 1) ELSE Goes(t, "DATA", op[t].chunk + 1)
    <2>1. CASE last
      BY <1>1, <1>2, <1>4, <1>11, <2>1, GoKeeps
    <2>2. CASE ~last
      BY <1>1, <1>2, <1>4, <1>11, <2>2, GoKeeps DEF last
    <2> QED BY <2>1, <2>2
  <1>12. CASE /\ op[t].kind = "pull" /\ buf' = [buf EXCEPT ![t] = filled]
              /\ IF last THEN Ends(t, "DONE", Verified(filled, op[t].crc))
                 ELSE Goes(t, "DATA", op[t].chunk + 1)
    <2>1. /\ buf' \in [Throttles -> Buffers] /\ buf'[t] = filled
          /\ \A u \in Throttles \ {t}: buf'[u] = buf[u]
      BY <1>5, <1>12
    <2>2. CASE last
      <3>1. op[t].crc \in OfLayout(version[t])
        BY <1>1, <1>12 DEF TransferOfLayout
      <3> QED BY <1>1, <1>2, <1>6, <1>12, <2>1, <2>2, <3>1, EndKeeps
    <2>3. CASE ~last
      BY <1>1, <1>2, <1>4, <1>12, <2>1, <2>3, GoKeeps DEF last
    <2> QED BY <2>2, <2>3
  <1> QED BY <1>8, <1>9, <1>10, <1>11, <1>12

LEMMA DoneKeeps ==
    ASSUME IInv, NEW t \in Throttles, Done(t)
    PROVE  IInv'
  <1> USE AtThrottle
  <1>1. op[t].stage = "DONE" /\ Send(t, Asked(op[t], buf[t])) /\ UNCHANGED version
    BY DEF Done
  <1>2. op[t].kind # "none" /\ op[t].entry \in Entries /\ ~op[t].waiting
    BY <1>1 DEF OpFits
  <1>3. Asked(op[t], buf[t]) \in Requests(version[t])
    BY <1>1, <1>2, AskedFits
  <1>4. BaseInv' /\ QueuesFit'
    BY <1>1, <1>3, SendKeeps
  <1>5. CASE /\ op' = [op EXCEPT ![t] = NoOp]
             /\ screen' = [screen EXCEPT ![t] = "upgrade"]
             /\ slot' = [slot EXCEPT ![t] = op[t].entry]
             /\ UNCHANGED <<buf, working>>
    <2>1. OpFits(NoOp) /\ NoOp \in Op /\ TransferOfLayout(version[t], NoOp, buf[t])
      BY NewOpFits DEF OpFits, TransferOfLayout, NoOp, NewOp
    <2>2. ScreensFit'
      BY <1>2, <1>5 DEF ScreensFit
    <2>3. op' \in [Throttles -> Op] /\ op'[t] = NoOp /\ Others(t)
      BY <1>5, <2>1 DEF Others
    <2> QED BY <1>1, <1>4, <1>5, <2>1, <2>2, <2>3, StepOfOne
  <1>6. CASE /\ op' = [op EXCEPT ![t] = NewOp("push", op[t].entry)]
             /\ buf' = [buf EXCEPT ![t] = working[t]]
             /\ UNCHANGED <<screen, slot, working>>
    <2> DEFINE o == NewOp("push", op[t].entry)
    <2>1. o.kind = "push" /\ OpFits(o) /\ o \in Op
      BY <1>2, NewOpFits DEF OpFits, NewOp, Kinds
    <2>2. working[t] \in Buffers /\ TransferOfLayout(version[t], o, working[t])
      <3> HIDE DEF o
      <3> QED BY <2>1, ProfilesAreBuffers DEF TransferOfLayout
    <2> HIDE DEF o
    <2>3. ScreensFit'
      BY <1>6 DEF ScreensFit
    <2>4. /\ op' \in [Throttles -> Op] /\ op'[t] = o
          /\ buf' \in [Throttles -> Buffers] /\ buf'[t] = working[t] /\ Others(t)
      BY <1>6, <2>1, <2>2 DEF Others, o
    <2> QED BY <1>1, <1>4, <1>6, <2>1, <2>2, <2>3, <2>4, StepOfOne
  <1>7. CASE /\ op' = [op EXCEPT ![t].stage = "SHOW"]
             /\ working' = [working EXCEPT ![t] = Stored(op[t], buf[t], @)]
             /\ UNCHANGED <<screen, slot, buf>>
    <2>1. op'[t] = [op[t] EXCEPT !.stage = "SHOW"]
      BY <1>7
    <2>2. op'[t] \in Op /\ OpFits(op'[t]) /\ TransferOfLayout(version[t], op'[t], buf[t])
      BY <1>1, <1>2, <2>1 DEF Op, OpFits, TransferOfLayout
    <2>3. Stored(op[t], buf[t], working[t]) \in OfLayout(version[t])
      BY <1>1 DEF Stored, TransferOfLayout
    <2>4. /\ working' \in [Throttles -> Profiles]
          /\ working'[t] = Stored(op[t], buf[t], working[t])
      BY <1>7, <2>3, ProfilesAreBuffers
    <2>5. op' \in [Throttles -> Op] /\ Others(t) /\ ScreensFit'
      BY <1>7, <2>1, <2>2 DEF Others, ScreensFit
    <2> QED BY <1>1, <1>4, <1>7, <2>2, <2>3, <2>4, <2>5, StepOfOne
  <1> QED BY <1>5, <1>6, <1>7 DEF Done

-----------------------------------------------------------------------------
(* One lemma per action of the screens and of the main loop.                 *)

(* A throttle at rest, whatever its buffer holds. *)
LEMMA RestFits ==
    ASSUME NEW v, NEW b
    PROVE  OpFits(NoOp) /\ NoOp \in Op /\ TransferOfLayout(v, NoOp, b)
  BY NewOpFits DEF OpFits, TransferOfLayout, NoOp, NewOp

LEMMA ShowKeeps ==
    ASSUME IInv, NEW t \in Throttles, Show(t)
    PROVE  IInv'
  <1> USE AtThrottle
  <1>1. BaseInv' /\ QueuesFit' /\ UNCHANGED <<version, working>>
    BY QuietKeeps DEF Show
  <1>2. /\ op' \in [Throttles -> Op] /\ op'[t] = NoOp
        /\ buf' \in [Throttles -> Buffers] /\ Others(t)
    BY <1>1, RestFits, ProfilesAreBuffers DEF Show, Others
  <1>3. ScreensFit'
    BY DEF Show, ScreensFit
  <1> QED BY <1>1, <1>2, <1>3, RestFits, StepOfOne

(* A sync starts empty, or with the whole working configuration. *)
LEMMA StartKeeps ==
    ASSUME IInv, NEW t \in Throttles, NEW kind \in Kinds, NEW e \in Entries,
           Starts(t, kind, e), UNCHANGED <<screen, slot>>
    PROVE  IInv'
  <1> USE AtThrottle
  <1> DEFINE o == NewOp(kind, e)
             b == IF kind = "push" THEN working[t] ELSE Blank
  <1>1. BaseInv' /\ QueuesFit' /\ UNCHANGED <<version, working>>
    BY QuietKeeps DEF Starts
  <1>2. o.kind = kind /\ o.stage = "BEGIN" /\ OpFits(o) /\ o \in Op
    BY NewOpFits DEF OpFits, NewOp
  <1>3. b \in Buffers /\ (kind = "push" => b \in OfLayout(version[t]))
    BY ProfilesAreBuffers
  <1>4. op' = [op EXCEPT ![t] = o] /\ buf' = [buf EXCEPT ![t] = b]
    BY DEF Starts
  <1> HIDE DEF o, b
  <1>5. /\ op' \in [Throttles -> Op] /\ op'[t] = o
        /\ buf' \in [Throttles -> Buffers] /\ buf'[t] = b /\ Others(t)
    BY <1>1, <1>2, <1>3, <1>4 DEF Others
  <1>6. TransferOfLayout(version[t], o, b) /\ ScreensFit'
    BY <1>2, <1>3 DEF TransferOfLayout, ScreensFit
  <1> QED BY <1>1, <1>2, <1>5, <1>6, StepOfOne

(* Where nothing of the sync changes, there is nothing to show of it. *)
LEMMA SameTransferKeeps ==
    ASSUME IInv, NEW t \in Throttles, BaseInv', QueuesFit', ScreensFit',
           UNCHANGED <<version, op, buf, working>>
    PROVE  IInv'
  BY AtThrottle, StepOfOne DEF Others

LEMMA CrewKeeps ==
    ASSUME IInv, NEW t \in Throttles, Crew(t)
    PROVE  IInv'
  <1> USE AtThrottle
  <1>1. CASE FromPicker(t)
    <2>1. PICK kind \in Wants[t] \ {"edit"}, e \in Entries: Starts(t, kind, e)
      BY <1>1 DEF FromPicker
    <2>2. kind \in Kinds
      BY SyncAssumption DEF Kinds
    <2> QED BY <1>1, <2>1, <2>2, StartKeeps DEF FromPicker
  <1>2. CASE ConfirmUpgrade(t)
    <2>1. BaseInv' /\ QueuesFit' /\ ScreensFit'
      BY <1>2, QuietKeeps DEF ConfirmUpgrade, ScreensFit
    <2> QED BY <1>2, <2>1, SameTransferKeeps DEF ConfirmUpgrade
  <1>3. CASE ConfirmWipe(t)
    <2>1. slot[t] \in Entries /\ "push" \in Kinds
      BY <1>3 DEF ConfirmWipe, ScreensFit, Kinds
    <2> QED BY <1>3, <2>1, StartKeeps DEF ConfirmWipe
  <1>4. CASE Leave(t)
    <2>1. BaseInv' /\ QueuesFit' /\ ScreensFit'
      BY <1>4, QuietKeeps DEF Leave, ScreensFit
    <2> QED BY <1>4, <2>1, SameTransferKeeps DEF Leave
  <1>5. CASE Edit(t)
    <2>1. BaseInv' /\ QueuesFit' /\ ScreensFit' /\ UNCHANGED <<version, op, buf>>
      BY <1>5, QuietKeeps DEF Edit, ScreensFit
    <2>2. PICK p \in Own(t): working' = [working EXCEPT ![t] = p]
      BY <1>5 DEF Edit
    <2>3. p \in OfLayout(version[t]) /\ p \in Profiles
      BY DEF Own, OfLayout
    <2>4. working' \in [Throttles -> Profiles] /\ working'[t] = p /\ Others(t)
      BY <2>1, <2>2, <2>3 DEF Others
    <2> QED BY <2>1, <2>3, <2>4, StepOfOne
  <1> QED BY <1>1, <1>2, <1>3, <1>4, <1>5 DEF Crew

LEMMA LoopKeeps ==
    ASSUME IInv, NEW t \in Throttles, Loop(t)
    PROVE  IInv'
  <1> USE AtThrottle
  <1>1. CASE QueueStatus(t)
    <2>1. StatusPacket \in Requests(version[t]) /\ StatusPacket \in Request
      BY TransferAssumption DEF StatusPacket, Requests, Request
    <2>2. txq \in [Throttles -> Seq(Request)] /\ txq[t] \in Seq(Requests(version[t]))
      BY DEF QueuesFit
    <2>3. /\ Pushed(txq[t], StatusPacket) \in Seq(Requests(version[t]))
          /\ Pushed(txq[t], StatusPacket) \in Seq(Request)
      BY <2>1, <2>2, PushedFits
    <2>4. txq' = [txq EXCEPT ![t] = Pushed(txq[t], StatusPacket)]
          /\ UNCHANGED <<version, base, sync>>
      BY <1>1 DEF QueueStatus
    <2>5. QueuesFit'
      BY <2>2, <2>3, <2>4 DEF QueuesFit, Requests, OfLayout
    <2>6. BaseInv' /\ ScreensFit'
      BY <2>4 DEF base, sync, BaseInv, TableOfLayout, SessionOfLayout, ScreensFit
    <2> QED BY <2>4, <2>5, <2>6, SameTransferKeeps DEF sync
  <1>2. CASE LoopTransmit(t)
    <2>1. BaseInv' /\ QueuesFit'
      BY <1>2, TransmitKeeps DEF LoopTransmit, QueuesFit
    <2>2. ScreensFit' /\ UNCHANGED <<version, op, buf, working>>
      BY <1>2 DEF LoopTransmit, sync, ScreensFit
    <2> QED BY <2>1, <2>2, SameTransferKeeps
  <1>3. CASE LoopReceive(t)
    <2>1. BaseInv'
      BY <1>3, PopKeeps DEF LoopReceive
    <2>2. QueuesFit' /\ ScreensFit' /\ UNCHANGED <<version, op, buf, working>>
      BY <1>3 DEF LoopReceive, sync, QueuesFit, ScreensFit, Requests, OfLayout
    <2> QED BY <2>1, <2>2, SameTransferKeeps
  <1> QED BY <1>1, <1>2, <1>3 DEF Loop

(* The base station forgets a transfer. *)
LEMMA ForgetKeeps ==
    ASSUME IInv, Forget, UNCHANGED <<version, sync, txq>>
    PROVE  IInv'
  <1>1. NoSession \in Session /\ NoSession.kind = "none"
    BY DEF NoSession, Session
  <1>2. BaseInv'
    BY <1>1, ProfilesAreBuffers DEF Forget, IInv, BaseInv, TableOfLayout, SessionOfLayout
  <1>3. QueuesFit' /\ ScreensFit' /\ OpsFit'
    BY DEF sync, IInv, QueuesFit, ScreensFit, OpsFit, OpFits, Requests, OfLayout
  <1>4. TransfersOfLayout' /\ WorkingOfLayout'
    BY DEF sync, IInv, TransfersOfLayout, TransferOfLayout, WorkingOfLayout, OfLayout
  <1> QED BY <1>2, <1>3, <1>4 DEF IInv

-----------------------------------------------------------------------------
(* The theorems.                                                             *)

LEMMA InitLemma == Init => IInv
  <1> SUFFICES ASSUME Init PROVE IInv
    OBVIOUS
  <1>1. BaseInv
    <2>1. version \in [Throttles -> Layouts]
      BY ProfileAssumption DEF Init, BaseInit
    <2>2. NoSession \in Session /\ NoSession.kind = "none"
      BY DEF NoSession, Session
    <2>3. replies \in [Throttles -> Seq(Replies)]
      BY DEF Init, BaseInit
    <2> QED BY <2>1, <2>2, <2>3, ProfilesAreBuffers
            DEF Init, BaseInit, BaseInv, TableOfLayout, SessionOfLayout
  <1>2. QueuesFit
    BY DEF Init, QueuesFit
  <1>3. ScreensFit
    BY DEF Init, ScreensFit
  <1>4. OpsFit
    BY RestFits DEF Init, OpsFit
  <1>5. TransfersOfLayout
    BY RestFits, ProfilesAreBuffers DEF Init, TransfersOfLayout
  <1>6. WorkingOfLayout
    BY DEF Init, WorkingOfLayout, Own, OfLayout
  <1> QED BY <1>1, <1>2, <1>3, <1>4, <1>5, <1>6 DEF IInv

LEMMA StepLemma == IInv /\ [Next]_vars => IInv'
  <1> SUFFICES ASSUME IInv, [Next]_vars PROVE IInv'
    OBVIOUS
  <1>1. ASSUME NEW t \in Throttles, Syncing(t) PROVE IInv'
    BY <1>1, AttemptKeeps, TimeOutKeeps, DiscardKeeps, BegunKeeps, PeekedKeeps,
       ChunkedKeeps, CommittedKeeps, DoneKeeps, ShowKeeps DEF Syncing
  <1>2. ASSUME NEW t \in Throttles, Crew(t) PROVE IInv'
    BY <1>2, CrewKeeps
  <1>3. ASSUME NEW t \in Throttles, Loop(t) PROVE IInv'
    BY <1>3, LoopKeeps
  <1>4. CASE Forget /\ UNCHANGED <<version, sync, txq>>
    BY <1>4, ForgetKeeps
  <1>5. CASE UNCHANGED vars
    <2>1. BaseInv' /\ QueuesFit'
      BY <1>5, QuietKeeps DEF vars, IInv
    <2>2. ScreensFit' /\ OpsFit'
      BY <1>5 DEF vars, sync, IInv, ScreensFit, OpsFit, OpFits
    <2>3. TransfersOfLayout' /\ WorkingOfLayout'
      BY <1>5 DEF vars, sync, IInv, TransfersOfLayout, TransferOfLayout, WorkingOfLayout,
                  OfLayout
    <2> QED BY <2>1, <2>2, <2>3 DEF IInv
  <1> QED BY <1>1, <1>2, <1>3, <1>4, <1>5 DEF Next

(* Every variable of the base station and of the throttles keeps its type: a transfer  *)
(* never leaves its buffers, stages and counters (cst-sync.c, cnfSendAndWait).          *)
THEOREM TypeCorrect == Spec => []TypeOK
  <1>1. IInv => TypeOK
    <2> SUFFICES ASSUME IInv PROVE TypeOK
      OBVIOUS
    <2>1. replies \in [Throttles -> Seq(Reply)]
      <3>1. Seq(Replies) \subseteq Seq(Reply)
        BY DEF Replies
      <3> QED BY <3>1 DEF IInv, BaseInv
    <2> QED BY <2>1 DEF IInv, TypeOK, BaseTypeOK, BaseInv, QueuesFit, ScreensFit, OpsFit,
                        TransfersOfLayout, WorkingOfLayout
  <1> QED BY <1>1, InitLemma, StepLemma, PTL DEF Spec

(* What a throttle runs on is of its own layout, and what the table holds is of the     *)
(* layout pinned, for any number of throttles of any versions and whatever is lost, late *)
(* or retried (the checks of syncPullSharedCnf and of a push's BEGIN).                  *)
THEOREM OnlyOwnLayout == Spec => []LayoutsMatch
  <1>1. IInv => LayoutsMatch
    BY DEF IInv, WorkingOfLayout, BaseInv, TableOfLayout, OfLayout, LayoutsMatch
  <1> QED BY <1>1, InitLemma, StepLemma, PTL DEF Spec

-----------------------------------------------------------------------------
(* The wipes. *)

(* The table is pinned to layout v or a newer one. *)
AtLeast(v) == pin # CNF_VERSION_UNSET /\ v <= pin

Reported(v) == v = CNF_VERSION_UNSET \/ AtLeast(v)
ReportedReply == {r \in Reply : Reported(r.version)}
NoPush == {m \in Request : m.type # "push"}

(* What replies and peeks say of the pin. *)
RepliesReport == replies \in [Throttles -> Seq(ReportedReply)]
PeeksReport == \A t \in Throttles: Reported(op[t].peeked)

(* A push that will upgrade the table is of a newer layout, and one that has, has left   *)
(* its own entry only.                                                                   *)
Advancing == session.kind = "push" /\ session.advance
AdvanceFits ==
    /\ Advancing => ~AtLeast(version[session.who])
    /\ session.kind = "pushed" => pin = version[session.who]
    /\ session.kind = "pushed" /\ session.advance =>
         \A e \in Entries \ {session.entry}: entries[e] = None

AdvanceConfirmed == Advancing => confirmed[session.who]

(* A throttle with a push on its way has confirmed it, or the table needs no upgrade. *)
Harmless(t) == confirmed[t] \/ AtLeast(version[t])
PushesHarmless ==
    \A t \in Throttles: Harmless(t) \/ (op[t].kind # "push" /\ txq[t] \in Seq(NoPush))

WInv ==
    /\ IInv /\ confirmed \in [Throttles -> BOOLEAN]
    /\ RepliesReport /\ PeeksReport /\ AdvanceFits /\ AdvanceConfirmed /\ PushesHarmless

(* What a step may do to the base station. *)
PinRises == \A v \in Layouts: AtLeast(v) => AtLeast(v)'
WipesConfirmed ==
    \A e \in Entries: entries[e] # None /\ entries'[e] = None => confirmed[session.who]
Advancing1Confirmed == Advancing' => confirmed[session'.who]
BaseStep ==
    PinRises /\ WipesConfirmed /\ Advancing1Confirmed /\ RepliesReport' /\ AdvanceFits'

-----------------------------------------------------------------------------
(* The base station.                                                         *)

LEMMA VersionsAreNumbers == Layouts \subseteq Nat /\ CNF_VERSION_UNSET \in Nat
  BY DEF Layouts, CNF_VERSION_UNSET

(* What was reported stays a lower bound while the pin rises. *)
LEMMA ReportsLast ==
    ASSUME PinRises
    PROVE  /\ \A v \in Layouts \union {CNF_VERSION_UNSET}: Reported(v) => Reported(v)'
           /\ ReportedReply \subseteq ReportedReply'
  <1>1. \A v \in Layouts \union {CNF_VERSION_UNSET}: Reported(v) => Reported(v)'
    BY DEF PinRises, Reported
  <1>2. \A r \in Reply: r.version \in Layouts \union {CNF_VERSION_UNSET}
    BY DEF Reply
  <1> QED BY <1>1, <1>2 DEF ReportedReply

(* A step that leaves pin, table and transfer alone. *)
LEMMA SameBase ==
    ASSUME WInv, UNCHANGED <<version, entries, pin, session>>,
           replies' \in [Throttles -> Seq(ReportedReply)]
    PROVE  BaseStep
  <1>1. PinRises /\ WipesConfirmed /\ Advancing1Confirmed /\ AdvanceFits'
    BY DEF PinRises, AtLeast, WipesConfirmed, Advancing1Confirmed, Advancing, AdvanceFits,
           AdvanceConfirmed, WInv
  <1>2. RepliesReport'
    BY DEF RepliesReport, ReportedReply, Reported, AtLeast
  <1> QED BY <1>1, <1>2 DEF BaseStep

(* Its answers report the pin as it is. *)
LEMMA AnswersReport ==
    ASSUME RepliesReport, pin \in Layouts \union {CNF_VERSION_UNSET},
           NEW t \in Throttles, NEW m \in Request,
           m.type \in {"push", "pull"}, m.sub \in {"BEGIN", "DATA", "COMMIT"},
           m.entry \in Entries,
           NEW status \in Statuses, NEW crc \in Profiles \union {None},
           NEW piece \in Pieces \union {None}, Answer(t, m, status, crc, piece)
    PROVE  replies' \in [Throttles -> Seq(ReportedReply)]
  <1> DEFINE r == [type |-> m.type, sub |-> m.sub, entry |-> m.entry, chunk |-> m.chunk,
                   status |-> status, version |-> pin, crc |-> crc, piece |-> piece]
  <1>1. m.chunk \in 0..Chunks
    BY DEF Request
  <1>2. r \in Reply /\ r.version = pin
    BY <1>1 DEF Reply
  <1>3. Reported(pin)
    BY VersionsAreNumbers DEF Reported, AtLeast
  <1>4. r \in ReportedReply
    BY <1>2, <1>3 DEF ReportedReply
  <1>5. CASE UNCHANGED replies
    BY <1>5 DEF RepliesReport
  <1>6. CASE replies' = [replies EXCEPT ![t] = Append(replies[t], r)]
    <2>1. Append(replies[t], r) \in Seq(ReportedReply)
      <3> HIDE DEF r
      <3> QED BY <1>4 DEF RepliesReport
    <2> QED BY <1>6, <2>1 DEF RepliesReport
  <1> QED BY <1>5, <1>6 DEF Answer

(* Every request leaves the pin rising, and a BEGIN that is harmless starts no upgrade    *)
(* that is not confirmed.                                                                *)
LEMMA ServeStep ==
    ASSUME WInv, NEW t \in Throttles, NEW m \in Requests(version[t]),
           m.type = "push" => Harmless(t), Serve(t, m), UNCHANGED version
    PROVE  BaseStep
  <1>0. /\ version[t] \in Layouts /\ m \in Request /\ pin \in Layouts \union {CNF_VERSION_UNSET}
        /\ m.type # "status" => m.entry \in Entries
        /\ m.type # "status" /\ m.sub = "DATA" => m.chunk \in 1..Chunks
        /\ m.type = "push" /\ m.sub = "COMMIT" => m.crc \in OfLayout(version[t])
        /\ RepliesReport /\ BaseInv /\ AdvanceFits /\ AdvanceConfirmed
    BY DEF WInv, IInv, BaseInv, Requests
  <1>A. ASSUME NEW status \in Statuses, Refuse(t, m, status), m.type \in {"push", "pull"},
               m.sub \in {"BEGIN", "DATA", "COMMIT"}
        PROVE  BaseStep
    <2>1. replies' \in [Throttles -> Seq(ReportedReply)]
      BY <1>0, <1>A, AnswersReport DEF Refuse
    <2> QED BY <1>A, <2>1, SameBase DEF Refuse
  <1>1. CASE PushBegin(t, m)
    <2>1. CASE Busy(t) /\ Refuse(t, m, "BUSY")
      BY <1>1, <1>A, <2>1 DEF PushBegin, Statuses
    <2>2. CASE ~Busy(t) /\ OlderThanPin(t) /\ Refuse(t, m, "VERSION_MISMATCH")
      BY <1>1, <1>A, <2>2 DEF PushBegin, Statuses
    <2>3. CASE /\ ~Busy(t) /\ ~OlderThanPin(t)
               /\ session' = [kind |-> "push", who |-> t, entry |-> m.entry,
                              advance |-> Advances(t)]
               /\ scratch' = Blank
               /\ Answer(t, m, "OK", None, None)
               /\ UNCHANGED <<entries, pin>>
      <3>1. RepliesReport'
        <4>1. replies' \in [Throttles -> Seq(ReportedReply)]
          BY <1>0, <1>1, <2>3, AnswersReport DEF PushBegin, Statuses
        <4> QED BY <2>3, <4>1 DEF RepliesReport, ReportedReply, Reported, AtLeast
      <3>2. Advances(t) <=> ~AtLeast(version[t])
        <4>1. version[t] \in Nat /\ pin \in Nat
          BY <1>0, VersionsAreNumbers
        <4> QED BY <4>1 DEF Advances, AtLeast
      <3>3. session'.kind = "push" /\ session'.who = t
            /\ (session'.advance <=> ~AtLeast(version[t]))
        BY <2>3, <3>2
      <3>4. AdvanceFits'
        BY <2>3, <3>3 DEF AdvanceFits, Advancing, AtLeast
      <3>5. Advancing1Confirmed
        BY <1>1, <3>3 DEF Advancing1Confirmed, Advancing, Harmless, PushBegin
      <3>6. PinRises /\ WipesConfirmed
        BY <2>3 DEF PinRises, AtLeast, WipesConfirmed
      <3> QED BY <3>1, <3>4, <3>5, <3>6 DEF BaseStep
    <2> QED BY <1>1, <2>1, <2>2, <2>3 DEF PushBegin
  <1>2. CASE PushData(t, m)
    <2>1. CASE Refuse(t, m, "BAD_ENTRY")
      BY <1>2, <1>A, <2>1 DEF PushData, Statuses
    <2>2. CASE Answer(t, m, "OK", None, None) /\ UNCHANGED <<entries, pin, session>>
      <3>1. replies' \in [Throttles -> Seq(ReportedReply)]
        BY <1>0, <1>2, <2>2, AnswersReport DEF PushData, Statuses
      <3> QED BY <2>2, <3>1, SameBase
    <2> QED BY <1>2, <2>1, <2>2 DEF PushData
  <1>3. CASE PushCommit(t, m)
    <2>1. CASE Refuse(t, m, "BAD_ENTRY")
      BY <1>3, <1>A, <2>1 DEF PushCommit, Statuses
    <2>2. CASE Refuse(t, m, "CHECKSUM_FAIL")
      BY <1>3, <1>A, <2>2 DEF PushCommit, Statuses
    <2>3. CASE /\ Serves(t, m, {"push", "pushed"}) /\ scratch = m.crc
               /\ entries' = [e \in Entries |-> IF e = m.entry THEN scratch
                                                ELSE IF session.advance THEN None ELSE entries[e]]
               /\ pin' = IF session.advance THEN version[t] ELSE pin
               /\ session' = [session EXCEPT !.kind = "pushed"]
               /\ Answer(t, m, "OK", None, None)
               /\ UNCHANGED scratch
      <3>1. replies' \in [Throttles -> Seq(ReportedReply)]
        BY <1>0, <1>3, <2>3, AnswersReport DEF PushCommit, Statuses
      <3>2. /\ session.kind \in {"push", "pushed"} /\ session.who = t
            /\ session.entry = m.entry /\ session \in Session
        BY <1>0, <2>3 DEF Serves, BaseInv
      <3>3. pin' = version[t]
        BY <1>0, <2>3, <3>2 DEF BaseInv, SessionOfLayout
      <3>4. PinRises
        <4>1. CASE pin' = pin
          BY <4>1 DEF PinRises, AtLeast
        <4>2. CASE pin' # pin
          <5>1. session.kind = "push" /\ session.advance
            BY <1>0, <2>3, <3>2, <3>3, <4>2 DEF AdvanceFits
          <5>2. ~AtLeast(version[t])
            BY <1>0, <3>2, <5>1 DEF AdvanceFits, Advancing
          <5>3. version[t] \in Nat /\ pin \in Nat /\ version[t] # CNF_VERSION_UNSET
            BY <1>0, VersionsAreNumbers, VersionsAreSet
          <5>4. \A v \in Nat: AtLeast(v) => v <= version[t]
            BY <5>2, <5>3 DEF AtLeast
          <5> QED BY <3>3, <5>3, <5>4, VersionsAreNumbers DEF PinRises, AtLeast
        <4> QED BY <4>1, <4>2
      <3>5. RepliesReport'
        BY <3>1, <3>4, ReportsLast DEF RepliesReport
      <3>6. session' = [kind |-> "pushed", who |-> session.who, entry |-> session.entry,
                        advance |-> session.advance]
        BY <2>3, <3>2 DEF Session
      <3>7. AdvanceFits' /\ Advancing1Confirmed
        BY <1>0, <2>3, <3>2, <3>3, <3>6 DEF AdvanceFits, Advancing, Advancing1Confirmed
      <3>8. WipesConfirmed
        <4> SUFFICES ASSUME NEW e \in Entries, entries[e] # None, entries'[e] = None
                     PROVE  confirmed[session.who]
          BY DEF WipesConfirmed
        <4>1. scratch # None
          <5>1. scratch \in Profiles
            BY <1>0, <1>3, <2>3, ProfilesAreBuffers DEF PushCommit
          <5> QED BY <5>1, ProfilesAreBuffers
        <4>2. e # m.entry /\ session.advance
          BY <2>3, <4>1
        <4>3. session.kind # "pushed"
          BY <1>0, <3>2, <4>2 DEF AdvanceFits
        <4> QED BY <1>0, <3>2, <4>2, <4>3 DEF AdvanceConfirmed, Advancing
      <3> QED BY <3>4, <3>5, <3>7, <3>8 DEF BaseStep
    <2> QED BY <1>3, <2>1, <2>2, <2>3 DEF PushCommit
  <1>4. CASE PullBegin(t, m)
    <2>1. CASE Refuse(t, m, "BUSY")
      BY <1>4, <1>A, <2>1 DEF PullBegin, Statuses
    <2>2. CASE /\ session' = [kind |-> "pull", who |-> t, entry |-> m.entry, advance |-> FALSE]
               /\ Answer(t, m, IF entries[m.entry] = None THEN "EMPTY" ELSE "OK",
                         entries[m.entry], None)
               /\ UNCHANGED <<entries, pin>>
      <3> DEFINE held == entries[m.entry]
                 status == IF held = None THEN "EMPTY" ELSE "OK"
      <3>1. held \in Profiles \union {None} /\ status \in Statuses
        BY <1>0, <1>4 DEF BaseInv, PullBegin, Statuses
      <3>2. Answer(t, m, status, held, None)
        BY <2>2
      <3>3. replies' \in [Throttles -> Seq(ReportedReply)]
        <4> HIDE DEF held, status
        <4> QED BY <1>0, <1>4, <3>1, <3>2, AnswersReport DEF PullBegin
      <3>4. RepliesReport'
        BY <2>2, <3>3 DEF RepliesReport, ReportedReply, Reported, AtLeast
      <3>5. AdvanceFits' /\ Advancing1Confirmed
        BY <2>2 DEF AdvanceFits, Advancing, Advancing1Confirmed
      <3>6. PinRises /\ WipesConfirmed
        BY <2>2 DEF PinRises, AtLeast, WipesConfirmed
      <3> QED BY <3>4, <3>5, <3>6 DEF BaseStep
    <2> QED BY <1>4, <2>1, <2>2 DEF PullBegin
  <1>5. CASE PullData(t, m)
    <2>1. CASE Refuse(t, m, "BAD_ENTRY")
      BY <1>5, <1>A, <2>1 DEF PullData, Statuses
    <2>2. CASE /\ entries[m.entry] # None
               /\ Answer(t, m, "OK", None, entries[m.entry][m.chunk])
               /\ UNCHANGED <<entries, pin, session, scratch>>
      <3>1. entries[m.entry][m.chunk] \in Pieces
        BY <1>0, <1>5, <2>2, ProfilesAreBuffers DEF BaseInv, PullData
      <3>2. replies' \in [Throttles -> Seq(ReportedReply)]
        BY <1>0, <1>5, <2>2, <3>1, AnswersReport DEF PullData, Statuses
      <3> QED BY <2>2, <3>2, SameBase
    <2> QED BY <1>5, <2>1, <2>2 DEF PullData
  <1>6. CASE PullDone(t, m)
    <2>1. UNCHANGED <<entries, pin, replies>> /\ session' \in {session, NoSession}
      BY <1>6 DEF PullDone
    <2>2. CASE session' = session
      BY <1>0, <2>1, <2>2, SameBase DEF RepliesReport
    <2>3. CASE session' = NoSession
      <3>1. AdvanceFits' /\ Advancing1Confirmed
        BY <2>3 DEF AdvanceFits, Advancing, Advancing1Confirmed, NoSession
      <3>2. PinRises /\ WipesConfirmed /\ RepliesReport'
        BY <1>0, <2>1 DEF PinRises, AtLeast, WipesConfirmed, RepliesReport, ReportedReply,
                          Reported
      <3> QED BY <3>1, <3>2 DEF BaseStep
    <2> QED BY <2>1, <2>2, <2>3
  <1> QED BY <1>1, <1>2, <1>3, <1>4, <1>5, <1>6 DEF Serve

(* Sending: what goes on the air is harmless if the queue and the request are.           *)
LEMMA TransmitStep ==
    ASSUME WInv, NEW t \in Throttles, NEW q \in Seq(Requests(version[t])), q # <<>>,
           Harmless(t) \/ q \in Seq(NoPush), Transmit(t, q), UNCHANGED version
    PROVE  BaseStep /\ (q \in Seq(NoPush) => txq'[t] \in Seq(NoPush))
                    /\ \A u \in Throttles \ {t}: txq'[u] = txq[u]
  <1>1. Head(q) \in Requests(version[t])
    BY HeadAndTail
  <1>2. q \in Seq(NoPush) => Head(q) \in NoPush /\ Tail(q) \in Seq(NoPush)
    BY HeadAndTail
  <1>3. Head(q).type = "push" => Harmless(t)
    BY <1>2 DEF NoPush
  <1>4. BaseStep
    <2>1. CASE UNCHANGED base
      BY <2>1, SameBase DEF base, WInv, RepliesReport
    <2>2. CASE Serve(t, Head(q))
      BY <1>1, <1>3, <2>2, ServeStep
    <2> QED BY <2>1, <2>2 DEF Transmit
  <1>5. txq' = [txq EXCEPT ![t] = Tail(q)] /\ txq \in [Throttles -> Seq(Request)]
    BY DEF Transmit, WInv, IInv, QueuesFit
  <1> QED BY <1>2, <1>4, <1>5

LEMMA SendStep ==
    ASSUME WInv, NEW t \in Throttles, op[t].kind # "none", op[t].stage # "SHOW",
           Send(t, Asked(op[t], buf[t])), UNCHANGED version
    PROVE  /\ BaseStep
           /\ op[t].kind # "push" /\ txq[t] \in Seq(NoPush) => txq'[t] \in Seq(NoPush)
           /\ \A u \in Throttles \ {t}: txq'[u] = txq[u]
  <1> DEFINE m == Asked(op[t], buf[t])
             q == Pushed(txq[t], m)
  <1>1. m \in Requests(version[t]) /\ m \in Request
    BY AtThrottle, AskedFits DEF WInv, Requests
  <1>2. op[t].kind # "push" => m \in NoPush
    BY <1>1 DEF NoPush, Asked, Wire
  <1>3. txq[t] \in Seq(Requests(version[t]))
    BY DEF WInv, IInv, QueuesFit
  <1>4. Transmit(t, q)
    BY DEF Send
  <1> HIDE DEF m
  <1>5. q \in Seq(Requests(version[t])) /\ q # <<>>
    BY <1>1, <1>3, PushedFits
  <1>6. op[t].kind # "push" /\ txq[t] \in Seq(NoPush) => q \in Seq(NoPush)
    BY <1>2, PushedFits
  <1> HIDE DEF q
  <1>7. Harmless(t) \/ q \in Seq(NoPush)
    BY <1>6 DEF WInv, PushesHarmless
  <1> QED BY <1>4, <1>5, <1>6, <1>7, TransmitStep

-----------------------------------------------------------------------------
(* The throttles.                                                            *)

(* What one step may do to the push of a throttle: start none, start one that is          *)
(* confirmed, or start one the peek says needs no confirmation.                          *)
Starting(u) ==
    \/ op'[u].kind = op[u].kind \/ op'[u].kind # "push"
    \/ screen[u] = "wipe"
    \/ op[u].kind = "peek" /\ ~Upgrades(u, op[u].peeked)

(* What it may learn of the pin. *)
Learning(u) ==
    \/ op'[u].peeked \in {op[u].peeked, CNF_VERSION_UNSET}
    \/ replies[u] # <<>> /\ op'[u].peeked = Head(replies[u]).version

(* And what it may put in its queue. *)
Queueing(u) ==
    op[u].kind # "push" /\ txq[u] \in Seq(NoPush) => txq'[u] \in Seq(NoPush)

ThrottleStep == \A u \in Throttles: Starting(u) /\ Learning(u) /\ Queueing(u)

(* The others do nothing. *)
LEMMA OnlyOne ==
    ASSUME WInv, NEW t \in Throttles, Starting(t), Learning(t), Queueing(t),
           \A u \in Throttles \ {t}: op'[u] = op[u] /\ txq'[u] = txq[u]
    PROVE  ThrottleStep
  BY DEF ThrottleStep, Starting, Learning, Queueing

LEMMA PopStep ==
    ASSUME WInv, NEW t \in Throttles, replies[t] # <<>>,
           replies' = [replies EXCEPT ![t] = Tail(@)],
           UNCHANGED <<version, entries, pin, session>>
    PROVE  BaseStep
  <1>1. replies' \in [Throttles -> Seq(ReportedReply)]
    BY HeadAndTail DEF WInv, RepliesReport
  <1> QED BY <1>1, SameBase

(* Where only one field of one sync changes, or none does. *)
LEMMA SyncStep ==
    ASSUME WInv, NEW t \in Throttles, Syncing(t)
    PROVE  BaseStep /\ ThrottleStep
  <1>0. op \in [Throttles -> Op] /\ op[t] \in Op
    BY AtThrottle DEF WInv
  <1>1. CASE Attempt(t)
    <2>1. BaseStep /\ Queueing(t) /\ \A u \in Throttles \ {t}: txq'[u] = txq[u]
      BY <1>1, SendStep DEF Attempt, Queueing
    <2>2. op'[t].kind = op[t].kind /\ op'[t].peeked = op[t].peeked
          /\ \A u \in Throttles \ {t}: op'[u] = op[u]
      BY <1>0, <1>1 DEF Attempt, Op
    <2> QED BY <2>1, <2>2, OnlyOne DEF Starting, Learning
  <1>2. CASE TimeOut(t)
    <2>1. BaseStep
      BY <1>2, SameBase DEF TimeOut, base, WInv, RepliesReport
    <2>2. op'[t].kind = op[t].kind /\ op'[t].peeked = op[t].peeked
          /\ \A u \in Throttles \ {t}: op'[u] = op[u]
      BY <1>0, <1>2 DEF TimeOut, Retried, Ends, Op
    <2>3. txq' = txq
      BY <1>2 DEF TimeOut
    <2> QED BY <2>1, <2>2, <2>3, OnlyOne DEF Starting, Learning, Queueing
  <1>3. CASE Discard(t) \/ Begun(t) \/ Chunked(t) \/ Committed(t)
    <2>1. Pops(t)
      BY <1>3 DEF Discard, Begun, Chunked, Committed
    <2>2. BaseStep /\ txq' = txq
      BY <2>1, PopStep DEF Pops
    <2>3. op'[t].kind = op[t].kind /\ op'[t].peeked = op[t].peeked
          /\ \A u \in Throttles \ {t}: op'[u] = op[u]
      <3>1. CASE Discard(t)
        BY <3>1 DEF Discard
      <3>2. CASE Begun(t)
        BY <1>0, <3>2 DEF Begun, Ends, Op
      <3>3. CASE Chunked(t)
        BY <1>0, <3>3 DEF Chunked, Ends, Goes, Op
      <3>4. CASE Committed(t)
        BY <1>0, <3>4 DEF Committed, Ends, Op
      <3> QED BY <1>3, <3>1, <3>2, <3>3, <3>4
    <2> QED BY <2>2, <2>3, OnlyOne DEF Starting, Learning, Queueing
  <1>4. CASE Peeked(t)
    <2>1. Pops(t)
      BY <1>4 DEF Peeked
    <2>2. BaseStep /\ txq' = txq /\ replies[t] # <<>>
      BY <2>1, PopStep DEF Pops
    <2>3. op'[t].kind = op[t].kind /\ op'[t].peeked = Head(replies[t]).version
          /\ \A u \in Throttles \ {t}: op'[u] = op[u]
      BY <1>0, <1>4 DEF Peeked, Op
    <2> QED BY <2>2, <2>3, OnlyOne DEF Starting, Learning, Queueing
  <1>5. CASE Done(t)
    <2>1. op[t].kind # "none" /\ op[t].stage = "DONE"
      BY <1>5, AtThrottle DEF Done, OpFits, WInv
    <2>2. BaseStep /\ Queueing(t) /\ \A u \in Throttles \ {t}: txq'[u] = txq[u]
      BY <1>5, <2>1, SendStep DEF Done, Queueing
    <2>3. \A u \in Throttles \ {t}: op'[u] = op[u]
      BY <1>0, <1>5 DEF Done
    <2>4. Starting(t) /\ Learning(t)
      <3>1. CASE op' = [op EXCEPT ![t] = NoOp]
        BY <1>0, <3>1 DEF Starting, Learning, NoOp, NewOp
      <3>2. CASE op' = [op EXCEPT ![t] = NewOp("push", op[t].entry)]
                 /\ op[t].kind = "peek" /\ ~Upgrades(t, op[t].peeked)
        BY <1>0, <3>2 DEF Starting, Learning, NewOp
      <3>3. CASE op' = [op EXCEPT ![t].stage = "SHOW"]
        BY <1>0, <3>3 DEF Starting, Learning, Op
      <3> QED BY <1>5, <3>1, <3>2, <3>3 DEF Done
    <2> QED BY <2>2, <2>3, <2>4, OnlyOne
  <1>6. CASE Show(t)
    <2>1. BaseStep /\ txq' = txq
      BY <1>6, SameBase DEF Show, base, WInv, RepliesReport
    <2>2. op'[t] = NoOp /\ \A u \in Throttles \ {t}: op'[u] = op[u]
      BY <1>0, <1>6 DEF Show
    <2> QED BY <2>1, <2>2, OnlyOne DEF Starting, Learning, Queueing, NoOp, NewOp
  <1> QED BY <1>1, <1>2, <1>3, <1>4, <1>5, <1>6 DEF Syncing

LEMMA CrewStep ==
    ASSUME WInv, NEW t \in Throttles, Crew(t)
    PROVE  BaseStep /\ ThrottleStep
  <1>0. op \in [Throttles -> Op]
    BY AtThrottle DEF WInv
  <1>1. BaseStep /\ txq' = txq
    <2>1. UNCHANGED <<version, base, txq>>
      BY DEF Crew, FromPicker, ConfirmUpgrade, ConfirmWipe, Leave, Edit, Starts
    <2> QED BY <2>1, SameBase DEF base, WInv, RepliesReport
  <1>2. CASE FromPicker(t)
    <2>1. PICK kind \in Wants[t] \ {"edit"}, e \in Entries: Starts(t, kind, e)
      BY <1>2 DEF FromPicker
    <2>2. kind # "push"
      BY SyncAssumption
    <2>3. op'[t] = NewOp(kind, e) /\ \A u \in Throttles \ {t}: op'[u] = op[u]
      BY <1>0, <2>1 DEF Starts
    <2> QED BY <1>1, <2>2, <2>3, OnlyOne DEF Starting, Learning, Queueing, NewOp
  <1>3. CASE ConfirmWipe(t)
    <2>1. op'[t] = NewOp("push", slot[t]) /\ \A u \in Throttles \ {t}: op'[u] = op[u]
      BY <1>0, <1>3 DEF ConfirmWipe, Starts
    <2>2. screen[t] = "wipe"
      BY <1>3 DEF ConfirmWipe
    <2> QED BY <1>1, <2>1, <2>2, OnlyOne DEF Starting, Learning, Queueing, NewOp
  <1>4. CASE ConfirmUpgrade(t) \/ Leave(t) \/ Edit(t)
    <2>1. op' = op
      BY <1>4 DEF ConfirmUpgrade, Leave, Edit
    <2> QED BY <1>1, <2>1 DEF ThrottleStep, Starting, Learning, Queueing
  <1> QED BY <1>2, <1>3, <1>4 DEF Crew

LEMMA LoopStep ==
    ASSUME WInv, NEW t \in Throttles, Loop(t)
    PROVE  BaseStep /\ ThrottleStep
  <1>0. op' = op /\ txq \in [Throttles -> Seq(Request)]
    BY DEF Loop, QueueStatus, LoopTransmit, LoopReceive, sync, WInv, IInv, QueuesFit
  <1>1. CASE QueueStatus(t)
    <2>1. BaseStep
      BY <1>1, SameBase DEF QueueStatus, base, WInv, RepliesReport
    <2>2. StatusPacket \in NoPush
      BY TransferAssumption DEF StatusPacket, NoPush, Request
    <2>3. txq[t] \in Seq(NoPush) => Pushed(txq[t], StatusPacket) \in Seq(NoPush)
      BY <2>2, PushedFits
    <2>4. txq'[t] = Pushed(txq[t], StatusPacket) /\ \A u \in Throttles \ {t}: txq'[u] = txq[u]
      BY <1>0, <1>1 DEF QueueStatus
    <2> QED BY <1>0, <2>1, <2>3, <2>4, OnlyOne DEF Starting, Learning, Queueing
  <1>2. CASE LoopTransmit(t)
    <2> DEFINE q == txq[t]
    <2>1. q \in Seq(Requests(version[t])) /\ q # <<>> /\ Transmit(t, q) /\ UNCHANGED version
      BY <1>2 DEF LoopTransmit, WInv, IInv, QueuesFit
    <2>2. Harmless(t) \/ q \in Seq(NoPush)
      BY DEF WInv, PushesHarmless
    <2>3. BaseStep /\ (q \in Seq(NoPush) => txq'[t] \in Seq(NoPush))
          /\ \A u \in Throttles \ {t}: txq'[u] = txq[u]
      <3> HIDE DEF q
      <3> QED BY <2>1, <2>2, TransmitStep
    <2> QED BY <1>0, <2>3, OnlyOne DEF Starting, Learning, Queueing
  <1>3. CASE LoopReceive(t)
    <2>1. BaseStep /\ txq' = txq
      BY <1>3, PopStep DEF LoopReceive
    <2> QED BY <1>0, <2>1 DEF ThrottleStep, Starting, Learning, Queueing
  <1> QED BY <1>1, <1>2, <1>3 DEF Loop

LEMMA ForgetStep ==
    ASSUME WInv, Forget, UNCHANGED <<version, sync, txq>>
    PROVE  BaseStep /\ ThrottleStep
  <1>1. UNCHANGED <<version, entries, pin, replies>> /\ session' = NoSession
    BY DEF Forget
  <1>2. AdvanceFits' /\ Advancing1Confirmed
    BY <1>1 DEF AdvanceFits, Advancing, Advancing1Confirmed, NoSession
  <1>3. PinRises /\ WipesConfirmed /\ RepliesReport'
    BY <1>1 DEF PinRises, AtLeast, WipesConfirmed, WInv, RepliesReport, ReportedReply, Reported
  <1>4. ThrottleStep
    BY DEF sync, ThrottleStep, Starting, Learning, Queueing
  <1> QED BY <1>2, <1>3, <1>4 DEF BaseStep

LEMMA NextStep ==
    ASSUME WInv, Next
    PROVE  BaseStep /\ ThrottleStep
  BY SyncStep, CrewStep, LoopStep, ForgetStep DEF Next

-----------------------------------------------------------------------------
(* The theorem.                                                              *)

LEMMA WInitLemma == HInit => WInv
  <1> SUFFICES ASSUME HInit PROVE WInv
    OBVIOUS
  <1>1. IInv /\ confirmed \in [Throttles -> BOOLEAN]
    BY InitLemma DEF HInit
  <1>2. RepliesReport
    BY DEF HInit, Init, BaseInit, RepliesReport
  <1>3. PeeksReport
    BY DEF HInit, Init, NoOp, NewOp, PeeksReport, Reported
  <1>4. AdvanceFits /\ AdvanceConfirmed
    BY DEF HInit, Init, BaseInit, NoSession, AdvanceFits, AdvanceConfirmed, Advancing
  <1>5. PushesHarmless
    <2> SUFFICES ASSUME NEW t \in Throttles
                 PROVE  op[t].kind # "push" /\ txq[t] \in Seq(NoPush)
      BY DEF PushesHarmless
    <2>1. op[t].kind # "push"
      BY DEF HInit, Init, NoOp, NewOp
    <2>2. txq[t] = <<>>
      BY DEF HInit, Init
    <2>3. <<>> \in Seq(NoPush)
      OBVIOUS
    <2> QED BY <2>1, <2>2, <2>3
  <1> QED BY <1>1, <1>2, <1>3, <1>4, <1>5 DEF WInv

(* The firmware of a throttle stays. *)
LEMMA VersionStays == Next => version' = version
  <1>1. ASSUME NEW t \in Throttles, Syncing(t) PROVE version' = version
    BY ONLY <1>1, Zenon DEF Syncing, Attempt, TimeOut, Discard, Pops, Begun, Peeked, Chunked,
                            Committed, Done, Show
  <1>2. ASSUME NEW t \in Throttles, Crew(t) PROVE version' = version
    BY ONLY <1>2, Zenon DEF Crew, FromPicker, Starts, ConfirmUpgrade, ConfirmWipe, Leave, Edit
  <1>3. ASSUME NEW t \in Throttles, Loop(t) PROVE version' = version
    BY ONLY <1>3, Zenon DEF Loop, QueueStatus, LoopTransmit, LoopReceive
  <1> QED BY ONLY <1>1, <1>2, <1>3, Zenon DEF Next

(* A throttle that did not confirm its last push, or has not pushed yet, finds no table    *)
(* to upgrade.                                                                           *)
LEMMA HarmlessKept ==
    ASSUME WInv, HNext, NEW u \in Throttles
    PROVE  /\ confirmed'[u] = confirmed[u] \/ Harmless(u)'
           /\ Harmless(u)' \/ (op'[u].kind # "push" /\ txq'[u] \in Seq(NoPush))
  <1>1. BaseStep /\ ThrottleStep /\ version' = version
    <2>1. version' = version
      BY VersionStays DEF HNext
    <2> QED BY <2>1, NextStep DEF HNext
  <1>2. confirmed'[u] = IF op'[u].kind = "push" /\ op[u].kind # "push"
                        THEN screen[u] = "wipe" ELSE confirmed[u]
    BY DEF HNext, Remember
  <1>3. version[u] \in Layouts
    BY AtThrottle DEF WInv
  <1>4. AtLeast(version[u]) => Harmless(u)'
    BY <1>1, <1>3 DEF BaseStep, PinRises, Harmless, AtLeast
  <1>5. CASE op'[u].kind = "push" /\ op[u].kind # "push"
    <2>1. CASE screen[u] = "wipe"
      BY <1>2, <1>5, <2>1 DEF Harmless
    <2>2. CASE ~Upgrades(u, op[u].peeked)
      <3>1. op[u].peeked \in Nat /\ version[u] \in Nat /\ pin \in Nat
        <4>1. op[u].peeked \in Layouts \union {CNF_VERSION_UNSET}
          BY AtThrottle DEF WInv, Op
        <4>2. pin \in Layouts \union {CNF_VERSION_UNSET}
          BY DEF WInv, IInv, BaseInv
        <4> QED BY <1>3, <4>1, <4>2, VersionsAreNumbers
      <3>2. op[u].peeked # CNF_VERSION_UNSET /\ ~(op[u].peeked < version[u])
        BY <2>2 DEF Upgrades
      <3>3. Reported(op[u].peeked)
        BY DEF WInv, PeeksReport
      <3>4. AtLeast(version[u])
        BY <3>1, <3>2, <3>3 DEF Reported, AtLeast
      <3> QED BY <1>4, <3>4
    <2> QED BY <1>1, <1>5, <2>1, <2>2 DEF ThrottleStep, Starting
  <1>6. CASE ~(op'[u].kind = "push" /\ op[u].kind # "push")
    <2>1. confirmed'[u] = confirmed[u]
      BY <1>2, <1>6
    <2>2. CASE Harmless(u)
      BY <1>4, <2>1, <2>2 DEF Harmless
    <2>3. CASE ~Harmless(u)
      <3>1. op[u].kind # "push" /\ txq[u] \in Seq(NoPush)
        BY <2>3 DEF WInv, PushesHarmless
      <3> QED BY <1>1, <1>6, <2>1, <3>1 DEF ThrottleStep, Queueing
    <2> QED BY <2>1, <2>2, <2>3
  <1> QED BY <1>5, <1>6

LEMMA WStepLemma == WInv /\ [HNext]_hvars => WInv'
  <1> SUFFICES ASSUME WInv, [HNext]_hvars PROVE WInv'
    OBVIOUS
  <1>1. IInv'
    BY StepLemma DEF WInv, HNext, hvars
  <1>2. CASE HNext
    <2>1. BaseStep /\ ThrottleStep
      BY <1>2, NextStep DEF HNext
    <2>2. confirmed' \in [Throttles -> BOOLEAN]
      BY <1>2 DEF HNext, Remember, WInv
    <2>3. PeeksReport'
      <3> SUFFICES ASSUME NEW u \in Throttles PROVE Reported(op[u].peeked)'
        BY DEF PeeksReport
      <3>2. op[u].peeked \in Layouts \union {CNF_VERSION_UNSET} /\ Reported(op[u].peeked)
        BY AtThrottle DEF WInv, Op, PeeksReport
      <3>3. replies[u] # <<>> => Head(replies[u]) \in ReportedReply
        BY HeadAndTail DEF WInv, RepliesReport
      <3>4. replies[u] # <<>> => /\ Reported(Head(replies[u]).version)
                                 /\ Head(replies[u]).version \in Layouts \union {CNF_VERSION_UNSET}
        BY <3>3 DEF ReportedReply, Reply
      <3>5. \A v \in Layouts \union {CNF_VERSION_UNSET}: Reported(v) => Reported(v)'
        BY <2>1, ReportsLast DEF BaseStep
      <3>6. \/ op'[u].peeked \in {op[u].peeked, CNF_VERSION_UNSET}
            \/ replies[u] # <<>> /\ op'[u].peeked = Head(replies[u]).version
        BY <2>1 DEF ThrottleStep, Learning
      <3>7. CASE op'[u].peeked = CNF_VERSION_UNSET
        BY <3>7 DEF Reported
      <3>8. CASE op'[u].peeked = op[u].peeked
        BY <3>2, <3>5, <3>8 DEF Reported, AtLeast
      <3>9. CASE replies[u] # <<>> /\ op'[u].peeked = Head(replies[u]).version
        BY <3>4, <3>5, <3>9 DEF Reported, AtLeast
      <3> QED BY <3>6, <3>7, <3>8, <3>9
    <2>4. PushesHarmless'
      BY <1>2, HarmlessKept DEF PushesHarmless
    <2>5. AdvanceConfirmed'
      <3> SUFFICES ASSUME Advancing' PROVE confirmed'[session'.who]
        BY DEF AdvanceConfirmed
      <3>1. session'.who \in Throttles
        BY <1>1 DEF IInv, BaseInv, SessionOfLayout, Advancing
      <3>2. confirmed[session'.who] /\ ~AtLeast(version[session.who])'
        BY <2>1 DEF BaseStep, Advancing1Confirmed, AdvanceFits
      <3> QED BY <1>2, <3>1, <3>2, HarmlessKept DEF Harmless
    <2> QED BY <1>1, <2>1, <2>2, <2>3, <2>4, <2>5 DEF WInv, BaseStep
  <1>3. CASE UNCHANGED hvars
    <2>1. UNCHANGED <<version, entries, pin, session, replies, op, txq, confirmed>>
      BY <1>3 DEF hvars, vars, base, sync, history
    <2>2. RepliesReport' /\ PeeksReport' /\ PushesHarmless'
      BY <2>1 DEF WInv, RepliesReport, ReportedReply, PeeksReport, Reported, AtLeast,
                  PushesHarmless, Harmless, NoPush
    <2>3. AdvanceFits' /\ AdvanceConfirmed'
      BY <2>1 DEF WInv, AdvanceFits, AdvanceConfirmed, Advancing, AtLeast
    <2> QED BY <1>1, <2>1, <2>2, <2>3 DEF WInv
  <1> QED BY <1>2, <1>3

(* No push takes what others have saved off the table unless its crew has confirmed it    *)
(* twice: for any number of throttles, whatever the table does between the check and the  *)
(* push, and with leftovers and repeats of earlier pushes still on their way (3415-3440). *)
THEOREM WipesAreConfirmed == HSpec => NoSilentWipe
  <1>1. WInv /\ [HNext]_hvars =>
          [\A e \in Entries: entries[e] # None /\ entries'[e] = None
             => confirmed[session.who]]_hvars
    BY NextStep DEF HNext, BaseStep, WipesConfirmed
  <1> QED BY <1>1, WInitLemma, WStepLemma, PTL DEF HSpec, NoSilentWipe
=============================================================================
